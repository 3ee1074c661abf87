--------------------------- MODULE EngineAgentProofs ---------------------------
(***************************************************************************)
(* Proofs about EngineAgent, for any engines, voices, users and faults: the *)
(* types, that the default voice, the accepted texts and the stored        *)
(* settings stay consistent with the engine, and what is made of a voice   *)
(* request.                                                                *)
(***************************************************************************)
EXTENDS EngineAgent, WellFoundedInduction, TLAPS

(* What the three invariants rest on: an engine is loaded only while        *)
(* somebody uses it, through its own functions; a client that has left has  *)
(* no texts; a dead daemon has nothing.                                     *)
LoadedForUsers ==
  /\ cur.loaded => HasUsers /\ cur.funcs = cur.engine /\ cur.engine \in Engine
  /\ HasUsers => isEngine
  /\ ~up => ~HasUsers
  /\ \A c \in Client \ clients : pending[c] = {}

AgentInv ==
  /\ AgentTypeOK
  /\ DefaultVoiceIsSupported
  /\ AcceptedTextStaysSelectable
  /\ RestartKeepsSettings
  /\ LoadedForUsers

-------------------------------------------------------------------------------
(* Types of the constants the definitions use.                             *)

LEMMA NullTypes == NullConf \in Conf /\ NullEngine \in CurEngine
  BY DEF NullConf, NullEngine, Conf, CurEngine, Voice

LEMMA TornType == Torn \in Stored
<1> DEFINE k == NullConf
<1>1. k \in Conf
  BY NullTypes
<1> HIDE DEF k
<1>2. [kind |-> "torn", conf |-> k, current |-> FALSE] \in Stored
  BY <1>1 DEF Stored
<1> QED BY <1>2 DEF Torn, k

LEMMA VoiceTypes ==
  ASSUME NEW e \in Engine, NEW i \in DOMAIN VoicesOf[e]
  PROVE  VoicesOf[e][i] \in Voice
<1>1. VoicesOf[e] \in Seq([lang: Lang, type: Nat \ {AutoType}])
  BY VoicesAssumption
<1>2. \A S : VoicesOf[e] \in Seq(S) => VoicesOf[e][i] \in S
  OBVIOUS
<1>3. VoicesOf[e][i] \in [lang: Lang, type: Nat \ {AutoType}]
  BY <1>1, <1>2
<1> QED BY <1>3 DEF Voice

(* An engine that lists a voice first supports it.                         *)
LEMMA FirstIsSupported ==
  ASSUME NEW e \in Engine, VoicesOf[e] # <<>>
  PROVE  /\ VoicesOf[e][1] \in Voice
         /\ Supports(e, VoicesOf[e][1])
<1>1. VoicesOf[e] \in Seq([lang: Lang, type: Nat \ {AutoType}])
  BY VoicesAssumption
<1>2. 1 \in DOMAIN VoicesOf[e]
  BY <1>1
<1> QED BY <1>2, VoiceTypes DEF Supports

(* Whether an engine can speak a request does not depend on which of its    *)
(* voices is the default: what was accepted stays selectable.               *)
LEMMA SelectableForAnyDefault ==
  ASSUME NEW e \in Engine, NEW v, NEW w, Supports(e, v), Supports(e, w),
         NEW r \in VoiceRequest, IsSelectable(VoicesOf[e], v, r)
  PROVE  IsSelectable(VoicesOf[e], w, r)
<1>1. PICK i \in DOMAIN VoicesOf[e] : VoicesOf[e][i] = v
  BY DEF Supports
<1>2. PICK j \in DOMAIN VoicesOf[e] : VoicesOf[e][j] = w
  BY DEF Supports
<1>3. i \in WithLang(VoicesOf[e], v.lang) /\ j \in WithLang(VoicesOf[e], w.lang)
  BY <1>1, <1>2 DEF WithLang
<1>4. VoicesOf[e] # <<>>
  BY <1>1
<1> QED BY <1>3, <1>4 DEF IsSelectable

(* Writing the file leaves what was to be written, or one known to be old.  *)
LEMMA WritesResult ==
  ASSUME NEW k \in Conf, NEW s \in Stored, NEW w \in Writes(k, s)
  PROVE  w \in Stored /\ UpToDate(w, k)
<1>1. CASE w = Saved(k)
  BY <1>1 DEF Saved, Stored, UpToDate
<1>2. CASE w = Unwritten(s)
  BY <1>2 DEF Unwritten, Stored, UpToDate
<1>3. CASE w = Torn
  BY <1>3, TornType DEF UpToDate, Torn
<1> QED BY <1>1, <1>2, <1>3 DEF Writes

LEMMA AdoptedResult ==
  ASSUME NEW k \in Conf, NEW s \in Stored, UpToDate(s, k), NEW e \in Engine,
         NEW w \in AdoptedFiles(k, e, s)
  PROVE  /\ Adopted(k, e) \in Conf /\ Adopted(k, e).engine = e
         /\ Adopted(k, e).voice = k.voice /\ Adopted(k, e).speed = k.speed
         /\ w \in Stored /\ UpToDate(w, Adopted(k, e))
<1>1. /\ Adopted(k, e) \in Conf /\ Adopted(k, e).engine = e
      /\ Adopted(k, e).voice = k.voice /\ Adopted(k, e).speed = k.speed
  BY DEF Adopted, Conf
<1>2. CASE k.engine = e
  <2>1. Adopted(k, e) = k /\ w = s
    BY <1>2 DEF AdoptedFiles, Adopted, Conf
  <2> QED BY <1>1, <2>1
<1>3. CASE k.engine # e
  BY <1>1, <1>3, WritesResult DEF AdoptedFiles
<1> QED BY <1>2, <1>3

(* The voice a loaded engine speaks with, and that it is stored.            *)
LEMMA LoadedResult ==
  ASSUME NEW c \in CurEngine, c.engine \in Engine, VoicesOf[c.engine] # <<>>,
         NEW k \in Conf, NEW s \in Stored, UpToDate(s, k), c.voice = k.voice,
         NEW w \in LoadedFiles(c, k, s)
  PROVE  /\ UsableVoice(c) \in Voice /\ Supports(c.engine, UsableVoice(c))
         /\ LoadedConf(c, k) \in Conf
         /\ LoadedConf(c, k).engine = k.engine
         /\ LoadedConf(c, k).speed = k.speed
         /\ LoadedConf(c, k).voice = UsableVoice(c)
         /\ w \in Stored /\ UpToDate(w, LoadedConf(c, k))
<1>1. UsableVoice(c) \in Voice /\ Supports(c.engine, UsableVoice(c))
  BY FirstIsSupported DEF UsableVoice, CurEngine
<1>2. /\ LoadedConf(c, k) \in Conf
      /\ LoadedConf(c, k).engine = k.engine
      /\ LoadedConf(c, k).speed = k.speed
      /\ LoadedConf(c, k).voice = UsableVoice(c)
  BY <1>1 DEF LoadedConf, Conf
<1>3. w \in Stored /\ UpToDate(w, LoadedConf(c, k))
  BY <1>2, WritesResult DEF LoadedFiles, LoadedConf
<1> QED BY <1>1, <1>2, <1>3

(* Loading: what it leaves behind, whatever it was called with.             *)
LEMMA LoadResult ==
  ASSUME NEW c \in CurEngine, NEW k \in Conf, NEW s \in Stored,
         NEW succeeds \in BOOLEAN, Load(succeeds, c, k, s),
         ~c.loaded, installed \subseteq Engine,
         UpToDate(s, k), c.voice = k.voice, c.speed = k.speed
  PROVE  /\ cur' \in CurEngine /\ conf' \in Conf /\ stored' \in Stored
         /\ cur'.engine = c.engine /\ conf'.engine = k.engine
         /\ cur'.loaded = succeeds
         /\ succeeds => /\ cur'.funcs = c.engine /\ c.engine \in Engine
                        /\ Supports(c.engine, cur'.voice)
         /\ UpToDate(stored', conf')
         /\ cur'.voice = conf'.voice /\ cur'.speed = conf'.speed
<1>1. CASE succeeds /\ LoadSucceeds(c, k, s)
  <2>1. c.engine \in Engine /\ VoicesOf[c.engine] # <<>>
    BY <1>1 DEF LoadSucceeds, LoadsAs
  <2>2. /\ cur' = [c EXCEPT !.loaded = TRUE, !.funcs = c.engine,
                            !.voice = UsableVoice(c)]
        /\ conf' = LoadedConf(c, k) /\ stored' \in LoadedFiles(c, k, s)
    BY <1>1 DEF LoadSucceeds, LoadsAs
  <2>3. /\ UsableVoice(c) \in Voice /\ Supports(c.engine, UsableVoice(c))
        /\ conf' \in Conf /\ conf'.engine = k.engine /\ conf'.speed = k.speed
        /\ conf'.voice = UsableVoice(c)
        /\ stored' \in Stored /\ UpToDate(stored', conf')
    BY <2>1, <2>2, LoadedResult
  <2> QED BY <1>1, <2>1, <2>2, <2>3 DEF CurEngine
<1>2. CASE ~succeeds /\ LoadFails(c, k, s)
  <2>1. conf' = k /\ stored' = s
    BY <1>2 DEF LoadFails
  <2>2. cur' = c \/ (c.engine \in installed /\ cur' = [c EXCEPT !.funcs = c.engine])
    BY <1>2 DEF LoadFails
  <2> QED BY <1>2, <2>1, <2>2 DEF CurEngine, Conf, Stored
<1> QED BY <1>1, <1>2 DEF Load

-------------------------------------------------------------------------------
(* The steps.                                                              *)

(* A step that ends the process with a readable or an empty file.          *)
LEMMA DieStep ==
  ASSUME AgentInv, NEW s \in Stored, Die(s), crashes' \in Nat
  PROVE  AgentInv'
  BY NullTypes DEF AgentInv, AgentTypeOK, Die, NoTexts, NullEngine, HasUsers,
     DefaultVoiceIsSupported, AcceptedTextStaysSelectable, RestartKeepsSettings,
     LoadedForUsers

(* A step that leaves the engine, the settings and the users alone; texts   *)
(* it adds can be spoken.                                                   *)
LEMMA TextStep ==
  ASSUME AgentInv, UNCHANGED <<up, clients, settings, crashes, stored, conf,
                               isEngine, cur>>,
         installed' \subseteq Engine, list' \subseteq Engine,
         pending' \in [Client -> SUBSET VoiceRequest],
         \A c \in Client : \A r \in pending'[c] \ pending[c] :
            c \in clients /\ (cur.loaded => IsSelectable(VoicesOf[cur.engine], cur.voice, r))
  PROVE  AgentInv'
  BY DEF AgentInv, AgentTypeOK, HasUsers, DefaultVoiceIsSupported, Supports,
     AcceptedTextStaysSelectable, RestartKeepsSettings, LoadedForUsers

(* A user comes: the engine that PrepareEngine leaves behind.               *)
LEMMA PrepareStep ==
  ASSUME AgentInv, up, NEW succeeds \in BOOLEAN, PrepareEngine(succeeds),
         UNCHANGED <<up, installed, pending, crashes>>,
         clients' \subseteq Client, settings' \subseteq SettingApp,
         clients \subseteq clients', settings \subseteq settings',
         succeeds <=> (clients' # clients \/ settings' # settings)
  PROVE  AgentInv'
<1> USE DEF AgentInv
<1>1. CASE isEngine /\ HasUsers /\ UNCHANGED agentVars
  BY <1>1 DEF AgentTypeOK, HasUsers, DefaultVoiceIsSupported, Supports, agentVars,
     AcceptedTextStaysSelectable, RestartKeepsSettings, LoadedForUsers
<1>2. CASE ~isEngine /\ ~succeeds /\ list' = {}
           /\ UNCHANGED <<isEngine, cur, conf, stored>>
  BY <1>2 DEF AgentTypeOK, HasUsers, DefaultVoiceIsSupported, Supports,
     AcceptedTextStaysSelectable, RestartKeepsSettings, LoadedForUsers
<1>3. ASSUME NEW c \in CurEngine, NEW k \in Conf, NEW s \in Stored,
             Load(succeeds, c, k, s), ~c.loaded, ~HasUsers,
             UpToDate(s, k), c.voice = k.voice, c.speed = k.speed,
             isEngine', list' \subseteq Engine
      PROVE  AgentInv'
  <2>1. installed \subseteq Engine
    BY DEF AgentTypeOK
  <2>2. /\ cur' \in CurEngine /\ conf' \in Conf /\ stored' \in Stored
        /\ cur'.engine = c.engine
        /\ cur'.loaded = succeeds
        /\ succeeds => /\ cur'.funcs = c.engine /\ c.engine \in Engine
                       /\ Supports(c.engine, cur'.voice)
        /\ UpToDate(stored', conf')
        /\ cur'.voice = conf'.voice /\ cur'.speed = conf'.speed
    BY <1>3, <2>1, LoadResult
  <2>3. \A d \in Client : pending[d] = {}
    BY <1>3 DEF LoadedForUsers, HasUsers
  <2> QED BY <1>3, <2>2, <2>3 DEF AgentTypeOK, HasUsers, DefaultVoiceIsSupported,
     Supports, AcceptedTextStaysSelectable, RestartKeepsSettings, LoadedForUsers
<1>4. CASE isEngine /\ ~HasUsers /\ Load(succeeds, cur, conf, stored)
           /\ UNCHANGED <<list, isEngine>>
  <2>1. ~cur.loaded
    BY <1>4 DEF LoadedForUsers
  <2> QED BY <1>3, <1>4, <2>1 DEF AgentTypeOK, RestartKeepsSettings
<1>5. ASSUME ~isEngine, list' = installed, isEngine', NEW e \in Candidates(conf),
             NEW s \in AdoptedFiles(conf, e, stored),
             Load(succeeds, [cur EXCEPT !.engine = e], Adopted(conf, e), s)
      PROVE  AgentInv'
  <2> DEFINE c == [cur EXCEPT !.engine = e]
             k == Adopted(conf, e)
  <2>1. e \in Engine
    BY DEF Candidates, AgentTypeOK
  <2>2. c \in CurEngine /\ ~c.loaded /\ c.voice = cur.voice /\ c.speed = cur.speed
    BY <1>5, <2>1 DEF AgentTypeOK, CurEngine, LoadedForUsers
  <2>3. /\ k \in Conf /\ k.voice = conf.voice /\ k.speed = conf.speed
        /\ s \in Stored /\ UpToDate(s, k)
    BY <1>5, <2>1, AdoptedResult DEF AgentTypeOK, RestartKeepsSettings
  <2>4. ~HasUsers /\ list' \subseteq Engine
    BY <1>5 DEF LoadedForUsers, AgentTypeOK
  <2>5. Load(succeeds, c, k, s) /\ c.voice = k.voice /\ c.speed = k.speed
    BY <1>5, <2>2, <2>3 DEF RestartKeepsSettings
  <2> HIDE DEF c, k
  <2> QED BY <1>3, <1>5, <2>2, <2>3, <2>4, <2>5
<1> QED BY <1>1, <1>2, <1>4, <1>5 DEF PrepareEngine

(* A user goes: the engine is unloaded after the last one.                  *)
LEMMA LeaveStep ==
  ASSUME AgentInv, up,
         UNCHANGED <<up, installed, stored, conf, list, isEngine, crashes>>,
         clients' \subseteq clients, settings' \subseteq settings,
         pending' \in [Client -> SUBSET VoiceRequest],
         \A c \in Client : pending'[c] = IF c \in clients' THEN pending[c] ELSE {},
         cur' = IF HasUsers' THEN cur ELSE Unloaded(cur)
  PROVE  AgentInv'
<1>1. CASE HasUsers'
  BY <1>1 DEF AgentInv, AgentTypeOK, HasUsers, DefaultVoiceIsSupported, Supports,
     AcceptedTextStaysSelectable, RestartKeepsSettings, LoadedForUsers
<1>2. CASE ~HasUsers'
  <2>1. /\ cur' \in CurEngine /\ ~cur'.loaded
        /\ cur'.voice = cur.voice /\ cur'.speed = cur.speed
    BY <1>2 DEF Unloaded, CurEngine, AgentInv, AgentTypeOK
  <2> QED BY <1>2, <2>1 DEF AgentInv, AgentTypeOK, HasUsers,
     DefaultVoiceIsSupported, AcceptedTextStaysSelectable, RestartKeepsSettings,
     LoadedForUsers
<1> QED BY <1>1, <1>2

(* All texts are dropped, for an engine that is loaded or is not.           *)
LEMMA DroppedStep ==
  ASSUME AgentInv, settings # {},
         UNCHANGED <<up, installed, list, isEngine, clients, settings, crashes>>,
         pending' = NoTexts,
         cur' \in CurEngine, conf' \in Conf, stored' \in Stored,
         cur'.loaded => /\ cur'.funcs = cur'.engine /\ cur'.engine \in Engine
                        /\ Supports(cur'.engine, cur'.voice),
         UpToDate(stored', conf'),
         cur'.voice = conf'.voice, cur'.speed = conf'.speed
  PROVE  AgentInv'
  BY DEF AgentInv, AgentTypeOK, HasUsers, NoTexts, Supports,
     DefaultVoiceIsSupported, AcceptedTextStaysSelectable, RestartKeepsSettings,
     LoadedForUsers

(* The engine c is loaded, or is not, while all texts are dropped.          *)
LEMMA ChangeStep ==
  ASSUME AgentInv, settings # {},
         UNCHANGED <<up, installed, list, isEngine, clients, settings, crashes>>,
         pending' = NoTexts,
         NEW succeeds \in BOOLEAN, NEW c \in CurEngine, NEW k \in Conf,
         NEW s \in Stored, Load(succeeds, c, k, s), ~c.loaded,
         UpToDate(s, k), c.voice = k.voice, c.speed = k.speed
  PROVE  AgentInv'
<1>1. installed \subseteq Engine
  BY DEF AgentInv, AgentTypeOK
<1>2. /\ cur' \in CurEngine /\ conf' \in Conf /\ stored' \in Stored
      /\ cur'.engine = c.engine
      /\ cur'.loaded = succeeds
      /\ succeeds => /\ cur'.funcs = c.engine /\ c.engine \in Engine
                     /\ Supports(c.engine, cur'.voice)
      /\ UpToDate(stored', conf')
      /\ cur'.voice = conf'.voice /\ cur'.speed = conf'.speed
  BY <1>1, LoadResult
<1> QED BY <1>2, DroppedStep

(* A setting is stored: a voice the loaded engine has, and a speed.         *)
LEMMA DefaultsStep ==
  ASSUME AgentInv, settings # {}, cur.loaded,
         UNCHANGED <<up, installed, list, isEngine, clients, settings, pending,
                     crashes>>,
         NEW v \in Voice, NEW n \in Nat, Supports(cur.engine, v),
         cur' = [cur EXCEPT !.voice = v, !.speed = n],
         conf' = [conf EXCEPT !.voice = v, !.speed = n],
         stored' \in Writes(conf', stored)
  PROVE  AgentInv'
<1> USE DEF AgentInv
<1>1. /\ cur' \in CurEngine /\ cur'.loaded /\ cur'.engine = cur.engine
      /\ cur'.funcs = cur.funcs /\ cur'.voice = v /\ cur'.speed = n
  BY DEF AgentTypeOK, CurEngine
<1>2. conf' \in Conf /\ conf'.voice = v /\ conf'.speed = n
  BY DEF AgentTypeOK, Conf
<1>3. stored' \in Stored /\ UpToDate(stored', conf')
  BY <1>2, WritesResult DEF AgentTypeOK
<1>4. cur.engine \in Engine /\ Supports(cur.engine, cur.voice)
  BY DEF LoadedForUsers, DefaultVoiceIsSupported
<1>5. AcceptedTextStaysSelectable'
  <2> SUFFICES ASSUME NEW c \in clients, NEW r \in pending[c]
               PROVE  IsSelectable(VoicesOf[cur.engine], v, r)
    BY <1>1 DEF AcceptedTextStaysSelectable
  <2>1. r \in VoiceRequest
    BY DEF AgentTypeOK
  <2>2. IsSelectable(VoicesOf[cur.engine], cur.voice, r)
    BY DEF AcceptedTextStaysSelectable
  <2> QED BY <1>4, <2>1, <2>2, SelectableForAnyDefault
<1> QED BY <1>1, <1>2, <1>3, <1>5 DEF AgentTypeOK, HasUsers, Supports,
     DefaultVoiceIsSupported, RestartKeepsSettings, LoadedForUsers

(* A change to another engine, to an unknown one, or to the current one     *)
(* that is not loaded.                                                      *)
LEMMA SetCurrentEngineStep ==
  ASSUME AgentInv, NEW e \in Engine, SetCurrentEngine(e)
  PROVE  AgentInv'
<1> DEFINE u == Unloaded(cur)
           c == [u EXCEPT !.engine = e]
           k == Adopted(LoadedConf(c, conf), e)
<1>1. /\ u \in CurEngine /\ ~u.loaded
      /\ u.voice = conf.voice /\ u.speed = conf.speed
  BY DEF Unloaded, CurEngine, AgentInv, AgentTypeOK, RestartKeepsSettings,
     SetCurrentEngine, LoadedForUsers, HasUsers
<1>2. /\ c \in CurEngine /\ ~c.loaded
      /\ c.voice = conf.voice /\ c.speed = conf.speed
  <2> HIDE DEF u
  <2> QED BY <1>1 DEF CurEngine
<1>3. conf \in Conf /\ stored \in Stored /\ UpToDate(stored, conf)
  BY DEF AgentInv, AgentTypeOK, RestartKeepsSettings, SetCurrentEngine,
     LoadedForUsers, HasUsers
<1>5. /\ settings # {} /\ pending' = NoTexts
      /\ UNCHANGED <<up, installed, list, isEngine, clients, settings, crashes>>
  BY DEF SetCurrentEngine, ClearedTexts
<1>6. CASE UNCHANGED <<cur, conf, stored>>
  <2>1. \A d \in Client : pending'[d] = {}
    BY <1>5 DEF NoTexts
  <2> QED BY <1>5, <1>6, <2>1, TextStep DEF NoTexts, AgentInv, AgentTypeOK
<1>7. CASE Load(FALSE, c, conf, stored)
  <2> HIDE DEF c, k, u
  <2> QED BY <1>2, <1>3, <1>5, <1>7, ChangeStep
<1>8. CASE /\ LoadsAs(c) /\ conf' = k
           /\ \E s \in LoadedFiles(c, conf, stored) : stored' \in Writes(k, s)
  <2>1. c.engine = e /\ VoicesOf[c.engine] # <<>>
    BY <1>1, <1>8 DEF LoadsAs, CurEngine
  <2>2. PICK s \in LoadedFiles(c, conf, stored) : stored' \in Writes(k, s)
    BY <1>8
  <2>3. /\ UsableVoice(c) \in Voice /\ Supports(e, UsableVoice(c))
        /\ LoadedConf(c, conf) \in Conf
        /\ LoadedConf(c, conf).speed = conf.speed
        /\ LoadedConf(c, conf).voice = UsableVoice(c)
        /\ s \in Stored
    <3> HIDE DEF c, k, u
    <3> QED BY <1>2, <1>3, <2>1, <2>2, LoadedResult
  <2>4. k \in Conf /\ k.voice = UsableVoice(c) /\ k.speed = conf.speed
    <3> HIDE DEF c
    <3> QED BY <2>3 DEF Adopted, Conf
  <2>5. stored' \in Stored /\ UpToDate(stored', k)
    <3> HIDE DEF c, k
    <3> QED BY <2>2, <2>3, <2>4, WritesResult
  <2>6. /\ cur' \in CurEngine /\ cur'.engine = e /\ cur'.funcs = e
        /\ cur'.voice = UsableVoice(c) /\ cur'.speed = conf.speed
    <3> HIDE DEF c, u
    <3> QED BY <1>2, <1>8, <2>1, <2>3 DEF LoadsAs, CurEngine
  <2> HIDE DEF c, k, u
  <2> QED BY <1>5, <1>8, <2>3, <2>4, <2>5, <2>6, DroppedStep
<1>9. CASE \E succeeds \in BOOLEAN : Load(succeeds, u, conf, stored)
  <2> HIDE DEF c, k, u
  <2> QED BY <1>1, <1>3, <1>5, <1>9, ChangeStep
<1> QED BY <1>6, <1>7, <1>8, <1>9 DEF SetCurrentEngine, ChangeEngine

LEMMA AgentInit == ASSUME Init PROVE AgentInv
  BY NullTypes, ShippedAssumption DEF Init, AgentInv, AgentTypeOK, NoTexts, Stored,
     NullEngine, HasUsers, DefaultVoiceIsSupported, AcceptedTextStaysSelectable,
     RestartKeepsSettings, LoadedForUsers

(* The daemon starts with the settings it finds.                            *)
LEMMA StartStep ==
  ASSUME AgentInv, Start
  PROVE  AgentInv'
<1> DEFINE k == stored.conf
           s == [stored EXCEPT !.current = TRUE]
           c == [NullEngine EXCEPT !.voice = k.voice, !.speed = k.speed]
<1>1. k \in Conf /\ s \in Stored /\ UpToDate(s, k) /\ ~HasUsers
  BY DEF AgentInv, AgentTypeOK, Stored, Start, LoadedForUsers, UpToDate
<1>2. /\ c \in CurEngine /\ ~c.loaded
      /\ c.voice = k.voice /\ c.speed = k.speed
  BY <1>1, NullTypes DEF Conf, CurEngine, NullEngine
<1>3. /\ up' /\ list' \subseteq Engine /\ isEngine' \in BOOLEAN
      /\ UNCHANGED <<installed, userVars, crashes>>
  BY DEF Start, AgentInv, AgentTypeOK
<1>4. ASSUME cur' \in CurEngine, ~cur'.loaded, conf' \in Conf, stored' \in Stored,
             UpToDate(stored', conf'),
             cur'.voice = conf'.voice, cur'.speed = conf'.speed
      PROVE  AgentInv'
  BY <1>1, <1>3, <1>4 DEF AgentInv, AgentTypeOK, HasUsers, userVars,
     DefaultVoiceIsSupported, AcceptedTextStaysSelectable, RestartKeepsSettings,
     LoadedForUsers
<1>5. CASE cur' = c /\ conf' = k /\ stored' = s
  <2> HIDE DEF c, s
  <2> QED BY <1>1, <1>2, <1>4, <1>5
<1>6. ASSUME NEW e \in Candidates(k), cur' = [c EXCEPT !.engine = e],
             conf' = Adopted(k, e), stored' \in AdoptedFiles(k, e, s)
      PROVE  AgentInv'
  <2>1. e \in Engine
    BY DEF Candidates, AgentInv, AgentTypeOK
  <2>2. /\ cur' \in CurEngine /\ ~cur'.loaded
        /\ cur'.voice = k.voice /\ cur'.speed = k.speed
    <3> HIDE DEF c
    <3> QED BY <1>2, <1>6, <2>1 DEF CurEngine
  <2>3. /\ conf' \in Conf /\ conf'.voice = k.voice /\ conf'.speed = k.speed
        /\ stored' \in Stored /\ UpToDate(stored', conf')
    <3> HIDE DEF k, s
    <3> QED BY <1>1, <1>6, <2>1, AdoptedResult
  <2> QED BY <1>4, <2>2, <2>3
<1> QED BY <1>5, <1>6 DEF Start

(* Every request of a client keeps the invariant.                           *)
LEMMA ClientStep ==
  ASSUME AgentInv, NEW c \in Client, ClientRequest(c)
  PROVE  AgentInv'
<1>1. CASE ServerInitialize(c)
  <2>1. PICK succeeds \in BOOLEAN :
           /\ PrepareEngine(succeeds)
           /\ clients' = IF succeeds THEN clients \cup {c} ELSE clients
    BY <1>1 DEF ServerInitialize
  <2>2. /\ up /\ UNCHANGED <<up, installed, settings, pending, crashes>>
        /\ c \notin clients /\ clients' \subseteq Client /\ settings' \subseteq SettingApp
    BY <1>1, <2>1 DEF ServerInitialize, AgentInv, AgentTypeOK
  <2> QED BY <2>1, <2>2, PrepareStep
<1>2. CASE ServerFinalize(c)
  <2>1. up /\ c \in clients
    BY <1>2 DEF ServerFinalize, AgentInv, LoadedForUsers, HasUsers
  <2>2. clients' = clients \ {c} /\ settings' = settings
    BY <1>2 DEF ServerFinalize
  <2>3. /\ pending' \in [Client -> SUBSET VoiceRequest]
        /\ \A d \in Client : pending'[d] = IF d \in clients' THEN pending[d] ELSE {}
    BY <1>2, <2>2 DEF ServerFinalize, AgentInv, AgentTypeOK, LoadedForUsers
  <2>4. cur' = IF HasUsers' THEN cur ELSE Unloaded(cur)
    BY <1>2, <2>1, <2>2 DEF ServerFinalize, HasUsers
  <2> QED BY <1>2, <2>1, <2>2, <2>3, <2>4, LeaveStep DEF ServerFinalize
<1>3. ASSUME NEW r \in Asked, AddText(c, r)
      PROVE  AgentInv'
  <2>1. r \in VoiceRequest
    BY AskedAssumption
  <2>2. cur.loaded => IsSelectable(VoicesOf[cur.engine], cur.voice, r)
    BY <1>3, EngineAssumption DEF AddText, IsSelectable, AgentInv, LoadedForUsers
  <2>3. /\ pending' \in [Client -> SUBSET VoiceRequest]
        /\ \A d \in Client : \A q \in pending'[d] \ pending[d] : d = c /\ q = r
    BY <1>3, <2>1 DEF AddText, AgentInv, AgentTypeOK
  <2> QED BY <1>3, <2>2, <2>3, TextStep DEF AddText, agentVars, AgentInv, AgentTypeOK
<1>4. ASSUME NEW r \in Asked, AddTextCrash(c, r)
      PROVE  AgentInv'
  BY <1>4, DieStep DEF AddTextCrash, AgentInv, AgentTypeOK
<1>5. ASSUME NEW r \in Asked, TakeText(c, r)
      PROVE  AgentInv'
  <2>1. /\ pending' \in [Client -> SUBSET VoiceRequest]
        /\ \A d \in Client : pending'[d] \subseteq pending[d]
    BY <1>5 DEF TakeText, AgentInv, AgentTypeOK
  <2> QED BY <1>5, <2>1, TextStep DEF TakeText, agentVars, AgentInv, AgentTypeOK
<1> QED BY <1>1, <1>2, <1>3, <1>4, <1>5 DEF ClientRequest

(* Every request of a setting application keeps the invariant.              *)
LEMMA SettingStep ==
  ASSUME AgentInv, SettingRequest
  PROVE  AgentInv'
<1>1. ASSUME NEW a \in SettingApp, SettingInitialize(a)
      PROVE  AgentInv'
  <2>1. PICK succeeds \in BOOLEAN :
           /\ PrepareEngine(succeeds)
           /\ settings' = IF succeeds THEN settings \cup {a} ELSE settings
    BY <1>1 DEF SettingInitialize
  <2>2. /\ up /\ UNCHANGED <<up, installed, clients, pending, crashes>>
        /\ a \notin settings /\ clients' \subseteq Client /\ settings' \subseteq SettingApp
    BY <1>1, <2>1 DEF SettingInitialize, AgentInv, AgentTypeOK
  <2> QED BY <2>1, <2>2, PrepareStep
<1>2. ASSUME NEW a \in SettingApp, SettingFinalize(a)
      PROVE  AgentInv'
  <2>1. up /\ a \in settings
    BY <1>2 DEF SettingFinalize, AgentInv, LoadedForUsers, HasUsers
  <2>2. clients' = clients /\ settings' = settings \ {a}
    BY <1>2 DEF SettingFinalize
  <2>3. /\ pending' \in [Client -> SUBSET VoiceRequest]
        /\ \A d \in Client : pending'[d] = IF d \in clients' THEN pending[d] ELSE {}
    BY <1>2, <2>2 DEF SettingFinalize, AgentInv, AgentTypeOK, LoadedForUsers
  <2>4. cur' = IF HasUsers' THEN cur ELSE Unloaded(cur)
    BY <1>2, <2>1, <2>2 DEF SettingFinalize, HasUsers
  <2> QED BY <1>2, <2>1, <2>2, <2>3, <2>4, LeaveStep DEF SettingFinalize
<1>3. CASE GetEngineList
  BY <1>3, TextStep DEF GetEngineList, userVars, AgentInv, AgentTypeOK
<1>4. ASSUME NEW e \in Engine, SetCurrentEngine(e)
      PROVE  AgentInv'
  BY <1>4, SetCurrentEngineStep
<1>5. ASSUME NEW v \in Voice, SetDefaultVoice(v)
      PROVE  AgentInv'
  <2>1. cur \in CurEngine /\ conf \in Conf /\ cur.speed = conf.speed
    BY <1>5 DEF SetDefaultVoice, AgentInv, AgentTypeOK, RestartKeepsSettings,
       LoadedForUsers, HasUsers
  <2>2. /\ cur.speed \in Nat
        /\ cur' = [cur EXCEPT !.voice = v, !.speed = cur.speed]
        /\ conf' = [conf EXCEPT !.voice = v, !.speed = cur.speed]
        /\ stored' \in Writes(conf', stored)
    BY <1>5, <2>1 DEF SetDefaultVoice, CurEngine, Conf
  <2> QED BY <1>5, <2>2, DefaultsStep DEF SetDefaultVoice, userVars
<1>6. ASSUME NEW n \in Speed, SetDefaultSpeed(n)
      PROVE  AgentInv'
  <2>1. /\ cur \in CurEngine /\ conf \in Conf /\ cur.voice = conf.voice
        /\ Supports(cur.engine, cur.voice) /\ n \in Nat
    BY <1>6, SpeedAssumption DEF SetDefaultSpeed, AgentInv, AgentTypeOK,
       RestartKeepsSettings, LoadedForUsers, HasUsers, DefaultVoiceIsSupported
  <2>2. /\ cur.voice \in Voice
        /\ cur' = [cur EXCEPT !.voice = cur.voice, !.speed = n]
        /\ conf' = [conf EXCEPT !.voice = cur.voice, !.speed = n]
        /\ stored' \in Writes(conf', stored)
    BY <1>6, <2>1 DEF SetDefaultSpeed, CurEngine, Conf
  <2> QED BY <1>6, <2>1, <2>2, DefaultsStep DEF SetDefaultSpeed, userVars
<1> QED BY <1>1, <1>2, <1>3, <1>4, <1>5, <1>6, VoiceTypes DEF SettingRequest

(* So does the environment, whenever it kills the daemon.                   *)
LEMMA EnvironmentStep ==
  ASSUME AgentInv, Environment
  PROVE  AgentInv'
<1>1. CASE Crash
  BY <1>1, DieStep DEF Crash, Killed, AgentInv, AgentTypeOK
<1>2. CASE CrashInSave
  BY <1>2, DieStep, TornType DEF CrashInSave, Killed, AgentInv, AgentTypeOK
<1>3. ASSUME NEW e \in Engine, CrashInChange(e)
      PROVE  AgentInv'
  <2> DEFINE v == VoicesOf[e][1]
  <2>1. v \in Voice
    BY <1>3, FirstIsSupported DEF CrashInChange
  <2> HIDE DEF v
  <2>2. [conf EXCEPT !.voice = v] \in Conf
    BY <2>1 DEF AgentInv, AgentTypeOK, Conf
  <2>3. PICK s \in Writes([conf EXCEPT !.voice = v], stored) : Die(s)
    BY <1>3 DEF CrashInChange, v
  <2>4. s \in Stored /\ crashes' \in Nat
    BY <1>3, <2>2, WritesResult DEF CrashInChange, Killed, AgentInv, AgentTypeOK
  <2> QED BY <2>3, <2>4, DieStep
<1>4. ASSUME NEW e \in Engine, Install(e) \/ Uninstall(e)
      PROVE  AgentInv'
  BY <1>4, TextStep DEF Install, Uninstall, agentVars, userVars, AgentInv, AgentTypeOK
<1> QED BY <1>1, <1>2, <1>3, <1>4 DEF Environment

LEMMA AgentNext == ASSUME AgentInv, [Next]_vars PROVE AgentInv'
<1>1. CASE StartFromTorn
  BY <1>1, NullTypes, WritesResult DEF StartFromTorn, userVars, AgentInv, AgentTypeOK,
     HasUsers, DefaultVoiceIsSupported, Supports, AcceptedTextStaysSelectable,
     RestartKeepsSettings, LoadedForUsers
<1>2. CASE UNCHANGED vars
  BY <1>2, TextStep DEF vars, AgentInv, AgentTypeOK
<1> QED BY <1>1, <1>2, StartStep, ClientStep, SettingStep, EnvironmentStep DEF Next

(* Writing the file, and loading with it, bring no engine into it but the   *)
(* one of the configuration.                                               *)
Names(s, E) == s.kind = "whole" => s.conf.engine \in E

LEMMA WritesName ==
  ASSUME NEW E, NEW k, NEW s \in Stored, NEW w \in Writes(k, s),
         k.engine \in E, Names(s, E)
  PROVE  Names(w, E)
<1>1. CASE w = Saved(k)
  BY <1>1 DEF Saved, Names
<1>2. CASE w = Unwritten(s)
  BY <1>2 DEF Unwritten, Stored, Names
<1>3. CASE w = Torn
  BY <1>3 DEF Torn, Names
<1> QED BY <1>1, <1>2, <1>3 DEF Writes

LEMMA LoadedFilesName ==
  ASSUME NEW E, NEW c, NEW k \in Conf, NEW s \in Stored,
         NEW w \in LoadedFiles(c, k, s),
         k.engine \in E, Names(s, E)
  PROVE  Names(w, E)
<1>1. LoadedConf(c, k).engine = k.engine
  BY DEF LoadedConf, Conf
<1> QED BY <1>1, WritesName DEF LoadedFiles

LEMMA LoadNames ==
  ASSUME NEW E, NEW succeeds, NEW c \in CurEngine, NEW k \in Conf,
         NEW s \in Stored, Load(succeeds, c, k, s), k.engine \in E, Names(s, E)
  PROVE  Names(stored', E) /\ cur'.engine = c.engine
<1>1. CASE LoadSucceeds(c, k, s)
  BY <1>1, LoadedFilesName DEF LoadSucceeds, LoadsAs, CurEngine
<1>2. CASE LoadFails(c, k, s)
  BY <1>2 DEF LoadFails, CurEngine
<1> QED BY <1>1, <1>2 DEF Load

(* The one step of StoredEngineWorks.                                       *)
EngineStored ==
  up /\ up' /\ stored.current
  /\ stored'.kind = "whole" /\ stored'.conf.engine # stored.conf.engine
    => /\ cur'.engine = stored'.conf.engine
       /\ cur'.loaded \/ stored.conf.engine \notin installed

LEMMA PrepareStoresFound ==
  ASSUME AgentInv, NEW succeeds \in BOOLEAN, PrepareEngine(succeeds)
  PROVE  EngineStored
<1> SUFFICES ASSUME up, stored.current PROVE EngineStored
  BY DEF EngineStored
<1>1. conf \in Conf /\ stored \in Stored /\ stored.conf = conf /\ cur \in CurEngine
  BY DEF AgentInv, AgentTypeOK, RestartKeepsSettings, UpToDate
<1>2. CASE UNCHANGED stored
  BY <1>2 DEF EngineStored
<1>3. CASE Load(succeeds, cur, conf, stored)
  <2>1. Names(stored', {conf.engine})
    BY <1>1, <1>3, LoadNames DEF Names
  <2> QED BY <1>1, <2>1 DEF EngineStored, Names
<1>4. ASSUME NEW e \in Candidates(conf), NEW s \in AdoptedFiles(conf, e, stored),
             Load(succeeds, [cur EXCEPT !.engine = e], Adopted(conf, e), s)
      PROVE  EngineStored
  <2> DEFINE c == [cur EXCEPT !.engine = e]
             k == Adopted(conf, e)
             E == {e, stored.conf.engine}
  <2>1. e \in Engine /\ (conf.engine \in installed => e = conf.engine)
    BY DEF Candidates, AgentInv, AgentTypeOK
  <2>2. k \in Conf /\ k.engine = e
    BY <1>1, <2>1 DEF Adopted, Conf
  <2>3. c \in CurEngine /\ c.engine = e
    BY <1>1, <2>1 DEF CurEngine
  <2>4. Names(s, E) /\ s \in Stored
    <3>1. k.engine \in E /\ Names(stored, E)
      BY <2>2 DEF Names
    <3>2. s \in {stored} \cup Writes(k, stored)
      BY DEF AdoptedFiles
    <3> HIDE DEF k, E
    <3> QED BY <1>1, <2>2, <3>1, <3>2, WritesName, WritesResult
  <2>5. Names(stored', E) /\ cur'.engine = e
    <3>1. Load(succeeds, c, k, s) /\ k.engine \in E
      BY <1>4, <2>2
    <3> HIDE DEF c, k, E
    <3> QED BY <2>2, <2>3, <2>4, <3>1, LoadNames
  <2> QED BY <1>1, <2>1, <2>5 DEF EngineStored, Names
<1> QED BY <1>2, <1>3, <1>4 DEF PrepareEngine, agentVars

LEMMA ChangeStoresLoaded ==
  ASSUME AgentInv, NEW e \in Engine, SetCurrentEngine(e)
  PROVE  EngineStored
<1> SUFFICES ASSUME up, stored.current PROVE EngineStored
  BY DEF EngineStored
<1>1. conf \in Conf /\ stored \in Stored /\ stored.conf = conf /\ cur \in CurEngine
  BY DEF AgentInv, AgentTypeOK, RestartKeepsSettings, UpToDate
<1>2. Unloaded(cur) \in CurEngine
  BY <1>1 DEF Unloaded, CurEngine
<1> DEFINE c == [Unloaded(cur) EXCEPT !.engine = e]
           k == Adopted(LoadedConf(c, conf), e)
           E == {e, stored.conf.engine}
<1>3. c \in CurEngine /\ c.engine = e
  BY <1>2 DEF CurEngine
<1>5. CASE UNCHANGED stored
  BY <1>5 DEF EngineStored
<1>6. CASE Load(FALSE, c, conf, stored)
  <2>1. Names(stored', {conf.engine})
    <3> HIDE DEF c
    <3> QED BY <1>1, <1>3, <1>6, LoadNames DEF Names
  <2> QED BY <1>1, <2>1 DEF EngineStored, Names
<1>7. CASE /\ LoadsAs(c) /\ conf' = k
           /\ \E s \in LoadedFiles(c, conf, stored) : stored' \in Writes(k, s)
  <2>1. PICK s \in LoadedFiles(c, conf, stored) : stored' \in Writes(k, s)
    BY <1>7
  <2>2. conf.engine \in E /\ Names(stored, E)
    BY <1>1 DEF Names
  <2>3. Names(s, E)
    <3> HIDE DEF c, E
    <3> QED BY <1>1, <2>1, <2>2, LoadedFilesName
  <2>4. s \in Stored
    <3>1. VoicesOf[c.engine] # <<>> /\ c.engine \in Engine
      BY <1>3, <1>7 DEF LoadsAs
    <3> HIDE DEF c
    <3>2. UsableVoice(c) \in Voice
      BY <1>3, <3>1, FirstIsSupported DEF UsableVoice, CurEngine
    <3>3. LoadedConf(c, conf) \in Conf
      BY <1>1, <3>2 DEF LoadedConf, Conf
    <3> QED BY <1>1, <2>1, <3>3, WritesResult DEF LoadedFiles
  <2>5. k.engine = e
    <3> HIDE DEF c
    <3> QED BY <1>1 DEF LoadedConf, Adopted, Conf
  <2>6. Names(stored', E)
    <3>1. k.engine \in E
      BY <2>5
    <3> HIDE DEF c, k, E
    <3> QED BY <2>1, <2>3, <2>4, <3>1, WritesName
  <2>7. cur'.engine = e /\ cur'.loaded
    <3> HIDE DEF c
    <3> QED BY <1>3, <1>7 DEF LoadsAs, CurEngine
  <2> QED BY <2>6, <2>7 DEF EngineStored, Names
<1>8. CASE \E succeeds \in BOOLEAN : Load(succeeds, Unloaded(cur), conf, stored)
  <2>1. Names(stored', {conf.engine})
    BY <1>1, <1>2, <1>8, LoadNames DEF Names
  <2> QED BY <1>1, <2>1 DEF EngineStored, Names
<1> QED BY <1>5, <1>6, <1>7, <1>8 DEF SetCurrentEngine, ChangeEngine

LEMMA NextStoresWorking ==
  ASSUME AgentInv, [Next]_vars
  PROVE  [EngineStored]_vars
<1> SUFFICES ASSUME Next, up, up', stored.current PROVE EngineStored
  BY DEF EngineStored
<1>1. conf \in Conf /\ stored \in Stored /\ stored.conf = conf
  BY DEF AgentInv, AgentTypeOK, RestartKeepsSettings, UpToDate
<1>2. CASE UNCHANGED stored
  BY <1>2 DEF EngineStored
<1>3. ASSUME NEW c \in Client, ClientRequest(c)
      PROVE  EngineStored
  BY <1>2, <1>3, PrepareStoresFound DEF ClientRequest, ServerInitialize,
     ServerFinalize, AddText, AddTextCrash, TakeText, Die, agentVars
<1>4. CASE SettingRequest
  <2>1. ASSUME NEW k, k.engine = conf.engine, stored' \in Writes(k, stored)
        PROVE  EngineStored
    <3>1. Names(stored', {conf.engine})
      BY <1>1, <2>1, WritesName DEF Names
    <3> QED BY <1>1, <3>1 DEF EngineStored, Names
  <2>2. \A v, n : /\ [conf EXCEPT !.voice = v].engine = conf.engine
                  /\ [conf EXCEPT !.speed = n].engine = conf.engine
    BY <1>1 DEF Conf
  <2> QED BY <1>2, <1>4, <2>1, <2>2, PrepareStoresFound, ChangeStoresLoaded
     DEF SettingRequest, SettingInitialize, SettingFinalize, GetEngineList,
     SetDefaultVoice, SetDefaultSpeed
<1>5. CASE Environment
  BY <1>2, <1>5 DEF Environment, Crash, CrashInSave, CrashInChange, Install,
     Uninstall, Die, agentVars
<1>6. ~Start /\ ~StartFromTorn
  BY DEF Start, StartFromTorn
<1> QED BY <1>3, <1>4, <1>5, <1>6 DEF Next

-------------------------------------------------------------------------------
(* The scan for a voice.                                                   *)

LEMMA LeastExists ==
  ASSUME NEW S, S \subseteq Nat, S # {}
  PROVE  \E i \in S : \A j \in S : i <= j
<1> DEFINE R == OpToRel(<, Nat)
<1>1. IsWellFoundedOn(R, Nat)
  BY NatLessThanWellFounded
<1>2. \A x, y \in Nat : x < y => <<x, y>> \in R
  BY DEF OpToRel
<1> HIDE DEF R
<1>3. PICK x \in S : \A y \in S : ~(<<y, x>> \in R)
  BY <1>1, WFMin
<1>4. ASSUME NEW y \in S
      PROVE  x <= y
  <2>1. x \in Nat /\ y \in Nat
    OBVIOUS
  <2>2. ~(y < x)
    BY <1>2, <1>3, <2>1
  <2> QED BY <2>1, <2>2
<1> QED BY <1>4

LEMMA GreatestExists ==
  ASSUME NEW n \in Nat, NEW S, S \subseteq 1 .. n, S # {}
  PROVE  \E i \in S : \A j \in S : j <= i
<1> DEFINE T == {n - i : i \in S}
<1>1. T # {}
  OBVIOUS
<1>2. T \subseteq Nat
  <2> SUFFICES ASSUME NEW i \in S
               PROVE  n - i \in Nat
    OBVIOUS
  <2>1. i \in 1 .. n
    OBVIOUS
  <2> QED BY <2>1
<1>3. PICK t \in T : \A u \in T : t <= u
  <2> HIDE DEF T
  <2> QED BY <1>1, <1>2, LeastExists
<1>4. PICK i \in S : t = n - i
  BY DEF T
<1>5. ASSUME NEW j \in S
      PROVE  j <= i
  <2>1. n - j \in T /\ i \in 1 .. n /\ j \in 1 .. n
    OBVIOUS
  <2>2. n - i <= n - j
    BY <1>3, <1>4, <2>1
  <2> QED BY <2>1, <2>2
<1> QED BY <1>5

(* The scan finds a voice of the language, and the very one if it is there. *)
LEMMA ScanFinds ==
  ASSUME NEW voices \in Seq([lang: Lang, type: Nat \ {AutoType}]), NEW lang,
         NEW type, WithLang(voices, lang) # {}
  PROVE  /\ Scan(voices, lang, type) \in WithLang(voices, lang)
         /\ WithVoice(voices, lang, type) # {} =>
              Scan(voices, lang, type) \in WithVoice(voices, lang, type)
<1> DEFINE L == WithLang(voices, lang)
           V == WithVoice(voices, lang, type)
<1>1. Len(voices) \in Nat /\ L \subseteq 1 .. Len(voices) /\ V \subseteq L
  BY DEF WithLang, WithVoice
<1> HIDE DEF L, V
<1>2. ASSUME V # {}
      PROVE  First(V) \in V
  <2>1. V \subseteq Nat
    BY <1>1
  <2>2. \E i \in V : \A j \in V : i <= j
    BY <1>2, <2>1, LeastExists
  <2> QED BY <2>2 DEF First
<1>3. Last(L) \in L
  <2>1. L # {}
    BY DEF L
  <2>2. \E i \in L : \A j \in L : j <= i
    BY <1>1, <2>1, GreatestExists
  <2> QED BY <2>2 DEF Last
<1>4. Scan(voices, lang, type) = IF V # {} THEN First(V) ELSE Last(L)
  BY DEF Scan, L, V
<1> QED BY <1>1, <1>2, <1>3, <1>4 DEF L, V

(* The voice of a request that can be spoken.                              *)
LEMMA SelectedIsAsked ==
  ASSUME AgentTypeOK, DefaultVoiceIsSupported, cur.loaded, cur.engine \in Engine,
         NEW r \in VoiceRequest,
         NEW voices, voices = VoicesOf[cur.engine],
         NEW v, v = SelectedVoice(voices, cur.voice, r),
         IsSelectable(voices, cur.voice, r)
  PROVE  /\ Supports(cur.engine, Exact(r)) => v = Exact(r)
         /\ r.lang # DefaultLang => v.lang = r.lang /\ Supports(cur.engine, v)
<1> DEFINE d == cur.voice
           x == Exact(r)
<1>1. /\ voices \in Seq([lang: Lang, type: Nat \ {AutoType}])
      /\ d \in Voice /\ r.lang \in Lang \cup {DefaultLang} /\ r.type \in Nat
  BY VoicesAssumption DEF AgentTypeOK, CurEngine, VoiceRequest
<1>2. \A i \in DOMAIN voices : voices[i] \in [lang: Lang, type: Nat \ {AutoType}]
  <2>1. \A S : voices \in Seq(S) => \A i \in DOMAIN voices : voices[i] \in S
    OBVIOUS
  <2> QED BY <1>1, <2>1
<1>3. Supports(cur.engine, d)
  BY DEF DefaultVoiceIsSupported
<1>4. \A w : Supports(cur.engine, w) <=> \E i \in DOMAIN voices : voices[i] = w
  BY DEF Supports
<1>5. /\ x.lang = IF r.lang = DefaultLang THEN d.lang ELSE r.lang
      /\ x.type = IF r.type = AutoType THEN d.type ELSE r.type
      /\ x = [lang |-> x.lang, type |-> x.type]
      /\ d = [lang |-> d.lang, type |-> d.type]
      /\ r = [lang |-> r.lang, type |-> r.type]
  BY <1>1 DEF Exact, Voice, VoiceRequest
<1>6. Supports(cur.engine, x) <=> WithVoice(voices, x.lang, x.type) # {}
  BY <1>2, <1>4, <1>5 DEF WithVoice, WithLang
<1>7. ASSUME NEW lang, NEW type, WithLang(voices, lang) # {}
      PROVE  /\ Scan(voices, lang, type) \in DOMAIN voices
             /\ voices[Scan(voices, lang, type)].lang = lang
             /\ WithVoice(voices, lang, type) # {} =>
                  voices[Scan(voices, lang, type)].type = type
  <2>1. /\ Scan(voices, lang, type) \in WithLang(voices, lang)
        /\ WithVoice(voices, lang, type) # {} =>
             Scan(voices, lang, type) \in WithVoice(voices, lang, type)
    BY <1>1, <1>7, ScanFinds
  <2> QED BY <2>1 DEF WithLang, WithVoice
<1> HIDE DEF d, x
<1>8. CASE IsDefaultRequest(r)
  BY <1>5, <1>8 DEF SelectedVoice, IsDefaultRequest, d, x
<1>9. CASE r.lang # DefaultLang /\ r.type # AutoType
  <2>1. v = r
    BY <1>9 DEF SelectedVoice, IsDefaultRequest
  <2>2. x = r /\ WithVoice(voices, r.lang, r.type) # {}
    BY <1>5, <1>9 DEF IsSelectable, IsDefaultRequest
  <2> QED BY <1>5, <1>6, <2>1, <2>2 DEF x
<1>10. CASE r.lang # DefaultLang /\ r.type = AutoType
  <2>1. CASE r.lang = d.lang
    <3>1. v = d
      BY <1>10, <2>1 DEF SelectedVoice, IsDefaultRequest, d
    <3>2. x = d
      BY <1>5, <1>10, <2>1
    <3> QED BY <1>3, <2>1, <3>1, <3>2 DEF x
  <2>2. CASE r.lang # d.lang
    <3>1. v = voices[Scan(voices, r.lang, d.type)]
      BY <1>10, <2>2 DEF SelectedVoice, IsDefaultRequest, d
    <3>2. WithLang(voices, r.lang) # {}
      BY <1>10, <2>2 DEF IsSelectable, IsDefaultRequest, d
    <3>3. /\ Scan(voices, r.lang, d.type) \in DOMAIN voices /\ v.lang = r.lang
          /\ WithVoice(voices, r.lang, d.type) # {} => v.type = d.type
      BY <1>7, <3>1, <3>2
    <3>4. Supports(cur.engine, v) /\ v = [lang |-> v.lang, type |-> v.type]
      BY <1>2, <1>4, <3>1, <3>3
    <3>5. x.lang = r.lang /\ x.type = d.type
      BY <1>5, <1>10
    <3>6. Supports(cur.engine, x) => v = x
      BY <1>5, <1>6, <3>3, <3>4, <3>5
    <3> QED BY <3>3, <3>4, <3>6 DEF x
  <2> QED BY <2>1, <2>2
<1>11. CASE r.lang = DefaultLang /\ r.type # AutoType
  <2>1. CASE r.type = d.type
    <3>1. v = d
      BY <1>11, <2>1 DEF SelectedVoice, IsDefaultRequest, d
    <3>2. x = d
      BY <1>5, <1>11, <2>1
    <3> QED BY <1>11, <3>1, <3>2 DEF x
  <2>2. CASE r.type # d.type
    <3>1. v = [lang |-> voices[ScanEnd(voices, d.lang, r.type)].lang,
               type |-> voices[Scan(voices, d.lang, r.type)].type]
      BY <1>11, <2>2 DEF SelectedVoice, IsDefaultRequest, d
    <3>2. x.lang = d.lang /\ x.type = r.type
      BY <1>5, <1>11
    <3>3. ASSUME Supports(cur.engine, x)
          PROVE  v = x
      <4>1. WithVoice(voices, d.lang, r.type) # {}
        BY <1>6, <3>2, <3>3
      <4>2. WithLang(voices, d.lang) # {}
        BY <4>1 DEF WithVoice
      <4>3. ScanEnd(voices, d.lang, r.type) = Scan(voices, d.lang, r.type)
        BY <4>1 DEF ScanEnd
      <4>4. /\ voices[Scan(voices, d.lang, r.type)].lang = d.lang
            /\ voices[Scan(voices, d.lang, r.type)].type = r.type
        BY <1>7, <4>1, <4>2
      <4> QED BY <1>5, <3>1, <3>2, <4>3, <4>4
    <3> QED BY <1>11, <3>3 DEF x
  <2> QED BY <2>1, <2>2
<1> QED BY <1>1, <1>8, <1>9, <1>10, <1>11 DEF IsDefaultRequest

-------------------------------------------------------------------------------
(* The theorems.                                                           *)

(* The invariant holds always.                                              *)
THEOREM AgentIsSafe == Spec => []AgentInv
<1>1. Init => AgentInv
  BY AgentInit
<1>2. AgentInv /\ [Next]_vars => AgentInv'
  BY AgentNext
<1> QED BY <1>1, <1>2, PTL DEF Spec

(* The types.                                                               *)
THEOREM AgentTypeCorrect == Spec => []AgentTypeOK
<1>1. AgentInv => AgentTypeOK
  BY DEF AgentInv
<1> QED BY <1>1, AgentIsSafe, PTL

(* The loaded engine always has the default voice.                          *)
THEOREM DefaultVoiceCanSpeak == Spec => []DefaultVoiceIsSupported
<1>1. AgentInv => DefaultVoiceIsSupported
  BY DEF AgentInv
<1> QED BY <1>1, AgentIsSafe, PTL

(* An accepted text stays one for which a voice is found.                   *)
THEOREM AcceptedTextIsNotRefused == Spec => []AcceptedTextStaysSelectable
<1>1. AgentInv => AcceptedTextStaysSelectable
  BY DEF AgentInv
<1> QED BY <1>1, AgentIsSafe, PTL

(* Memory and file agree, so that a restart keeps the settings, unless the  *)
(* last save failed.                                                       *)
THEOREM SettingsSurviveRestart == Spec => []RestartKeepsSettings
<1>1. AgentInv => RestartKeepsSettings
  BY DEF AgentInv
<1> QED BY <1>1, AgentIsSafe, PTL

(* A change of engine that fails never reaches the file.                    *)
THEOREM OnlyWorkingEngineIsStored == Spec => StoredEngineWorks
<1>1. AgentInv /\ [Next]_vars => [EngineStored]_vars
  BY NextStoresWorking
<1> QED BY <1>1, AgentIsSafe, PTL DEF Spec, StoredEngineWorks, EngineStored

(* Every request that can be spoken is spoken in the voice that was asked   *)
(* for when the engine has it, and in the language in any case.            *)
THEOREM RequestsAreHonoured == Spec => []SelectionHonoursRequest
<1>1. AgentInv => SelectionHonoursRequest
  <2> SUFFICES ASSUME AgentInv, cur.loaded, NEW r \in Asked,
                      NEW v,
                      v = SelectedVoice(VoicesOf[cur.engine], cur.voice, r),
                      IsSelectable(VoicesOf[cur.engine], cur.voice, r)
               PROVE  /\ Supports(cur.engine, Exact(r)) => v = Exact(r)
                      /\ r.lang # DefaultLang =>
                           v.lang = r.lang /\ Supports(cur.engine, v)
    BY DEF SelectionHonoursRequest
  <2>1. /\ AgentTypeOK /\ DefaultVoiceIsSupported /\ cur.engine \in Engine
        /\ r \in VoiceRequest
    BY AskedAssumption DEF AgentInv, LoadedForUsers
  <2> QED BY <2>1, SelectedIsAsked
<1> QED BY <1>1, AgentIsSafe, PTL
===============================================================================
