------------------------------ MODULE VoiceSelect ------------------------------
(***************************************************************************)
(* How the engine agent turns the voice a text asks for into one of the    *)
(* engine's voices: ttsd_engine_select_valid_voice                         *)
(* (server/ttsd_engine_agent.c).  Operators only.                          *)
(*                                                                         *)
(* Languages have the fixed form that ttsp.h and tts.h prescribe ("ko_KR", *)
(* "en_US"), so the code's strncmp on a prefix is equality.                *)
(***************************************************************************)
EXTENDS Naturals, Sequences

CONSTANTS
  Lang,        \* the languages
  DefaultLang, \* "default": what the client library sends for NULL
  NoLang       \* "(null)": what a null language reads like in the stored file

ASSUME LangAssumption == DefaultLang \notin Lang /\ NoLang \notin Lang

(* voice_s.  Type 0 is TTSP_VOICE_TYPE's "from settings".                  *)
AutoType == 0
Voice == [lang: Lang \cup {NoLang}, type: Nat]

(* The voice a text asks for.                                              *)
VoiceRequest == [lang: Lang \cup {DefaultLang}, type: Nat]

IsDefaultRequest(r) == r.lang = DefaultLang /\ r.type = AutoType

WithLang(voices, lang) == {i \in DOMAIN voices : voices[i].lang = lang}
WithVoice(voices, lang, type) ==
  {i \in WithLang(voices, lang) : voices[i].type = type}

(* Whether a voice is found.  The list is not needed for a request that    *)
(* leaves both to the default; an empty list refuses every other one.      *)
IsSelectable(voices, default, r) ==
  \/ IsDefaultRequest(r)
  \/ /\ voices # <<>>
     /\ \/ /\ r.lang # DefaultLang /\ r.type # AutoType
           /\ WithVoice(voices, r.lang, r.type) # {}
        \/ /\ r.lang # DefaultLang /\ r.type = AutoType
           /\ r.lang = default.lang \/ WithLang(voices, r.lang) # {}
        \/ /\ r.lang = DefaultLang /\ r.type # AutoType
           /\ r.type = default.type \/ WithLang(voices, default.lang) # {}

First(S) == CHOOSE i \in S : \A j \in S : i <= j
Last(S) == CHOOSE i \in S : \A j \in S : j <= i

(* Mutant of Scan: the scan goes on after the exact voice.                 *)
ScanToEnd(voices, lang, type) == Last(WithLang(voices, lang))

(* The scan for a language with a preferred type: it stops at the first    *)
(* voice with both, and else has seen the last one with the language.      *)
Scan(voices, lang, type) ==
  IF WithVoice(voices, lang, type) # {} THEN First(WithVoice(voices, lang, type))
                                        ELSE Last(WithLang(voices, lang))

(* Where the loop variable of the scan stands afterwards.                  *)
ScanEnd(voices, lang, type) ==
  IF WithVoice(voices, lang, type) # {} THEN Scan(voices, lang, type)
                                        ELSE Len(voices)

(* The voice found for a selectable request.  When only the language is    *)
(* left to the default, the language comes from the loop variable and the  *)
(* type from the voice that was selected.                                  *)
SelectedVoice(voices, default, r) ==
  CASE IsDefaultRequest(r) -> default
    [] r.lang # DefaultLang /\ r.type # AutoType -> r
    [] r.lang # DefaultLang /\ r.type = AutoType ->
         IF r.lang = default.lang THEN default
         ELSE voices[Scan(voices, r.lang, default.type)]
    [] r.lang = DefaultLang /\ r.type # AutoType ->
         IF r.type = default.type THEN default
         ELSE [lang |-> voices[ScanEnd(voices, default.lang, r.type)].lang,
               type |-> voices[Scan(voices, default.lang, r.type)].type]
===============================================================================
