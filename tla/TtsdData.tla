------------------------------- MODULE TtsdData -------------------------------
(***************************************************************************)
(* The daemon's per-client data, server/ttsd_data.cpp.                     *)
(*                                                                         *)
(* The module has no variable: it defines the record kept for a client     *)
(* (an entry of g_app_list) and what each function of ttsd_data.cpp makes  *)
(* of it.  TtsdServer holds the records and calls these operators in the   *)
(* order its handlers call the functions.                                  *)
(*                                                                         *)
(* A text is its utterance id: language, voice, speed and the characters   *)
(* never influence what the daemon does with its queues.  A sound is the   *)
(* utterance id with the result event it came with; the samples are left   *)
(* out.                                                                    *)
(***************************************************************************)
EXTENDS Naturals, Sequences

(* app_state_e; "ABSENT" stands for a uid that has no entry in g_app_list. *)
AppState == {"ABSENT", "READY", "PLAYING", "PAUSED"}

(* The result events that carry sound data (ttsp_result_event_e).          *)
SoundEvent == {"START", "CONTINUE", "FINISH"}

Sound == [utt: Nat, event: SoundEvent]

(* app_data_s: the state, the texts waiting for synthesis (m_speak_data),  *)
(* the sounds waiting for the player (m_wav_data), and utt_id_stopped.     *)
App == [state: AppState, text: Seq(Nat), sound: Seq(Sound), stopped: Nat]

NoApp == [state |-> "ABSENT", text |-> <<>>, sound |-> <<>>, stopped |-> 0]

(* ttsd_data_new_client: a client starts READY with empty queues.          *)
NewClient == [NoApp EXCEPT !.state = "READY"]

(* ttsd_data_is_client *)
IsClient(a) == a.state # "ABSENT"

(* A client that holds the player, or was interrupted while it did.        *)
IsActive(a) == a.state \in {"PLAYING", "PAUSED"}

(* Mutant of AddSpeakData: a stack instead of a queue.                     *)
AddSpeakDataFirst(a, utt) ==
  [a EXCEPT !.text = <<utt>> \o @, !.stopped = IF utt = 1 THEN 0 ELSE @]

(* ttsd_data_add_speak_data: the first utterance of a numbering forgets    *)
(* the last stop.                                                          *)
AddSpeakData(a, utt) ==
  [a EXCEPT !.text = Append(@, utt),
            !.stopped = IF utt = 1 THEN 0 ELSE @]

(* ttsd_data_get_speak_data: removes the oldest text.                      *)
PopSpeakData(a) == [a EXCEPT !.text = Tail(@)]

(* ttsd_data_add_sound_data; a uid that is gone gets nothing.              *)
AddSoundData(a, sound) ==
  IF IsClient(a) THEN [a EXCEPT !.sound = Append(@, sound)] ELSE a

(* ttsd_data_get_sound_data: removes the oldest sound.                     *)
PopSoundData(a) == [a EXCEPT !.sound = Tail(@)]

(* Mutant of ClearData: the sounds stay.                                   *)
ClearDataKeepsSound(a) ==
  [a EXCEPT !.text = <<>>,
            !.stopped = IF a.text = <<>> THEN @ ELSE a.text[Len(a.text)]]

(* ttsd_data_clear_data: both queues are emptied; utt_id_stopped is the    *)
(* last text that was still waiting, and stays when none was.              *)
ClearData(a) ==
  [a EXCEPT !.text = <<>>,
            !.sound = <<>>,
            !.stopped = IF a.text = <<>> THEN @ ELSE a.text[Len(a.text)]]

(* ttsd_data_set_client_state.  Its refusal of a second PLAYING client is  *)
(* left out: ttsd_server_play has just paused the first one, so the check  *)
(* never fails.  OnePlayingClient shows it, without the help of the check. *)
SetState(a, state) == [a EXCEPT !.state = state]

(* ttsd_data_is_uttid_valid: true for a uid that is gone, since the error  *)
(* code it returns is not false.                                           *)
IsUttidValid(a, utt) == IsClient(a) => utt >= a.stopped
===============================================================================
