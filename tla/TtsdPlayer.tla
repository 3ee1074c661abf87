------------------------------ MODULE TtsdPlayer ------------------------------
(***************************************************************************)
(* The daemon's player, server/ttsd_player.cpp: one mm_player per client.  *)
(*                                                                         *)
(* Like TtsdData the module has no variable.  It defines the record kept   *)
(* for a client's player (an entry of g_player_list together with the      *)
(* state of its mm_player handle) and what the functions make of it.       *)
(*                                                                         *)
(* mm_player is external.  It is assumed to be in one of the states NULL,  *)
(* PLAYING and PAUSED between two calls (READY exists only inside          *)
(* __set_and_start, which unrealizes on failure), and to report for a      *)
(* stream it started one BEGIN_OF_STREAM, then one END_OF_STREAM or one    *)
(* ERROR, and nothing once the stream is unrealized.                       *)
(***************************************************************************)
EXTENDS TtsdData

(* Where the stream being played is: started and not yet begun, begun,     *)
(* or over (its END_OF_STREAM or ERROR was delivered).                     *)
Phase == {"none", "starting", "running", "ended"}

(* player_s: whether the entry exists, the state of the mm_player, the     *)
(* event of the last sound that began, and the sound given to mm_player    *)
(* (user_data_s) with its phase.                                           *)
Player == [item: BOOLEAN,
           mm: {"NULL", "PLAYING", "PAUSED"},
           event: SoundEvent,
           utt: Nat,
           soundEvent: SoundEvent,
           phase: Phase]

NoPlayer == [item |-> FALSE, mm |-> "NULL", event |-> "FINISH",
             utt |-> 0, soundEvent |-> "FINISH", phase |-> "none"]

(* ttsd_player_create_instance, when mm_player_create succeeds.            *)
NewPlayer == [NoPlayer EXCEPT !.item = TRUE]

(* mm_player_unrealize: the stream and its pending messages are gone.      *)
Unrealized(p) ==
  [p EXCEPT !.mm = "NULL", !.utt = 0, !.soundEvent = "FINISH", !.phase = "none"]

(* Mutant of AllStopped: the stream goes on.                               *)
AllStoppedNot(p) == [p EXCEPT !.event = "FINISH"]

(* The part of ttsd_player_all_stop that concerns one player.              *)
AllStopped(p) == [Unrealized(p) EXCEPT !.event = "FINISH"]

(* Mutant of PausedPlayer: the mm_player keeps playing.                    *)
PausedPlayerGoesOn(p) == p

(* ttsd_player_pause: only a playing mm_player is paused.                  *)
PausedPlayer(p) == IF p.mm = "PLAYING" THEN [p EXCEPT !.mm = "PAUSED"] ELSE p

(* The end of __set_and_start: mm_player plays this sound.                 *)
Started(p, sound) ==
  [p EXCEPT !.mm = "PLAYING", !.utt = sound.utt,
            !.soundEvent = sound.event, !.phase = "starting"]

(* Mutant of AnnouncesStart: only an utterance of one sound is announced.  *)
AnnouncesSingle(p) == p.event = "FINISH" /\ p.soundEvent = "FINISH"

(* BEGIN_OF_STREAM announces the utterance when its first sound begins.    *)
AnnouncesStart(p) ==
  \/ p.soundEvent = "START"
  \/ p.event = "FINISH" /\ p.soundEvent = "FINISH"

(* A sound that is being rendered now.                                     *)
IsAudible(p) == p.mm = "PLAYING" /\ p.phase \in {"starting", "running"}
===============================================================================
