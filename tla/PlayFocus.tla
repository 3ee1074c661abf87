------------------------------ MODULE PlayFocus -------------------------------
(***************************************************************************)
(* What tts-daemon promises the applications about who speaks.             *)
(*                                                                         *)
(* Each client is in one of the states its application sees (tts_state_e), *)
(* and a set of clients is heard.  A client that plays takes the player    *)
(* from the one that had it: that one is paused, never stopped, and is     *)
(* silent from then on.  Queues, timers, the engine and mm_player do not   *)
(* appear here.  TtsdServer implements this specification.                 *)
(***************************************************************************)
CONSTANT Uid  \* the clients

VARIABLES
  sess,     \* the state of each client; ABSENT before prepare
  sounding  \* the clients that are heard

vars == <<sess, sounding>>

SessState == {"ABSENT", "READY", "PLAYING", "PAUSED"}

TypeOK == sess \in [Uid -> SessState] /\ sounding \subseteq Uid

Init == sess = [u \in Uid |-> "ABSENT"] /\ sounding = {}

(* The client prepares, or unprepares (or is found dead).                  *)
Join(u) ==
  /\ sess[u] = "ABSENT"
  /\ sess' = [sess EXCEPT ![u] = "READY"]
  /\ UNCHANGED sounding

Leave(u) ==
  /\ sess' = [sess EXCEPT ![u] = "ABSENT"]
  /\ sounding' = sounding \ {u}

(* u takes the player; only a client that resumes is heard at once.        *)
Play(u) ==
  /\ sess[u] \in {"READY", "PAUSED"}
  /\ sess' = [v \in Uid |-> IF v = u THEN "PLAYING"
                            ELSE IF sess[v] = "PLAYING" THEN "PAUSED"
                            ELSE sess[v]]
  /\ \/ sounding' = {}
     \/ sess[u] = "PAUSED" /\ sounding' = {u}

Pause(u) ==
  /\ sess[u] = "PLAYING"
  /\ sess' = [sess EXCEPT ![u] = "PAUSED"]
  /\ sounding' = {}

(* By request, or because the engine refused a text of u.                  *)
Stop(u) ==
  /\ sess[u] \in {"PLAYING", "PAUSED"}
  /\ sess' = [sess EXCEPT ![u] = "READY"]
  /\ sounding' = sounding \ {u}

(* Another engine is set: everybody is stopped.                            *)
StopAll ==
  /\ sess' = [u \in Uid |-> IF sess[u] = "ABSENT" THEN "ABSENT" ELSE "READY"]
  /\ sounding' = {}

(* A sound of the playing client starts; a sound ends.                     *)
Sound(u) ==
  /\ sess[u] = "PLAYING"
  /\ sounding' = {u}
  /\ UNCHANGED sess

Silence ==
  /\ sounding' = {}
  /\ UNCHANGED sess

Next ==
  \/ \E u \in Uid : \/ Join(u) \/ Leave(u) \/ Play(u) \/ Pause(u) \/ Stop(u)
                    \/ Sound(u)
  \/ StopAll \/ Silence

Spec == Init /\ [][Next]_vars

(* At most one client is heard, and it is the one that plays.              *)
OneVoice ==
  /\ \A u, v \in Uid : sess[u] = "PLAYING" /\ sess[v] = "PLAYING" => u = v
  /\ \A u \in sounding : sess[u] = "PLAYING"
===============================================================================
