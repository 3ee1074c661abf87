------------------------------ MODULE TtsSession -------------------------------
(***************************************************************************)
(* An application and tts-daemon: the client library of TtsClient on one   *)
(* end of the bus, the sessions of its handles in the daemon on the other. *)
(*                                                                         *)
(* What the daemon does with texts, engine and player is TtsdServer; here  *)
(* a session has a state, its texts and the one that is heard, and changes *)
(* as a request of the handle, a request of another application or the     *)
(* engine changes it there.  In full: which requests the daemon takes from *)
(* the bus and which it loses, what it sends to the client and when, and   *)
(* the periodic sweep that asks every client whether it is still there,    *)
(* blocking in each hello.                                                 *)
(***************************************************************************)
EXTENDS TtsClient

CONSTANTS
  Fails,   \* the methods that may fail in this run
  Others   \* what other applications do in this run

ASSUME FailsAssumption == Fails \subseteq Method \cup {"create", "start"}
ASSUME OthersAssumption == Others \subseteq {"interrupt", "engine"}

Sq == INSTANCE SequencesExt

VARIABLES
  session,  \* the state of a handle in g_app_list; ABSENT when not in it
  texts,    \* the texts of a session that were not heard yet
  saying,   \* the utterance that has started, or NoUtt
  owed,     \* pending __send_interrupt_client timers
  greet,    \* the handle whose hello the daemon waits for, or NoHandle
  sweep     \* the handles the sweep has still to ask

sessionVars == <<session, texts, saying, owed>>
daemonVars == <<session, texts, saying, owed, greet, sweep>>
vars == <<client, timers, due, caller, request, bus, seen, news,
          spoiled, stalled, session, texts, saying, owed, greet, sweep>>

TypeOK ==
  /\ ClientTypeOK
  /\ session \in [Handle -> {"ABSENT", "READY", "PLAYING", "PAUSED"}]
  /\ texts \in [Handle -> Seq(Nat)]
  /\ saying \in [Handle -> Nat]
  /\ owed \in [Handle -> Nat]
  /\ greet \in Handle \cup {NoHandle}
  /\ sweep \subseteq Handle

Init ==
  /\ ClientInit
  /\ session = [h \in Handle |-> "ABSENT"]
  /\ texts = [h \in Handle |-> <<>>]
  /\ saying = [h \in Handle |-> NoUtt]
  /\ owed = [h \in Handle |-> 0]
  /\ greet = NoHandle
  /\ sweep = {}

-------------------------------------------------------------------------------
(* Sessions.                                                               *)

Registered(h) == session[h] # "ABSENT"

(* The session of h comes to state s; a stop or the end of it also drops    *)
(* its texts.                                                               *)
Moves(h, s) ==
  /\ session' = [session EXCEPT ![h] = s]
  /\ UNCHANGED <<texts, saying, owed>>

Drops(h, s) ==
  /\ session' = [session EXCEPT ![h] = s]
  /\ texts' = [texts EXCEPT ![h] = <<>>]
  /\ saying' = [saying EXCEPT ![h] = NoUtt]
  /\ UNCHANGED owed

(* The player goes to h, or to another application (NoHandle): the handle   *)
(* that plays is paused and owed a message.                                 *)
PlayerGoesTo(h) ==
  /\ session' = [g \in Handle |-> IF g = h THEN "PLAYING"
                                  ELSE IF session[g] = "PLAYING" THEN "PAUSED"
                                  ELSE session[g]]
  /\ owed' = [g \in Handle |-> IF g # h /\ session[g] = "PLAYING"
                                 THEN owed[g] + 1 ELSE owed[g]]
  /\ UNCHANGED <<texts, saying>>

StateMsg(h, s) == Msg("state", h, s, NoUtt)

(* Messages to a process that is gone are dropped by the bus.               *)
Sent(b, msgs) == IF Connected THEN ToClient(b, msgs) ELSE b

-------------------------------------------------------------------------------
(* Requests, as ttsd_server_* answers them.  e: the request; b: the bus     *)
(* after it was taken off.                                                  *)

ReplyTo(e) ==
  CASE e.answer = "live" -> <<Msg("reply", e.h, "CREATED", NoUtt)>>
    [] e.answer = "late" -> <<Msg("late", e.h, "CREATED", NoUtt)>>
    [] OTHER -> <<>>

(* The messages msgs leave, then the reply to e.                            *)
Answered(e, b, msgs, ok) ==
  LET sent == Sent(b, msgs \o ReplyTo(e))
  IN IF e.answer = "live"
       THEN [sent EXCEPT !.result = IF ok THEN "ok" ELSE "failed"]
       ELSE sent

Answers(e, b, msgs, ok) == bus' = Answered(e, b, msgs, ok)

(* There is no session for the handle.                                      *)
Refuses(e, b) ==
  /\ e.op \in Method \ {"hello", "initialize"} /\ ~Registered(e.h)
  /\ Answers(e, b, <<>>, FALSE)
  /\ UNCHANGED sessionVars

ServeHello(e, b) ==
  /\ e.op = "hello"
  /\ Answers(e, b, <<>>, TRUE)
  /\ UNCHANGED sessionVars

(* ttsd_server_initialize: refused when the handle has a session; without   *)
(* engine there is none; without player ("create") it stays registered.     *)
ServeInitialize(e, b) ==
  /\ e.op = "initialize"
  /\ \/ /\ ~Registered(e.h)
        /\ Answers(e, b, <<>>, TRUE) /\ Moves(e.h, "READY")
     \/ /\ Registered(e.h) \/ "initialize" \in Fails
        /\ Answers(e, b, <<>>, FALSE) /\ UNCHANGED sessionVars
     \/ /\ ~Registered(e.h) /\ "create" \in Fails
        /\ Answers(e, b, <<>>, FALSE) /\ Moves(e.h, "READY")

(* Mutant of ServeFinalize: the session stays.                              *)
ServeFinalizeStays(e, b) ==
  /\ e.op = "finalize" /\ Registered(e.h)
  /\ Answers(e, b, <<>>, TRUE) /\ Drops(e.h, "READY")

ServeFinalize(e, b) ==
  /\ e.op = "finalize" /\ Registered(e.h)
  /\ Answers(e, b, <<>>, TRUE) /\ Drops(e.h, "ABSENT")

ServeQuery(e, b) ==
  /\ e.op = "query" /\ Registered(e.h)
  /\ \E ok \in {TRUE, "query" \notin Fails} : Answers(e, b, <<>>, ok)
  /\ UNCHANGED sessionVars

(* ttsd_server_add_queue: queued; or refused; or the engine refuses it      *)
(* while the client plays, which stops the client (mode 2).                 *)
ServeAdd(e, b) ==
  /\ e.op = "add" /\ Registered(e.h)
  /\ \/ /\ Answers(e, b, <<>>, TRUE)
        /\ texts' = [texts EXCEPT ![e.h] = Append(@, e.utt)]
        /\ UNCHANGED <<session, saying, owed>>
     \/ /\ "add" \in Fails
        /\ Answers(e, b, <<>>, FALSE) /\ UNCHANGED sessionVars
     \/ /\ "add" \in Fails /\ session[e.h] = "PLAYING"
        /\ Answers(e, b, <<Msg("error", e.h, "CREATED", e.utt),
                           StateMsg(e.h, "READY")>>, FALSE)
        /\ Drops(e.h, "READY")

(* ttsd_server_play: nothing when it plays; refused without network; and    *)
(* refused after it took the player, when the engine does not start.        *)
ServePlay(e, b) ==
  /\ e.op = "play" /\ Registered(e.h)
  /\ \/ /\ session[e.h] = "PLAYING"
        /\ Answers(e, b, <<>>, TRUE) /\ UNCHANGED sessionVars
     \/ /\ session[e.h] # "PLAYING"
        /\ Answers(e, b, <<>>, TRUE) /\ PlayerGoesTo(e.h)
     \/ /\ session[e.h] # "PLAYING" /\ "play" \in Fails
        /\ Answers(e, b, <<>>, FALSE) /\ UNCHANGED sessionVars
     \/ /\ session[e.h] # "PLAYING" /\ "start" \in Fails
        /\ Answers(e, b, <<>>, FALSE) /\ PlayerGoesTo(e.h)

ServeStop(e, b) ==
  /\ e.op = "stop" /\ Registered(e.h)
  /\ Answers(e, b, <<>>, TRUE) /\ Drops(e.h, "READY")

(* ttsd_server_pause: only of a client that plays; the player may fail.     *)
ServePause(e, b) ==
  /\ e.op = "pause" /\ Registered(e.h)
  /\ \/ /\ session[e.h] = "PLAYING"
        /\ Answers(e, b, <<>>, TRUE) /\ Moves(e.h, "PAUSED")
     \/ /\ session[e.h] # "PLAYING" \/ "pause" \in Fails
        /\ Answers(e, b, <<>>, FALSE) /\ UNCHANGED sessionVars

(* Another application plays.                                               *)
ServeInterrupt(e, b) ==
  /\ e.op = "interrupt"
  /\ PlayerGoesTo(NoHandle)
  /\ bus' = b

(* A setting application sets another engine: every client is stopped, in   *)
(* the order of g_app_list.                                                 *)
ServeEngine(e, b) ==
  /\ e.op = "engine"
  /\ session' = [h \in Handle |-> IF Registered(h) THEN "READY" ELSE "ABSENT"]
  /\ texts' = [h \in Handle |-> <<>>]
  /\ saying' = [h \in Handle |-> NoUtt]
  /\ \E all \in Sq!SetToSeqs({h \in Handle : Registered(h)}) :
       bus' = Sent(b, [i \in DOMAIN all |-> StateMsg(all[i], "READY")])
  /\ UNCHANGED owed

(* An answer that comes too late, or an error for what the client lost.     *)
ServeStale(e, b) ==
  /\ e.op \in {"yes", "no", "stale"}
  /\ bus' = b
  /\ UNCHANGED sessionVars

Serve(e, b) ==
  \/ Refuses(e, b) \/ ServeHello(e, b) \/ ServeInitialize(e, b)
  \/ ServeFinalize(e, b) \/ ServeQuery(e, b) \/ ServeAdd(e, b)
  \/ ServePlay(e, b) \/ ServeStop(e, b) \/ ServePause(e, b)
  \/ ServeInterrupt(e, b) \/ ServeEngine(e, b) \/ ServeStale(e, b)

-------------------------------------------------------------------------------
(* The main loop of the daemon.                                            *)

InLoop == greet = NoHandle

(* The bus after the lost request, if any, was answered with an error.      *)
AfterLoss(lost, b) == IF lost = <<>> THEN b ELSE Answered(lost[1], b, <<>>, FALSE)

(* listener_event_callback of ttsd_dbus.c, after the timers of delay 0.  A *)
(* request that was lost, or failed and changed the session all the same,   *)
(* spoils its handle.                                                       *)
DaemonListener ==
  /\ InLoop /\ bus.inbox # <<>> /\ \A h \in Handle : owed[h] = 0
  /\ \E r \in Taken(bus.kept, bus.inbox) :
       LET b == AfterLoss(r.lost,
                          [bus EXCEPT !.kept = r.queue, !.inbox = r.sock])
       IN /\ IF r.got = <<>>
               THEN bus' = b /\ UNCHANGED sessionVars
               ELSE Serve(r.got[1], b)
          /\ spoiled' = spoiled
               \cup {h \in Handle : r.lost # <<>> /\ r.lost[1].h = h}
               \cup {h \in Handle : session'[h] # session[h]
                                    /\ r.got[1].h = h
                                    /\ bus'.result = "failed"}
  /\ UNCHANGED <<appVars, seen, news, stalled, greet, sweep>>

(* Mutant of SendInterrupt: the timer does not go away when it has fired.   *)
SendInterruptOften(h) ==
  /\ InLoop
  /\ owed' = [owed EXCEPT ![h] = @ - 1]
  /\ bus' = IF Registered(h) THEN Sent(bus, <<StateMsg(h, "PAUSED")>>) ELSE bus
  /\ UNCHANGED <<appVars, seen, news, spoiled, stalled, session, texts, saying,
                 greet, sweep>>

(* __send_interrupt_client: PAUSED, whatever the session is by now.         *)
SendInterrupt(h) ==
  /\ InLoop /\ owed[h] > 0
  /\ owed' = [owed EXCEPT ![h] = @ - 1]
  /\ bus' = IF Registered(h) THEN Sent(bus, <<StateMsg(h, "PAUSED")>>) ELSE bus
  /\ UNCHANGED <<appVars, seen, news, spoiled, stalled, session, texts, saying,
                 greet, sweep>>

(* The player starts the next text of a session that plays, or ends it, or  *)
(* reports an error of it.                                                  *)
Announce(h) ==
  /\ InLoop /\ session[h] = "PLAYING" /\ Room
  /\ \/ /\ saying[h] = NoUtt /\ texts[h] # <<>>
        /\ saying' = [saying EXCEPT ![h] = Head(texts[h])]
        /\ texts' = [texts EXCEPT ![h] = Tail(@)]
        /\ bus' = Sent(bus, <<Msg("started", h, "CREATED", Head(texts[h]))>>)
     \/ /\ saying[h] # NoUtt
        /\ saying' = [saying EXCEPT ![h] = NoUtt]
        /\ \E k \in {"completed", "error"} :
             bus' = Sent(bus, <<Msg(k, h, "CREATED", saying[h])>>)
        /\ UNCHANGED texts
  /\ UNCHANGED <<appVars, seen, news, spoiled, stalled, session, owed, greet,
                 sweep>>

(* Another application's request arrives.  Bound: what the one before       *)
(* brought to the client was handled.                                       *)
Unsettled ==
  \/ \E h \in Handle : owed[h] > 0
  \/ \E q \in {bus.inbox, bus.kept} : \E i \in DOMAIN q : q[i].op \in Others
  \/ \E q \in {bus.wire, bus.held} : \E i \in DOMAIN q : q[i].kind = "state"

OtherAsks(op) ==
  /\ op \in Others /\ Room /\ ~Unsettled
  /\ bus' = ToDaemon(bus, <<Ent(op, NoHandle, NoUtt, "none")>>)
  /\ UNCHANGED <<appVars, seen, news, spoiled, stalled, daemonVars>>

-------------------------------------------------------------------------------
(* The sweep: ttsd_cleanup_client.                                         *)

(* hello goes to the next handle of those; the bus answers for a process    *)
(* that is gone.                                                            *)
Greets(those, b) ==
  IF those = {}
    THEN greet' = NoHandle /\ sweep' = {} /\ bus' = b /\ stalled' = FALSE
    ELSE \E h \in those :
           /\ greet' = h
           /\ sweep' = those \ {h}
           /\ bus' = IF Connected
                       THEN ToClient(b, <<Msg("hello", h, "CREATED", NoUtt)>>)
                       ELSE ToDaemon(b, <<Ent("no", NoHandle, NoUtt, "none")>>)
           /\ stalled' = (request # NoRequest \/ b.wire # <<>>)

StartSweep ==
  /\ InLoop /\ (Connected => Room)
  /\ \E h \in Handle : Registered(h)
  /\ Greets({h \in Handle : Registered(h)}, bus)
  /\ UNCHANGED <<appVars, seen, news, spoiled, sessionVars>>

(* Mutant of HelloAnswered: every client that answers stays.                *)
HelloAnsweredAnyhow ==
  /\ ~InLoop
  /\ \E i \in DOMAIN bus.inbox :
       /\ bus.inbox[i].op \in {"yes", "no"}
       /\ UNCHANGED sessionVars
       /\ \E r \in Awaited(bus.kept, bus.inbox, i) :
            Greets(sweep, [bus EXCEPT !.kept = r.queue, !.inbox = r.sock])
  /\ UNCHANGED <<appVars, seen, news, spoiled>>

(* The answer is there; "no" ends the session.                              *)
HelloAnswered ==
  /\ ~InLoop
  /\ \E i \in DOMAIN bus.inbox :
       /\ bus.inbox[i].op \in {"yes", "no"}
       /\ IF bus.inbox[i].op = "no" THEN Drops(greet, "ABSENT")
                                    ELSE UNCHANGED sessionVars
       /\ \E r \in Awaited(bus.kept, bus.inbox, i) :
            Greets(sweep, [bus EXCEPT !.kept = r.queue, !.inbox = r.sock])
  /\ UNCHANGED <<appVars, seen, news, spoiled>>

(* Without an answer for 3 s the session ends as well.  An application that *)
(* has only to take the hello from the wire answers in time.                *)
Voided(q) == [i \in DOMAIN q |-> IF q[i].kind = "hello"
                                   THEN [q[i] EXCEPT !.kind = "void"] ELSE q[i]]
OnWire == \E i \in DOMAIN bus.wire : bus.wire[i].kind = "hello"

HelloTimesOut ==
  /\ ~InLoop
  /\ \A i \in DOMAIN bus.inbox : bus.inbox[i].op \notin {"yes", "no"}
  /\ request # NoRequest \/ ~OnWire
  /\ Drops(greet, "ABSENT")
  /\ Greets(sweep, [bus EXCEPT !.wire = Voided(bus.wire),
                               !.held = Voided(bus.held),
                               !.kept = @ \o bus.inbox, !.inbox = <<>>])
  /\ UNCHANGED <<appVars, seen, news, spoiled>>

-------------------------------------------------------------------------------

Sweeps == StartSweep \/ HelloAnswered \/ HelloTimesOut

App == (Application \/ MainLoop) /\ UNCHANGED daemonVars

Daemon ==
  \/ DaemonListener \/ Sweeps
  \/ \E h \in Handle : SendInterrupt(h) \/ Announce(h)

Next == App \/ Daemon \/ \E op \in Others : OtherAsks(op)

Spec == Init /\ [][Next]_vars

(* The loops go on: the application runs its timers, takes its messages,    *)
(* returns from callbacks and ends its calls, with a reply or a time-out;   *)
(* the daemon takes its messages, and its sweep comes round again.  The     *)
(* application has to call nothing.                                         *)
Fairness ==
  /\ WF_vars(MainLoop /\ UNCHANGED daemonVars)
  /\ WF_vars(DaemonListener \/ \E h \in Handle : SendInterrupt(h))
  /\ WF_vars(Sweeps)

FairSpec == Spec /\ Fairness

-------------------------------------------------------------------------------
(* Properties.                                                             *)

(* tts_state_changed_cb "Called when the state of TTS is changed" (tts.h):  *)
(* when no notification is pending, the application was told the state that *)
(* its handle is in, whether a call, the connection or a message changed it *)
(* last, and however they overtook each other.                              *)
AppKnowsState ==
  \A h \in Handle : Listed(h) /\ client[h].cb /\ timers[h]["state"] = 0
                     => seen[h] = client[h].state

(* "utt_id The utterance ID passed from the add text function" (tts.h): the *)
(* one slot for the id in the handle still holds the utterance a started or *)
(* completed callback is due for; only a failed connection may blank it.    *)
CallbackReportsUtterance ==
  \A h \in Handle : \A k \in {"started", "completed"} :
    Listed(h) /\ timers[h][k] > 0
      => client[h].utt \in {news[h][k], NoUtt}

(* tts_unprepare and tts_destroy "disconnect the daemon" (tts.h): a handle  *)
(* that is CREATED or freed has no session in the daemon, unless one of its *)
(* requests was lost, late or half done or its process just ended.          *)
NothingLeftBehind ==
  \A h \in Handle \ spoiled :
    /\ client[h].life = "gone" \/ client[h].state = "CREATED"
    /\ request.h # h
    => ~Registered(h)

(* The sweep throws a living handle out only when its application was       *)
(* blocked in a request of its own or had other messages to take first.     *)
SweepSparesTheResponsive ==
  [][\A h \in Handle : Listed(h) /\ greet = h /\ Registered(h)
                         /\ session'[h] = "ABSENT" => stalled]_vars

(* What the sweep is for: the session of a handle that is gone, after an    *)
(* exit, a lost finalize or a late initialize, ends in time, although the   *)
(* daemon and applications may wait for each other on the way.              *)
GoneIsForgotten ==
  \A h \in Handle : client[h].life = "gone" /\ Registered(h) ~> ~Registered(h)

(* "If the daemon must stop player because of changing engine and the       *)
(* daemon must pause player because of other requests, this callback        *)
(* function is called" (tts.h): a client that still believes it plays,      *)
(* though it was paused, has the message under way.                         *)
InterruptionIsReported ==
  \A h \in Handle \ spoiled :
    /\ Listed(h) /\ client[h].cb /\ client[h].state = "PLAYING" /\ session[h] = "PAUSED"
    /\ request = NoRequest
    => \/ owed[h] > 0
       \/ \E q \in {bus.wire, bus.held} : \E i \in DOMAIN q :
             q[i].kind = "state" /\ q[i].h = h
===============================================================================
