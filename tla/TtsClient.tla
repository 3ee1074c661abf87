------------------------------ MODULE TtsClient --------------------------------
(***************************************************************************)
(* The client library: client/tts.c, tts_client.c and tts_dbus.c, as one   *)
(* application uses it, and its connection to tts-daemon.                  *)
(*                                                                         *)
(* The application is one thread on the ecore main loop.  A call blocks in *)
(* its request until the reply or a time-out; callbacks run from timers of *)
(* delay 0, never from the call or the message that caused them.  The loop *)
(* runs the timers that are due before it lets listener_event_callback     *)
(* take one more message.                                                  *)
(***************************************************************************)
EXTENDS Naturals, Sequences, FiniteSets, DBusQueue

CONSTANTS
  Handle,     \* the tts handles an application may create
  NoHandle,   \* no handle: the main loop runs no callback
  MaxUtt,     \* bound: texts added with a handle
  MaxTimers,  \* bound: timers of one kind pending for a handle
  MaxQueue    \* bound: messages on their way in one direction

ASSUME HandleAssumption == IsFiniteSet(Handle)
ASSUME NoHandleAssumption == NoHandle \notin Handle
ASSUME ClientBoundsAssumption ==
  MaxUtt \in Nat /\ MaxTimers \in Nat \ {0} /\ MaxQueue \in Nat \ {0}

VARIABLES
  client,   \* g_client_list, with the handles that were freed
  timers,   \* pending timers: __tts_connect_daemon and the __tts_notify_*
  due,      \* a message was handled since the notifications were added
  caller,   \* the handle whose callback runs (cb_ref_count), or NoHandle
  request,  \* the call that blocks, or NoRequest
  bus,      \* the messages on their way, and read but not handled yet
  seen,     \* history: the state the application was told last
  news,     \* history: the utterance a pending started or completed is for
  spoiled,  \* history: handles with a request that was lost, late or half
            \* done, or whose process ended without tts_destroy
  stalled   \* history: the daemon's last hello could not be answered at once

appVars == <<client, timers, due, caller, request>>
clientVars == <<client, timers, due, caller, request, bus, seen, news,
                spoiled, stalled>>

State == {"CREATED", "READY", "PLAYING", "PAUSED"}
NoUtt == 0   \* the -1 of a failed connection, and the 0 of a new handle

Notice == {"state", "started", "completed", "error"}
TimerKind == {"connect"} \cup Notice
Call == {"hello", "initialize", "unprepare", "destroy", "query", "add", "play",
         "stop", "pause"}
Method == {"hello", "initialize", "finalize", "query", "add", "play", "stop",
           "pause"}

(* tts_client_s.  A handle is "freeing" while tts_destroy waits for the     *)
(* callback that it was called from.  cb: the application's callbacks are   *)
(* registered.  The memory of a freed handle is not used again.             *)
Client == [life: {"unborn", "listed", "freeing", "gone"}, state: State,
           utt: Nat, lastId: Nat, cb: BOOLEAN]
NewHandle == [life |-> "listed", state |-> "CREATED", utt |-> NoUtt,
              lastId |-> 0, cb |-> FALSE]
Freed == [NewHandle EXCEPT !.life = "gone"]

(* To the client: "void" is a hello the daemon stopped waiting for, "late"  *)
(* a reply the client stopped waiting for.  To the daemon: "yes" and "no"   *)
(* answer its hello; "stale" answers what it does not wait for; "interrupt" *)
(* and "engine" come from other applications.  answer: whether the sender   *)
(* waits, has timed out, or takes no reply.                                 *)
Message == [kind: Notice \cup {"hello", "void", "reply", "late"},
            h: Handle \cup {NoHandle}, state: State, utt: Nat]
Entry == [op: Method \cup {"yes", "no", "stale", "interrupt", "engine"},
          h: Handle \cup {NoHandle}, utt: Nat, answer: {"live", "late", "none"}]
Bus == [wire: Seq(Message), held: Seq(Message), inbox: Seq(Entry),
        kept: Seq(Entry), result: {"none", "ok", "failed"}]

NoRequest == [h |-> NoHandle, op |-> "none"]
NoTimers == [k \in TimerKind |-> 0]

ClientTypeOK ==
  /\ client \in [Handle -> Client]
  /\ timers \in [Handle -> [TimerKind -> Nat]]
  /\ due \in BOOLEAN
  /\ caller \in Handle \cup {NoHandle}
  /\ request \in [h: Handle, op: Call] \cup {NoRequest}
  /\ bus \in Bus
  /\ seen \in [Handle -> State]
  /\ news \in [Handle -> [{"started", "completed"} -> Nat]]
  /\ spoiled \subseteq Handle
  /\ stalled \in BOOLEAN

ClientInit ==
  /\ client = [h \in Handle |-> [NewHandle EXCEPT !.life = "unborn"]]
  /\ timers = [h \in Handle |-> NoTimers]
  /\ due = FALSE
  /\ caller = NoHandle
  /\ request = NoRequest
  /\ bus = [wire |-> <<>>, held |-> <<>>, inbox |-> <<>>, kept |-> <<>>,
            result |-> "none"]
  /\ seen = [h \in Handle |-> "CREATED"]
  /\ news = [h \in Handle |-> [k \in {"started", "completed"} |-> NoUtt]]
  /\ spoiled = {}
  /\ stalled = FALSE

-------------------------------------------------------------------------------
(* The two ends of the bus.  bus.wire and bus.inbox are on their way, to    *)
(* the client and to the daemon; bus.held and bus.kept were read there and  *)
(* are not handled; bus.result is what the awaited reply says.              *)

ToDaemon(b, entries) == [b EXCEPT !.inbox = @ \o entries]
ToClient(b, msgs) == [b EXCEPT !.wire = @ \o msgs]

Msg(kind, h, state, utt) ==
  [kind |-> kind, h |-> h, state |-> state, utt |-> utt]
Ent(op, h, utt, answer) == [op |-> op, h |-> h, utt |-> utt, answer |-> answer]

NoLonger(entries, from, to) ==
  [i \in DOMAIN entries |-> IF entries[i].answer \in from
                              THEN [entries[i] EXCEPT !.answer = to]
                              ELSE entries[i]]

(* The connection is private to the process and open while it has handles.  *)
Connected == \E h \in Handle : client[h].life \in {"listed", "freeing"}

-------------------------------------------------------------------------------
(* Helpers.                                                                *)

Listed(h) == client[h].life = "listed"

(* The application may call from its main loop or from a callback.          *)
MayCall(h) == request = NoRequest /\ Listed(h)

(* The bound on the messages that no one has handled yet, at either end.    *)
(* Not counted: a hello and what other applications ask.                    *)
Room ==
  /\ Len(SelectSeq(bus.inbox \o bus.kept, LAMBDA e : e.op \notin {"interrupt", "engine"}))
       < MaxQueue
  /\ Len(SelectSeq(bus.wire \o bus.held, LAMBDA m : m.kind # "hello")) < MaxQueue

MethodOf(op) == IF op \in {"unprepare", "destroy"} THEN "finalize" ELSE op

(* The daemon's hello is not answered yet.                                 *)
Asked(b) == \E q \in {b.wire, b.held} : \E i \in DOMAIN q : q[i].kind = "hello"

(* tts_dbus_request_*: the request leaves and the process blocks.           *)
Asks(h, op, utt, b) ==
  /\ request' = [h |-> h, op |-> op]
  /\ bus' = ToDaemon(b, <<Ent(MethodOf(op), h, utt, "live")>>)
  /\ stalled' = (stalled \/ Asked(bus))

Plus(h, k) == [timers EXCEPT ![h][k] = @ + 1]
Minus(h, k) == [timers EXCEPT ![h][k] = @ - 1]

(* A notification is added only for an application that registered for it.  *)
Notify(h, k) == timers' = IF client[h].cb THEN Plus(h, k) ELSE timers

NoticePending == \E h \in Handle : \E k \in Notice : timers[h][k] > 0

(* g_client_list is empty: tts_dbus_close_connection.  The bus answers a    *)
(* hello that is still unanswered.                                          *)
Closed(b) ==
  [wire |-> <<>>, held |-> <<>>,
   inbox |-> NoLonger(b.inbox, {"live", "late"}, "none") \o
             IF Asked(b) THEN <<Ent("no", NoHandle, NoUtt, "none")>> ELSE <<>>,
   kept |-> NoLonger(b.kept, {"live", "late"}, "none"),
   result |-> "none"]

(* The process stops waiting: its reply will be late, what it read stays.   *)
GivenUp(b) == [wire |-> <<>>, held |-> b.held \o b.wire,
               inbox |-> NoLonger(b.inbox, {"live"}, "late"),
               kept |-> NoLonger(b.kept, {"live"}, "late"),
               result |-> "none"]

-------------------------------------------------------------------------------
(* Calls of the application.                                               *)

(* tts_create                                                              *)
Create(h) ==
  /\ request = NoRequest
  /\ client[h].life = "unborn"
  /\ client' = [client EXCEPT ![h] = NewHandle]
  /\ UNCHANGED <<timers, due, caller, request, bus, seen, news, spoiled, stalled>>

(* tts_set_*_cb and tts_unset_*_cb, all four at a time, in CREATED only.    *)
SetCallbacks(h, registered) ==
  /\ MayCall(h) /\ client[h].state = "CREATED"
  /\ client' = [client EXCEPT ![h].cb = registered]
  /\ seen' = [seen EXCEPT ![h] = "CREATED"]
  /\ UNCHANGED <<timers, due, caller, request, bus, news, spoiled,
                 stalled>>

(* tts_prepare: the connection is made by a timer.                          *)
Prepare(h) ==
  /\ MayCall(h) /\ client[h].state = "CREATED"
  /\ timers[h]["connect"] < MaxTimers
  /\ timers' = Plus(h, "connect")
  /\ UNCHANGED <<client, due, caller, request, bus, seen, news,
                 spoiled, stalled>>

(* tts_destroy of a handle that was never connected, or lost its session.   *)
DestroyCreated(h) ==
  /\ MayCall(h) /\ client[h].state = "CREATED" /\ caller # h
  /\ client' = [client EXCEPT ![h] = Freed]
  /\ bus' = IF \E g \in Handle \ {h} : Listed(g) THEN bus ELSE Closed(bus)
  /\ UNCHANGED <<timers, due, caller, request, seen, news, spoiled,
                 stalled>>

(* tts_destroy in a callback of the handle itself, in CREATED: the process  *)
(* waits for cb_ref_count for ever.                                         *)
DestroyInCallback(h) ==
  /\ MayCall(h) /\ client[h].state = "CREATED" /\ caller = h
  /\ client' = [client EXCEPT ![h].life = "freeing"]
  /\ request' = [h |-> h, op |-> "destroy"]
  /\ stalled' = (stalled \/ Asked(bus))
  /\ UNCHANGED <<timers, due, caller, bus, seen, news, spoiled>>

(* The calls that ask the daemon, with the states they are accepted in.     *)
(* "query": tts_foreach_supported_voices, tts_get_default_voice.            *)
Accepted(op) ==
  CASE op \in {"unprepare", "query"} -> {"READY"}
    [] op \in {"destroy", "add", "stop"} -> {"READY", "PLAYING", "PAUSED"}
    [] op = "play" -> {"READY", "PAUSED"}
    [] op = "pause" -> {"PLAYING"}
    [] OTHER -> {}

Calls(h, op) ==
  /\ op # "add"
  /\ MayCall(h) /\ client[h].state \in Accepted(op)
  /\ Room /\ timers[h]["state"] < MaxTimers
  /\ Asks(h, op, NoUtt, bus)
  /\ UNCHANGED <<client, timers, due, caller, seen, news, spoiled>>

(* tts_add_text: the id is used up whatever the daemon answers.             *)
AddText(h) ==
  /\ MayCall(h) /\ client[h].state \in Accepted("add")
  /\ Room
  /\ client[h].lastId < MaxUtt
  /\ client' = [client EXCEPT ![h].lastId = @ + 1]
  /\ Asks(h, "add", client[h].lastId + 1, bus)
  /\ UNCHANGED <<timers, due, caller, seen, news, spoiled>>

-------------------------------------------------------------------------------
(* A call goes on when its reply arrives, or when it has waited too long.   *)
(* b: what is on the bus then.                                              *)

(* __tts_connect_daemon, after hello: the timer stays if nobody answered.   *)
HelloReplied(ok, b) ==
  /\ request.op = "hello"
  /\ IF ok THEN Asks(request.h, "initialize", NoUtt, b)
           ELSE request' = NoRequest /\ bus' = b /\ UNCHANGED stalled
  /\ UNCHANGED <<client, timers>>

(* __tts_connect_daemon, after initialize.                                  *)
InitializeReplied(ok, b) ==
  LET h == request.h IN
  /\ request.op = "initialize"
  /\ request' = NoRequest /\ bus' = b
  /\ IF ok
       THEN /\ client' = [client EXCEPT ![h].state = "READY"]
            /\ timers' = [timers EXCEPT ![h]["connect"] = @ - 1,
                                        ![h]["state"] = @ + 1]
       ELSE /\ client' = [client EXCEPT ![h].utt = NoUtt]
            /\ timers' = [timers EXCEPT ![h]["connect"] = @ - 1,
                                        ![h]["error"] = @ + 1]
  /\ UNCHANGED stalled

(* tts_unprepare: CREATED, whatever the daemon said.                        *)
UnprepareReplied(ok, b) ==
  LET h == request.h IN
  /\ request.op = "unprepare"
  /\ request' = NoRequest /\ bus' = b
  /\ client' = [client EXCEPT ![h].state = "CREATED"]
  /\ timers' = Plus(h, "state")
  /\ UNCHANGED stalled

(* tts_destroy: the handle is freed, unless its own callback still runs;    *)
(* the last one closes the connection.                                      *)
DestroyReplied(ok, b) ==
  LET h == request.h
      others == \E g \in Handle \ {h} : Listed(g)
  IN /\ request.op = "destroy"
     /\ IF caller = h
          THEN /\ client' = [client EXCEPT ![h].life = "freeing"]
               /\ bus' = b /\ UNCHANGED request
          ELSE /\ client' = [client EXCEPT ![h] = Freed]
               /\ request' = NoRequest
               /\ bus' = IF others THEN b ELSE Closed(b)
     /\ UNCHANGED <<timers, stalled>>

StateAfter == [play |-> "PLAYING", stop |-> "READY", pause |-> "PAUSED"]

(* tts_play, tts_stop, tts_pause: nothing changes when the daemon refused.  *)
StateReplied(ok, b) ==
  LET h == request.h IN
  /\ request.op \in {"play", "stop", "pause"}
  /\ request' = NoRequest /\ bus' = b
  /\ IF ok THEN /\ client' = [client EXCEPT ![h].state = StateAfter[request.op]]
                /\ Notify(h, "state")
           ELSE UNCHANGED <<client, timers>>
  /\ UNCHANGED stalled

(* tts_add_text and the queries only hand the result on.                    *)
OtherReplied(ok, b) ==
  /\ request.op \in {"add", "query"}
  /\ request' = NoRequest /\ bus' = b
  /\ UNCHANGED <<client, timers, stalled>>

Replied(ok, b) ==
  /\ \/ HelloReplied(ok, b) \/ InitializeReplied(ok, b)
     \/ UnprepareReplied(ok, b) \/ DestroyReplied(ok, b)
     \/ StateReplied(ok, b) \/ OtherReplied(ok, b)
  /\ UNCHANGED <<due, caller, seen, news>>

Waiting == request # NoRequest /\ ~\E h \in Handle : client[h].life = "freeing"

(* The reply is there: what came with it is held.                           *)
Return ==
  /\ Waiting
  /\ \E i \in DOMAIN bus.wire :
       /\ bus.wire[i].kind = "reply"
       /\ \E r \in Awaited(bus.held, bus.wire, i) :
            Replied(bus.result = "ok",
                    [bus EXCEPT !.held = r.queue, !.wire = r.sock,
                                !.result = "none"])
  /\ UNCHANGED spoiled

(* 1 s, 5 s for most requests: the call gives up, the request remains.      *)
TimeOut ==
  /\ Waiting
  /\ \A i \in DOMAIN bus.wire : bus.wire[i].kind # "reply"
  /\ Replied(FALSE, GivenUp(bus))
  /\ spoiled' = spoiled \cup {request.h}

-------------------------------------------------------------------------------
(* The main loop of the application.                                       *)

Looping == request = NoRequest /\ caller = NoHandle

(* The timer of tts_prepare.  It does not look at the state of the handle.  *)
ConnectDaemon(h) ==
  /\ Looping /\ timers[h]["connect"] > 0 /\ Room
  /\ \A k \in {"state", "error"} : timers[h][k] < MaxTimers
  /\ IF Listed(h)
       THEN Asks(h, "hello", NoUtt, bus) /\ UNCHANGED timers
       ELSE timers' = Minus(h, "connect") /\ UNCHANGED <<request, bus, stalled>>
  /\ UNCHANGED <<client, due, caller, seen, news, spoiled>>

(* __tts_notify_*: the callback gets what the handle says now.              *)
FireNotice(h, k) ==
  /\ Looping /\ timers[h][k] > 0
  /\ timers' = Minus(h, k)
  /\ due' = (due /\ NoticePending')
  /\ news' = IF k \in {"started", "completed"} /\ timers[h][k] = 1
               THEN [news EXCEPT ![h][k] = NoUtt] ELSE news
  /\ IF Listed(h) /\ client[h].cb
       THEN /\ caller' = h
            /\ seen' = IF k = "state" THEN [seen EXCEPT ![h] = client[h].state]
                                      ELSE seen
       ELSE UNCHANGED <<caller, seen>>
  /\ UNCHANGED <<client, request, bus, spoiled, stalled>>

CallbackReturns ==
  /\ request = NoRequest /\ caller # NoHandle
  /\ caller' = NoHandle
  /\ UNCHANGED <<client, timers, due, request, bus, seen, news, spoiled,
                 stalled>>

(* What the daemon gets for a message that the dispatcher consumed.         *)
ErrorFor(lost) ==
  IF lost = <<>> \/ lost[1].kind = "late" THEN <<>>
  ELSE <<Ent(IF lost[1].kind = "hello" THEN "no" ELSE "stale", NoHandle, NoUtt,
             "none")>>

(* Mutant of HandleState: a change ordered by the daemon is not notified.   *)
HandleStateSilently(m) ==
  /\ m.kind = "state"
  /\ client' = IF Listed(m.h) THEN [client EXCEPT ![m.h].state = m.state]
                              ELSE client
  /\ UNCHANGED <<timers, news>>

(* __tts_cb_set_state                                                       *)
HandleState(m) ==
  /\ m.kind = "state"
  /\ IF Listed(m.h) /\ client[m.h].state # m.state
       THEN /\ client' = [client EXCEPT ![m.h].state = m.state]
            /\ Notify(m.h, "state")
       ELSE UNCHANGED <<client, timers>>
  /\ UNCHANGED news

(* __tts_cb_utt_started, __tts_cb_utt_completed, __tts_cb_error             *)
HandleUtterance(m) ==
  /\ m.kind \in {"started", "completed", "error"}
  /\ IF Listed(m.h)
       THEN /\ client' = [client EXCEPT ![m.h].utt = m.utt]
            /\ Notify(m.h, m.kind)
            /\ news' = IF m.kind = "error" \/ ~client[m.h].cb THEN news
                       ELSE [news EXCEPT ![m.h][m.kind] = m.utt]
       ELSE UNCHANGED <<client, timers, news>>

(* A late reply is dropped, a hello only answered.                          *)
HandleOther(m) ==
  /\ m.kind \in {"hello", "void", "late"}
  /\ UNCHANGED <<client, timers, news>>

(* Mutant of AnswerTo: a handle counts only while it is prepared.           *)
AnswerToPrepared(m) ==
  CASE m.kind = "hello" ->
         <<Ent(IF Listed(m.h) /\ client[m.h].state # "CREATED" THEN "yes" ELSE "no",
               NoHandle, NoUtt, "none")>>
    [] m.kind = "void" -> <<Ent("stale", NoHandle, NoUtt, "none")>>
    [] OTHER -> <<>>

(* A hello is answered by whether the handle is in g_client_list.           *)
AnswerTo(m) ==
  CASE m.kind = "hello" ->
         <<Ent(IF Listed(m.h) THEN "yes" ELSE "no", NoHandle, NoUtt, "none")>>
    [] m.kind = "void" -> <<Ent("stale", NoHandle, NoUtt, "none")>>
    [] OTHER -> <<>>

(* Mutant of LoopTurns: a message is handled before the notifications of    *)
(* the one before have run.                                                 *)
LoopTurnsAlways == TRUE

(* The notifications that the last message left pending have run.           *)
LoopTurns == ~due

(* listener_event_callback                                                  *)
Listener ==
  /\ Looping /\ LoopTurns
  /\ Connected /\ bus.wire # <<>>
  /\ \E r \in Taken(bus.held, bus.wire) :
       /\ bus' = ToDaemon([bus EXCEPT !.held = r.queue, !.wire = r.sock],
                          ErrorFor(r.lost) \o
                          IF r.got = <<>> THEN <<>> ELSE AnswerTo(r.got[1]))
       /\ IF r.got = <<>>
            THEN UNCHANGED <<client, timers, news>>
            ELSE \/ HandleState(r.got[1]) \/ HandleUtterance(r.got[1])
                 \/ HandleOther(r.got[1])
  /\ due' = NoticePending'
  /\ UNCHANGED <<caller, request, seen, spoiled, stalled>>

(* The process ends, at any point.                                          *)
Exit ==
  /\ Connected
  /\ client' = [h \in Handle |-> IF Listed(h) \/ client[h].life = "freeing"
                                   THEN Freed
                                   ELSE client[h]]
  /\ timers' = [h \in Handle |-> NoTimers]
  /\ due' = FALSE
  /\ caller' = NoHandle
  /\ request' = NoRequest
  /\ bus' = Closed(bus)
  /\ spoiled' = spoiled \cup {h \in Handle : client'[h] # client[h]}
  /\ UNCHANGED <<seen, news, stalled>>

Application ==
  \/ \E h \in Handle :
       \/ Create(h) \/ Prepare(h) \/ AddText(h)
       \/ \E registered \in BOOLEAN : SetCallbacks(h, registered)
       \/ \E op \in Call : Calls(h, op)
       \/ DestroyCreated(h) \/ DestroyInCallback(h)
  \/ Exit

MainLoop ==
  \/ \E h \in Handle : ConnectDaemon(h) \/ \E k \in Notice : FireNotice(h, k)
  \/ CallbackReturns \/ Return \/ TimeOut \/ Listener
===============================================================================
