------------------------------ MODULE TtsSetting -------------------------------
(***************************************************************************)
(* Setting applications and tts-daemon: client/tts_setting.c and           *)
(* tts_setting_dbus.c on one end of the bus, the list of setting           *)
(* applications in the daemon and its handlers on the other.               *)
(*                                                                         *)
(* A setting application is one thread.  A call blocks until its reply, an *)
(* error of the bus or a time-out; the asynchronous initialize goes on in  *)
(* timers of the main loop.  The connection is its own and has no          *)
(* listener: what it does not wait for is never looked at.                 *)
(*                                                                         *)
(* In full: who is connected and registered, what a lost or late request   *)
(* leaves behind, and who starts the daemon.  One request with values      *)
(* stands for those that set speed, voice, engine and the engine's own     *)
(* settings; here they only have an order.  What they do to engine, file   *)
(* and clients, and with which answers, is EngineAgent and TtsdServer.     *)
(* Not here: the reason that the callback is given.                        *)
(***************************************************************************)
EXTENDS Naturals, Sequences, FiniteSets, DBusQueue

CONSTANTS
  App,         \* setting applications, by pid
  NoApp,       \* any other process that asks the daemon
  Value,       \* the values that are set
  NoValue,     \* not a value
  Fails,       \* what may fail in this run
  MaxTimers,   \* bound: timers of one kind pending in an application
  MaxQueue,    \* bound: requests the daemon has not handled
  MaxStarting  \* bound: daemons that are starting at a time

ASSUME AppAssumption == NoApp \notin App
ASSUME ValueAssumption == NoValue \notin Value
ASSUME FailsAssumption == Fails \subseteq {"engine", "load", "set", "crash"}
ASSUME SettingBoundsAssumption ==
  /\ MaxTimers \in Nat \ {0} /\ MaxQueue \in Nat \ {0}
  /\ MaxStarting \in Nat \ {0}

VARIABLES
  app,         \* the memory of an application
  reply,       \* what the call that blocks has got
  up,          \* a tts-daemon owns its name on the bus
  starting,    \* daemons that were forked and do not own the name yet
  isEngine,    \* g_is_engine
  registered,  \* g_setting_list
  inbox,       \* requests on their way to the daemon
  kept,        \* requests that libdbus holds there
  forgot,      \* history: registrations that ended with a daemon
  spoiled,     \* history: applications with a request that got no answer
  told,        \* history: the value an application's last set reported
  served       \* history: the value of an application's last set that was handled

queueVars == <<inbox, kept>>
daemonVars == <<up, starting, isEngine, registered>>
historyVars == <<forgot, spoiled, told, served>>
vars == <<app, reply, up, starting, isEngine, registered, inbox, kept, forgot,
          spoiled, told, served>>

(* Calls that block.  "initialize" is tts_setting_initialize; "connect" is  *)
(* the timer of tts_setting_initialize_async; "*hello" their first request. *)
Call == {"hello", "initialize", "connect hello", "connect", "finalize", "get",
         "set"}

(* state: g_state; conn: g_conn is not NULL; connect, notify: pending       *)
(* timers; started: g_is_daemon_started; tries: the request of initialize;  *)
(* value: what set asks for.                                                *)
Memory == [state: {"NONE", "READY"}, conn: BOOLEAN, connect: Nat, notify: Nat,
           started: BOOLEAN, call: Call \cup {"none"}, tries: Nat,
           value: Value \cup {NoValue}]
NewMemory == [state |-> "NONE", conn |-> FALSE, connect |-> 0, notify |-> 0,
              started |-> FALSE, call |-> "none", tries |-> 0,
              value |-> NoValue]

(* A request; live: its sender waits.  "other": from a client, or from a    *)
(* setting application that is none of App.                                 *)
Method == {"hello", "initialize", "finalize", "get", "set", "other"}
Request == [op: Method, a: App \cup {NoApp}, value: Value \cup {NoValue},
            live: BOOLEAN]

(* TTSD_ERROR_*.  "failed" and "refused" are answers; "error" is none.      *)
Result == {"ok", "refused", "noengine", "failed", "error"}

TypeOK ==
  /\ app \in [App -> Memory]
  /\ reply \in [App -> Result \cup {"none"}]
  /\ up \in BOOLEAN
  /\ starting \in Nat
  /\ isEngine \in BOOLEAN
  /\ registered \subseteq App
  /\ inbox \in Seq(Request)
  /\ kept \in Seq(Request)
  /\ forgot \subseteq App
  /\ spoiled \subseteq App
  /\ told \in [App -> Value \cup {NoValue}]
  /\ served \in [App -> Value \cup {NoValue}]

Init ==
  /\ app = [a \in App |-> NewMemory]
  /\ reply = [a \in App |-> "none"]
  /\ up = FALSE
  /\ starting = 0
  /\ isEngine = FALSE
  /\ registered = {}
  /\ inbox = <<>>
  /\ kept = <<>>
  /\ forgot = {}
  /\ spoiled = {}
  /\ told = [a \in App |-> NoValue]
  /\ served = [a \in App |-> NoValue]

-------------------------------------------------------------------------------
(* Helpers of the applications.                                            *)

Looping(a) == app[a].call = "none"

(* What the daemon has not handled, in order.                              *)
Queue == kept \o inbox
Req(op, a, value, live) == [op |-> op, a |-> a, value |-> value, live |-> live]

(* The bound on the requests that wait.                                     *)
Room == Len(Queue) < MaxQueue

(* tts_setting_dbus_request_*: the request leaves, after what is on its     *)
(* way already, or the bus answers at once that there is no daemon.         *)
Asks(a, op, value, before) ==
  IF up THEN /\ Room
             /\ inbox' = Append(before, Req(op, a, value, TRUE))
             /\ reply' = [reply EXCEPT ![a] = "none"]
        ELSE /\ reply' = [reply EXCEPT ![a] = "error"]
             /\ inbox' = before

(* __check_tts_daemon: forks unless ps shows a daemon; one that was forked  *)
(* and has not reached execl is not seen.                                   *)
CheckDaemon ==
  \/ up /\ UNCHANGED starting
  \/ starting > 0 /\ UNCHANGED starting
  \/ /\ ~up /\ starting < MaxStarting
     /\ starting' = starting + 1

(* The call ends.                                                          *)
Returns(a, memory, before) ==
  /\ app' = [app EXCEPT ![a] = [memory EXCEPT !.call = "none", !.tries = 0,
                                              !.value = NoValue]]
  /\ reply' = [reply EXCEPT ![a] = "none"]
  /\ inbox' = before

(* An answer that ends what a request without answer spoiled.              *)
Settled(a, res) ==
  IF res = "error" THEN spoiled \cup {a}
  ELSE IF res = "ok" THEN spoiled \ {a} ELSE spoiled

-------------------------------------------------------------------------------
(* Calls.                                                                  *)

(* tts_setting_initialize: the connection that is there is used.           *)
Initialize(a) ==
  /\ Looping(a) /\ app[a].state = "NONE"
  /\ app' = [app EXCEPT ![a].conn = TRUE, ![a].call = "hello"]
  /\ Asks(a, "hello", NoValue, inbox)
  /\ UNCHANGED <<kept, daemonVars, historyVars>>

(* tts_setting_initialize_async: whether one is under way is not asked.    *)
InitializeAsync(a) ==
  /\ Looping(a) /\ app[a].state = "NONE"
  /\ app[a].connect < MaxTimers
  /\ app' = [app EXCEPT ![a].conn = TRUE, ![a].connect = @ + 1]
  /\ UNCHANGED <<reply, queueVars, daemonVars, historyVars>>

(* Mutant of Finalize: whether the application is READY is not asked.       *)
FinalizeAnyTime(a) ==
  /\ Looping(a)
  /\ app' = [app EXCEPT ![a].call = "finalize"]
  /\ Asks(a, "finalize", NoValue, inbox)
  /\ UNCHANGED <<kept, daemonVars, historyVars>>

Finalize(a) ==
  /\ Looping(a) /\ app[a].state = "READY"
  /\ app' = [app EXCEPT ![a].call = "finalize"]
  /\ Asks(a, "finalize", NoValue, inbox)
  /\ UNCHANGED <<kept, daemonVars, historyVars>>

(* The calls that read: engines, voices, the defaults, engine settings.    *)
Get(a) ==
  /\ Looping(a) /\ app[a].state = "READY"
  /\ app' = [app EXCEPT ![a].call = "get"]
  /\ Asks(a, "get", NoValue, inbox)
  /\ UNCHANGED <<kept, daemonVars, historyVars>>

(* The calls that change them.                                             *)
Set(a, v) ==
  /\ Looping(a) /\ app[a].state = "READY"
  /\ app' = [app EXCEPT ![a].call = "set", ![a].value = v]
  /\ Asks(a, "set", v, inbox)
  /\ told' = [told EXCEPT ![a] = NoValue]
  /\ UNCHANGED <<kept, daemonVars, forgot, spoiled, served>>

-------------------------------------------------------------------------------
(* A call goes on with what it got.  res: the answer, or "error" when the   *)
(* bus reported one or nothing came in time; before: what is on its way to  *)
(* the daemon then.                                                         *)

(* Sends a further request from the memory it has then.                     *)
GoesOn(a, memory, op, before) ==
  /\ app' = [app EXCEPT ![a] = memory]
  /\ Asks(a, op, NoValue, before)

(* tts_setting_initialize after hello: looks for a daemon if none answered. *)
HelloReplied(a, res, before) ==
  /\ app[a].call = "hello"
  /\ GoesOn(a, [app[a] EXCEPT !.call = "initialize", !.tries = 1],
            "initialize", before)
  /\ IF res = "ok" THEN UNCHANGED starting ELSE CheckDaemon
  /\ UNCHANGED historyVars

(* tts_setting_initialize: asks up to three times, a second apart.          *)
InitializeReplied(a, res, before) ==
  /\ app[a].call = "initialize"
  /\ \/ /\ res = "ok"
        /\ Returns(a, [app[a] EXCEPT !.state = "READY"], before)
     \/ /\ res = "noengine" \/ (res # "ok" /\ app[a].tries = 3)
        /\ Returns(a, app[a], before)
     \/ /\ res \notin {"ok", "noengine"} /\ app[a].tries < 3
        /\ GoesOn(a, [app[a] EXCEPT !.tries = @ + 1], "initialize", before)
  /\ spoiled' = Settled(a, res)
  /\ UNCHANGED <<starting, forgot, told, served>>

(* Mutant of ConnectHelloReplied: the timer is not kept when hello fails.   *)
ConnectHelloRepliedOnce(a, res, before) ==
  /\ app[a].call = "connect hello"
  /\ \/ /\ res = "ok"
        /\ GoesOn(a, [app[a] EXCEPT !.call = "connect"], "initialize", before)
        /\ UNCHANGED starting
     \/ /\ res # "ok"
        /\ Returns(a, [app[a] EXCEPT !.started = TRUE, !.connect = @ - 1], before)
        /\ IF app[a].started THEN UNCHANGED starting ELSE CheckDaemon
  /\ UNCHANGED historyVars

(* __tts_setting_connect_daemon after hello: only the first time does it    *)
(* start the daemon; the timer stays.                                       *)
ConnectHelloReplied(a, res, before) ==
  /\ app[a].call = "connect hello"
  /\ \/ /\ res = "ok"
        /\ GoesOn(a, [app[a] EXCEPT !.call = "connect"], "initialize", before)
        /\ UNCHANGED starting
     \/ /\ res # "ok"
        /\ Returns(a, [app[a] EXCEPT !.started = TRUE], before)
        /\ IF app[a].started THEN UNCHANGED starting ELSE CheckDaemon
  /\ UNCHANGED historyVars

(* The same after initialize: asked once; the callback is due either way.   *)
ConnectReplied(a, res, before) ==
  /\ app[a].call = "connect"
  /\ Returns(a, [app[a] EXCEPT !.state = IF res = "ok" THEN "READY" ELSE @,
                               !.connect = @ - 1, !.notify = @ + 1], before)
  /\ spoiled' = Settled(a, res)
  /\ UNCHANGED <<starting, forgot, told, served>>

Closed(a) == [app[a] EXCEPT !.state = "NONE", !.conn = FALSE]

(* Mutant of FinalizeReplied: no answer is a failure, as it is to all the   *)
(* other requests.                                                          *)
FinalizeRepliedStrictly(a, res, before) ==
  /\ app[a].call = "finalize"
  /\ Returns(a, IF res = "ok" THEN Closed(a) ELSE app[a], before)
  /\ spoiled' = Settled(a, res)
  /\ UNCHANGED <<starting, forgot, told, served>>

(* Mutant of FinalizeReplied: it takes away a timer that need not be there. *)
FinalizeRepliedCancels(a, res, before) ==
  /\ app[a].call = "finalize"
  /\ Returns(a, [Closed(a) EXCEPT !.connect = @ - 1], before)
  /\ spoiled' = Settled(a, res)
  /\ UNCHANGED <<starting, forgot, told, served>>

(* tts_setting_finalize: no answer is a success; the connection is closed.  *)
FinalizeReplied(a, res, before) ==
  /\ app[a].call = "finalize"
  /\ Returns(a, IF res \in {"ok", "error"} THEN Closed(a) ELSE app[a], before)
  /\ spoiled' = Settled(a, res)
  /\ UNCHANGED <<starting, forgot, told, served>>

(* Mutant of SetReplied: no answer is a success, as it is to finalize.      *)
SetRepliedLightly(a, res, before) ==
  /\ app[a].call = "set"
  /\ Returns(a, app[a], before)
  /\ told' = IF res \in {"ok", "error"}
               THEN [told EXCEPT ![a] = app[a].value] ELSE told
  /\ UNCHANGED <<starting, forgot, spoiled, served>>

(* The others only hand the result on.                                      *)
SetReplied(a, res, before) ==
  /\ app[a].call = "set"
  /\ Returns(a, app[a], before)
  /\ told' = IF res = "ok" THEN [told EXCEPT ![a] = app[a].value] ELSE told
  /\ UNCHANGED <<starting, forgot, spoiled, served>>

GetReplied(a, res, before) ==
  /\ app[a].call = "get"
  /\ Returns(a, app[a], before)
  /\ UNCHANGED <<starting, historyVars>>

Replied(a, res, before) ==
  /\ \/ HelloReplied(a, res, before) \/ InitializeReplied(a, res, before)
     \/ ConnectHelloReplied(a, res, before) \/ ConnectReplied(a, res, before)
     \/ FinalizeReplied(a, res, before)
     \/ SetReplied(a, res, before) \/ GetReplied(a, res, before)
  /\ UNCHANGED <<up, isEngine, registered>>

(* dbus_connection_send_with_reply_and_block has a reply or an error.       *)
Return(a) ==
  /\ reply[a] # "none"
  /\ Replied(a, reply[a], inbox)
  /\ UNCHANGED kept

(* Nobody waits for what a sent any more.                                   *)
Quiet(a, q) ==
  [i \in DOMAIN q |-> IF q[i].a = a THEN [q[i] EXCEPT !.live = FALSE] ELSE q[i]]

(* 500 ms for hello, 3 s for the others: the request stays with the daemon. *)
TimeOut(a) ==
  /\ ~Looping(a) /\ reply[a] = "none"
  /\ Replied(a, "error", Quiet(a, inbox))
  /\ kept' = Quiet(a, kept)

-------------------------------------------------------------------------------
(* The main loop of an application.                                        *)

(* __tts_setting_connect_daemon.  Without a connection libdbus returns at   *)
(* once what is no reply.                                                   *)
ConnectDaemon(a) ==
  /\ Looping(a) /\ app[a].connect > 0 /\ app[a].notify < MaxTimers
  /\ app' = [app EXCEPT ![a].call = "connect hello"]
  /\ IF app[a].conn THEN Asks(a, "hello", NoValue, inbox)
                    ELSE reply' = [reply EXCEPT ![a] = "error"] /\ UNCHANGED inbox
  /\ UNCHANGED <<kept, daemonVars, historyVars>>

(* __tts_setting_initialized: the application's callback.                   *)
Initialized(a) ==
  /\ Looping(a) /\ app[a].notify > 0
  /\ app' = [app EXCEPT ![a].notify = @ - 1]
  /\ UNCHANGED <<reply, queueVars, daemonVars, historyVars>>

(* The process ends, at any point, and its pid is given to another one.     *)
Exit(a) ==
  /\ app[a] # NewMemory
  /\ app' = [app EXCEPT ![a] = NewMemory]
  /\ reply' = [reply EXCEPT ![a] = "none"]
  /\ inbox' = Quiet(a, inbox) /\ kept' = Quiet(a, kept)
  /\ spoiled' = spoiled \cup {a}
  /\ told' = [told EXCEPT ![a] = NoValue]
  /\ UNCHANGED <<daemonVars, forgot, served>>

-------------------------------------------------------------------------------
(* The daemon: ttsd_dbus_server_setting_*, ttsd_server_setting_*.  e: the   *)
(* request; got: the replies so far.                                        *)

Answered(e, got, res) == IF e.live THEN [got EXCEPT ![e.a] = res] ELSE got
Answers(e, got, res) == reply' = Answered(e, got, res)

ServeHello(e, got) ==
  /\ e.op = "hello"
  /\ Answers(e, got, "ok")
  /\ UNCHANGED <<up, isEngine, registered, forgot, served>>

(* ttsd_server_setting_initialize: an engine is looked for if there was     *)
(* none; a registered pid is refused; the engine is loaded for the first    *)
(* user, who may be a client of TtsdServer.                                 *)
ServeInitialize(e, got) ==
  /\ e.op = "initialize"
  /\ \/ /\ ~isEngine /\ "engine" \in Fails
        /\ Answers(e, got, "noengine")
        /\ UNCHANGED <<isEngine, registered, forgot>>
     \/ /\ isEngine' = TRUE
        /\ e.a \in registered
        /\ Answers(e, got, "refused")
        /\ UNCHANGED <<registered, forgot>>
     \/ /\ isEngine' = TRUE
        /\ registered = {} /\ "load" \in Fails
        /\ Answers(e, got, "failed")
        /\ UNCHANGED <<registered, forgot>>
     \/ /\ isEngine' = TRUE
        /\ e.a \notin registered
        /\ Answers(e, got, "ok")
        /\ registered' = registered \cup {e.a}
        /\ forgot' = forgot \ {e.a}
  /\ UNCHANGED <<up, served>>

NeedsRegistration == {"finalize", "get", "set"}

(* A pid that is not registered is refused, unless CrashOfRefusal.          *)
Refuses(e, got) ==
  /\ e.op \in NeedsRegistration /\ e.a \notin registered
  /\ Answers(e, got, "refused")
  /\ UNCHANGED <<up, isEngine, registered, forgot, served>>

(* Mutant of ServeFinalize: the pid stays in the list.                      *)
ServeFinalizeKeeping(e, got) ==
  /\ e.op = "finalize" /\ e.a \in registered
  /\ Answers(e, got, "ok")
  /\ UNCHANGED <<up, isEngine, registered, forgot, served>>

ServeFinalize(e, got) ==
  /\ e.op = "finalize" /\ e.a \in registered
  /\ Answers(e, got, "ok")
  /\ registered' = registered \ {e.a}
  /\ UNCHANGED <<up, isEngine, forgot, served>>

ServeGet(e, got) ==
  /\ e.op = "get" /\ e.a \in registered
  /\ \E res \in {"ok", "failed"} :
       /\ res = "ok" \/ "set" \in Fails
       /\ Answers(e, got, res)
  /\ UNCHANGED <<up, isEngine, registered, forgot, served>>

(* What a set that succeeds or fails does to engine, memory and file is in  *)
(* EngineAgent; here only which one was handled.                           *)
ServeSet(e, got) ==
  /\ e.op = "set" /\ e.a \in registered
  /\ \E res \in {"ok", "failed"} :
       /\ res = "ok" \/ "set" \in Fails
       /\ Answers(e, got, res)
  /\ served' = [served EXCEPT ![e.a] = e.value]
  /\ UNCHANGED <<up, isEngine, registered, forgot>>

ServeOther(e, got) ==
  /\ e.op = "other"
  /\ Answers(e, got, "ok")
  /\ UNCHANGED <<up, isEngine, registered, forgot, served>>

Serve(e, got) ==
  \/ ServeHello(e, got) \/ ServeInitialize(e, got) \/ Refuses(e, got)
  \/ ServeFinalize(e, got) \/ ServeGet(e, got) \/ ServeSet(e, got)
  \/ ServeOther(e, got)

(* The replies after the lost request, if any, was answered by libdbus.     *)
AfterLoss(lost) == IF lost = <<>> THEN reply ELSE Answered(lost[1], reply, "error")

(* listener_event_callback of ttsd_dbus.c                                   *)
Listens(r) ==
  /\ kept' = r.queue /\ inbox' = r.sock
  /\ IF r.got = <<>>
       THEN /\ reply' = AfterLoss(r.lost)
            /\ UNCHANGED <<up, isEngine, registered, forgot, served>>
       ELSE Serve(r.got[1], AfterLoss(r.lost))
  /\ UNCHANGED <<app, starting, spoiled, told>>

Listener == up /\ inbox # <<>> /\ \E r \in Taken(kept, inbox) : Listens(r)

(* A daemon that was forked initializes and takes its name on the bus; it   *)
(* ends when another one owns that (ttsd_dbus_open_connection).             *)
Start ==
  /\ starting > 0
  /\ starting' = starting - 1
  /\ IF up THEN UNCHANGED <<up, isEngine>>
           ELSE /\ up' = TRUE
                /\ isEngine' \in {TRUE, "engine" \notin Fails}
  /\ UNCHANGED <<app, reply, queueVars, registered, historyVars>>

(* An application of TtsClient forks it as well.                            *)
StartedByOthers ==
  /\ ~up /\ starting < MaxStarting
  /\ starting' = starting + 1
  /\ UNCHANGED <<app, reply, queueVars, up, isEngine, registered, historyVars>>

(* The request of any other process; its end of the connection is not here. *)
OtherAsks ==
  /\ up /\ Room
  /\ inbox' = Append(inbox, Req("other", NoApp, NoValue, FALSE))
  /\ UNCHANGED <<app, reply, kept, daemonVars, historyVars>>

(* The daemon dies; the bus answers for it.                                 *)
Waiting == {a \in App : \E i \in DOMAIN Queue : Queue[i].a = a /\ Queue[i].live}

Dies ==
  /\ up' = FALSE
  /\ isEngine' = FALSE
  /\ registered' = {}
  /\ inbox' = <<>> /\ kept' = <<>>
  /\ reply' = [a \in App |-> IF a \in Waiting THEN "error" ELSE reply[a]]
  /\ forgot' = App
  /\ UNCHANGED <<app, starting, spoiled, told, served>>

Crash == up /\ "crash" \in Fails /\ Dies

(* Refuses writes the pid to the log as if it were a string: the process    *)
(* may read any address there.                                              *)
CrashOfRefusal ==
  /\ up /\ inbox # <<>>
  /\ \E r \in Taken(kept, inbox) :
       /\ r.got # <<>>
       /\ r.got[1].op \in NeedsRegistration /\ r.got[1].a \notin registered
  /\ Dies

-------------------------------------------------------------------------------
Calls(a) ==
  \/ Initialize(a) \/ InitializeAsync(a) \/ Finalize(a) \/ Get(a)
  \/ \E v \in Value : Set(a, v)

Unblocks(a) == Return(a) \/ TimeOut(a)

MainLoop(a) == Unblocks(a) \/ ConnectDaemon(a) \/ Initialized(a)

Daemon == Listener \/ Start

Next ==
  \/ \E a \in App : Calls(a) \/ MainLoop(a) \/ Exit(a)
  \/ Daemon \/ StartedByOthers \/ OtherAsks \/ Crash \/ CrashOfRefusal

Spec == Init /\ [][Next]_vars

(* The daemon goes on.  A call that blocks ends (strongly fair, as Room may *)
(* be in its way now and then); a due timer runs some time, whatever else   *)
(* its application does.                                                    *)
Fairness ==
  /\ WF_vars(Start) /\ WF_vars(Listener)
  /\ \A a \in App : SF_vars(Unblocks(a)) /\ SF_vars(ConnectDaemon(a))

FairSpec == Spec /\ Fairness

-------------------------------------------------------------------------------
(* Properties.                                                             *)

(* tts_setting_initialize "connect to tts-daemon" (tts_setting.h): an       *)
(* application that is READY is registered in the daemon it initialized     *)
(* with, whichever requests were lost, late or answered to a timer.         *)
ReadyIsRegistered ==
  \A a \in App \ forgot :
    app[a].state = "READY" /\ app[a].call # "finalize" => a \in registered

(* Every request that needs a registration will find it, unless the daemon  *)
(* was restarted under its application: also the ones that nobody waits for *)
(* any more, and those of a pid that was used before.  Otherwise refusing   *)
(* them may crash the daemon (CrashOfRefusal).                              *)
RequestsFindRegistered ==
  \A i \in DOMAIN Queue :
    Queue[i].op \in NeedsRegistration /\ Queue[i].a \notin forgot
      => /\ Queue[i].a \in registered
         /\ \A j \in 1 .. i - 1 :
              ~(Queue[j].a = Queue[i].a /\ Queue[j].op = "finalize")

(* The daemon never cleans g_setting_list up.  A registration without an    *)
(* application that is READY is left behind only by an initialize or        *)
(* finalize that got no answer, or by the end of the process.               *)
NothingRegisteredBehind ==
  \A a \in registered \ spoiled :
    app[a].state = "READY" \/ app[a].call \in {"initialize", "connect"}

(* A set that was reported as done is the last set of its application that  *)
(* the daemon handled, for as long as the application asks for no other     *)
(* one: none that it gave up (after 3 s) is handled behind it and changes   *)
(* again what was reported.                                                *)
ReportedSetIsLast ==
  \A a \in App : told[a] # NoValue => served[a] = told[a]

(* After some time the daemon lives on, answers in time and has no request  *)
(* from elsewhere.  A hello has 500 ms; nothing in the code bounds how long *)
(* others keep the daemon from it, or has it lost behind theirs.            *)
Settles ==
  <>[][~(Dies \/ OtherAsks \/ \E a \in App : TimeOut(a))]_vars

(* tts_setting_initialized_cb is "Called to initialize setting"             *)
(* (tts_setting.h): when the daemon settles, an asynchronous initialize     *)
(* comes to its callback, whatever was lost, late or restarted before,      *)
(* unless finalize closed the connection under its timer or the daemon died *)
(* after the application used its one attempt to start it.                  *)
AsyncIsAnswered ==
  Settles => \A a \in App :
    app[a].connect > 0 ~>
      app[a].notify > 0 \/ ~app[a].conn \/ (~up /\ starting = 0 /\ app[a].started)
===============================================================================
