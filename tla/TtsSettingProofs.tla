-------------------------- MODULE TtsSettingProofs ---------------------------
(***************************************************************************)
(* TtsSetting is type correct; a setting application that is READY is      *)
(* registered, its late requests find what they expect, nothing stays      *)
(* registered behind it but by a lost answer, and no set it gave up is     *)
(* handled after one it was told of: for any number of setting             *)
(* applications and any bounds, with every failure and restart of the      *)
(* daemon.                                                                 *)
(***************************************************************************)
EXTENDS TtsSetting, DBusQueueProofs

-------------------------------------------------------------------------------
(* Types.                                                                  *)

(* The requests that are made: a set has a value, and nobody of App waits   *)
(* for a request from elsewhere.                                            *)
Sent == {e \in Request : /\ e.op = "set" => e.value \in Value
                         /\ e.op = "other" <=> e.a = NoApp
                         /\ e.op = "other" => ~e.live}

(* A timer that blocks is still pending.                                   *)
TypeInv ==
  /\ TypeOK
  /\ inbox \in Seq(Sent) /\ kept \in Seq(Sent)
  /\ \A a \in App :
       /\ app[a].call \in {"connect hello", "connect"} => app[a].connect > 0
       /\ app[a].call = "set" => app[a].value \in Value

-------------------------------------------------------------------------------
(* Safety.                                                                 *)

(* The request that a call waits with.                                     *)
Asked(call) ==
  CASE call \in {"hello", "connect hello"} -> "hello"
    [] call \in {"initialize", "connect"} -> "initialize"
    [] OTHER -> call

Registers(a) == app[a].call \in {"initialize", "connect"}

(* What a waits for is its last request, and its call is about that one; an *)
(* answer leaves none of its requests behind.  q: the requests that wait,   *)
(* rep: the replies.                                                        *)
Waits(a, q, rep) ==
  /\ \A i \in 1 .. Len(q) : q[i].a = a /\ q[i].live =>
       /\ rep[a] = "none"
       /\ q[i].op = Asked(app[a].call)
       /\ q[i].op = "set" => q[i].value = app[a].value
       /\ \A j \in i + 1 .. Len(q) : q[j].a # a
  /\ rep[a] \notin {"none", "error"} => \A i \in 1 .. Len(q) : q[i].a # a

(* No finalize of an application that is READY waits, and nothing that      *)
(* needs a registration waits behind a finalize.                            *)
Orders(a, q) ==
  /\ app[a].state = "READY" /\ app[a].call # "finalize" =>
       \A i \in 1 .. Len(q) : ~(q[i].a = a /\ q[i].op = "finalize")
  /\ \A i, j \in 1 .. Len(q) :
       i < j /\ q[i].a = a /\ q[i].op = "finalize" /\ q[j].a = a
         => q[j].op \notin NeedsRegistration

(* Whoever may ask for something is registered.  reg: registered; fg:       *)
(* forgot.                                                                  *)
Registered(a, q, rep, reg, fg) ==
  /\ a \in fg =>  a \notin reg
  /\ app[a].state = "READY" /\ app[a].call # "finalize" => a \in reg \cup fg
  /\ Registers(a) /\ rep[a] = "ok" => a \in reg \cup fg
  /\ app[a].call = "finalize" /\ rep[a] \notin {"none", "ok", "error"} => a \in fg
  /\ \A i \in 1 .. Len(q) :
       q[i].a = a /\ q[i].op \in NeedsRegistration => a \in reg \cup fg

(* An initialize that nobody waits for has spoiled its application.  What   *)
(* is registered otherwise is READY, or is told ok.                         *)
Tidy(a, q, rep, reg) ==
  /\ \A i \in 1 .. Len(q) :
       q[i].a = a /\ q[i].op = "initialize" /\ ~q[i].live => a \in spoiled
  /\ app[a].call = "finalize" /\ rep[a] = "ok" => a \notin reg
  /\ a \in reg \ spoiled =>
       app[a].state = "READY" \/ (Registers(a) /\ rep[a] = "ok")

(* A set that is reported is the last one handled, and no other one of a is *)
(* to come.  s: what was handled last.                                      *)
Reports(a, q, rep, s) ==
  /\ app[a].call = "set" /\ rep[a] = "ok" => s = app[a].value
  /\ told[a] # NoValue =>
       \A i \in 1 .. Len(q) : ~(q[i].a = a /\ q[i].op = "set")
  /\ told[a] # NoValue => s = told[a]

AppInv(a, q, rep, reg, fg, s) ==
  /\ Waits(a, q, rep)
  /\ Orders(a, q)
  /\ Registered(a, q, rep, reg, fg)
  /\ Tidy(a, q, rep, reg)
  /\ Reports(a, q, rep, s)

SettingInv ==
  \A a \in App : AppInv(a, Queue, reply, registered, forgot, served[a])

-------------------------------------------------------------------------------
(* The types of requests and answers.                                      *)

LEMMA ReqIsSent ==
  ASSUME NEW op \in Method \ {"other"}, NEW a \in App,
         NEW v \in Value \cup {NoValue}, op = "set" => v \in Value
  PROVE  Req(op, a, v, TRUE) \in Sent
<1>1. a # NoApp
  BY AppAssumption
<1> QED BY <1>1 DEF Req, Sent, Request

LEMMA SentIsRequest ==
  ASSUME NEW q \in Seq(Sent)
  PROVE  q \in Seq(Request)
<1>1. \A i \in 1 .. Len(q) : q[i] \in Request
  BY ElementOfSeq DEF Sent
<1> QED BY <1>1

LEMMA AsksType ==
  ASSUME TypeInv, NEW a \in App, NEW op \in Method \ {"other"},
         NEW v \in Value \cup {NoValue}, op = "set" => v \in Value,
         NEW before \in Seq(Sent), Asks(a, op, v, before)
  PROVE  inbox' \in Seq(Sent) /\ reply' \in [App -> Result \cup {"none"}]
<1>1. reply \in [App -> Result \cup {"none"}]
  BY DEF TypeInv, TypeOK
<1>2. CASE up
  <2>1. Req(op, a, v, TRUE) \in Sent
    BY ReqIsSent
  <2>2. /\ inbox' = Append(before, Req(op, a, v, TRUE))
        /\ reply' = [reply EXCEPT ![a] = "none"]
    BY <1>2 DEF Asks
  <2>3. inbox' \in Seq(Sent)
    BY <2>1, <2>2, AppendProperties
  <2> QED BY <1>1, <2>2, <2>3
<1>3. CASE ~up
  <2>1. inbox' = before /\ reply' = [reply EXCEPT ![a] = "error"]
    BY <1>3 DEF Asks
  <2> QED BY <1>1, <2>1 DEF Result
<1> QED BY <1>2, <1>3

LEMMA QuietType ==
  ASSUME NEW q \in Seq(Sent), NEW a \in App
  PROVE  /\ Quiet(a, q) \in Seq(Sent) /\ Len(Quiet(a, q)) = Len(q)
         /\ \A i \in 1 .. Len(q) :
              /\ Quiet(a, q)[i].op = q[i].op
              /\ Quiet(a, q)[i].a = q[i].a
              /\ Quiet(a, q)[i].value = q[i].value
              /\ Quiet(a, q)[i].live <=> q[i].live /\ q[i].a # a
<1>1. Len(q) \in Nat /\ DOMAIN q = 1 .. Len(q)
  BY LenProperties
<1>2. \A i \in 1 .. Len(q) : q[i] \in Sent
  BY ElementOfSeq
<1>3. \A e \in Sent : [e EXCEPT !.live = FALSE] \in Sent
  BY DEF Sent, Request
<1>4. Quiet(a, q) \in [1 .. Len(q) -> Sent]
  BY <1>1, <1>2, <1>3 DEF Quiet
<1>5. Quiet(a, q) \in Seq(Sent) /\ Len(Quiet(a, q)) = Len(q)
  BY <1>1, <1>4
<1>6. ASSUME NEW i \in 1 .. Len(q)
      PROVE  /\ Quiet(a, q)[i].op = q[i].op
             /\ Quiet(a, q)[i].a = q[i].a
             /\ Quiet(a, q)[i].value = q[i].value
             /\ Quiet(a, q)[i].live <=> q[i].live /\ q[i].a # a
  <2>1. Quiet(a, q)[i] = IF q[i].a = a THEN [q[i] EXCEPT !.live = FALSE] ELSE q[i]
    BY <1>1 DEF Quiet
  <2> QED BY <1>2, <2>1 DEF Sent, Request
<1> QED BY <1>5, <1>6

-------------------------------------------------------------------------------
(* The types after a step.                                                 *)

(* What applications leave alone.                                          *)
LEMMA AppStepType ==
  ASSUME TypeInv, UNCHANGED <<up, isEngine, registered, forgot, served>>,
         app' \in [App -> Memory], reply' \in [App -> Result \cup {"none"}],
         starting' \in Nat, spoiled' \subseteq App,
         told' \in [App -> Value \cup {NoValue}],
         inbox' \in Seq(Sent), kept' \in Seq(Sent),
         NEW a \in App, \A b \in App \ {a} : app'[b] = app[b],
         /\ app'[a].call \in {"connect hello", "connect"} => app'[a].connect > 0
         /\ app'[a].call = "set" => app'[a].value \in Value
  PROVE  TypeInv'
<1>1. \A q \in Seq(Sent) : q \in Seq(Request)
  BY SentIsRequest
<1>2. TypeOK'
  BY <1>1 DEF TypeInv, TypeOK
<1>3. \A b \in App :
        /\ app'[b].call \in {"connect hello", "connect"} => app'[b].connect > 0
        /\ app'[b].call = "set" => app'[b].value \in Value
  BY DEF TypeInv
<1> QED BY <1>2, <1>3 DEF TypeInv

LEMMA NewMemoryType == NewMemory \in Memory
BY DEF NewMemory, Memory

LEMMA MemoryUpdate ==
  ASSUME TypeInv, NEW a \in App, NEW m \in Memory, app' = [app EXCEPT ![a] = m]
  PROVE  /\ app' \in [App -> Memory] /\ app'[a] = m
         /\ \A b \in App \ {a} : app'[b] = app[b]
BY DEF TypeInv, TypeOK

LEMMA ReturnsType ==
  ASSUME TypeInv, NEW a \in App, NEW m \in Memory, NEW before \in Seq(Sent),
         Returns(a, m, before)
  PROVE  /\ app' \in [App -> Memory]
         /\ app'[a] = [m EXCEPT !.call = "none", !.tries = 0, !.value = NoValue]
         /\ \A b \in App \ {a} : app'[b] = app[b]
         /\ reply' \in [App -> Result \cup {"none"}] /\ inbox' \in Seq(Sent)
<1> DEFINE n == [m EXCEPT !.call = "none", !.tries = 0, !.value = NoValue]
<1>1. n \in Memory
  BY DEF Memory
<1>2. app' = [app EXCEPT ![a] = n]
  BY DEF Returns
<1>3. /\ app' \in [App -> Memory] /\ app'[a] = n
      /\ \A b \in App \ {a} : app'[b] = app[b]
  <2> HIDE DEF n
  <2> QED BY <1>1, <1>2, MemoryUpdate
<1>4. reply' \in [App -> Result \cup {"none"}] /\ inbox' \in Seq(Sent)
  BY DEF Returns, TypeInv, TypeOK
<1> QED BY <1>3, <1>4

LEMMA GoesOnType ==
  ASSUME TypeInv, NEW a \in App, NEW m \in Memory, NEW before \in Seq(Sent),
         GoesOn(a, m, "initialize", before)
  PROVE  /\ app' \in [App -> Memory] /\ app'[a] = m
         /\ \A b \in App \ {a} : app'[b] = app[b]
         /\ reply' \in [App -> Result \cup {"none"}] /\ inbox' \in Seq(Sent)
<1>1. app' = [app EXCEPT ![a] = m] /\ Asks(a, "initialize", NoValue, before)
  BY DEF GoesOn
<1>2. /\ app' \in [App -> Memory] /\ app'[a] = m
      /\ \A b \in App \ {a} : app'[b] = app[b]
  BY <1>1, MemoryUpdate
<1>3. "initialize" \in Method \ {"other"} /\ NoValue \in Value \cup {NoValue}
  BY DEF Method
<1>4. reply' \in [App -> Result \cup {"none"}] /\ inbox' \in Seq(Sent)
  BY <1>1, <1>3, AsksType
<1> QED BY <1>2, <1>4

LEMMA CheckDaemonType ==
  ASSUME TypeInv, CheckDaemon
  PROVE  starting' \in Nat
<1>1. starting \in Nat
  BY DEF TypeInv, TypeOK
<1> QED BY <1>1 DEF CheckDaemon

LEMMA SettledType ==
  ASSUME TypeInv, NEW a \in App, NEW res
  PROVE  Settled(a, res) \subseteq App
BY DEF Settled, TypeInv, TypeOK

LEMMA ReturnsStepType ==
  ASSUME TypeInv, NEW a \in App, NEW m \in Memory, NEW before \in Seq(Sent),
         Returns(a, m, before),
         UNCHANGED <<up, isEngine, registered, forgot, served>>,
         starting' \in Nat, spoiled' \subseteq App,
         told' \in [App -> Value \cup {NoValue}], kept' \in Seq(Sent)
  PROVE  TypeInv'
<1>1. /\ app' \in [App -> Memory]
      /\ app'[a] = [m EXCEPT !.call = "none", !.tries = 0, !.value = NoValue]
      /\ \A b \in App \ {a} : app'[b] = app[b]
      /\ reply' \in [App -> Result \cup {"none"}] /\ inbox' \in Seq(Sent)
  BY ReturnsType
<1>2. app'[a].call = "none"
  BY <1>1 DEF Memory
<1> QED BY <1>1, <1>2, AppStepType

LEMMA GoesOnStepType ==
  ASSUME TypeInv, NEW a \in App, NEW m \in Memory, NEW before \in Seq(Sent),
         GoesOn(a, m, "initialize", before),
         UNCHANGED <<up, isEngine, registered, forgot, served>>,
         starting' \in Nat, spoiled' \subseteq App,
         told' \in [App -> Value \cup {NoValue}], kept' \in Seq(Sent),
         m.call \in {"initialize", "connect"},
         m.call = "connect" => m.connect > 0
  PROVE  TypeInv'
<1>1. /\ app' \in [App -> Memory] /\ app'[a] = m
      /\ \A b \in App \ {a} : app'[b] = app[b]
      /\ reply' \in [App -> Result \cup {"none"}] /\ inbox' \in Seq(Sent)
  BY GoesOnType
<1>2. /\ app'[a].call \in {"connect hello", "connect"} => app'[a].connect > 0
      /\ app'[a].call = "set" => app'[a].value \in Value
  BY <1>1
<1> QED BY <1>1, <1>2, AppStepType

(* The timer that blocked ends, and the one of the callback is set.         *)
LEMMA ConnectedMemory ==
  ASSUME TypeInv, NEW a \in App, NEW res, app[a].call = "connect"
  PROVE  [app[a] EXCEPT !.state = IF res = "ok" THEN "READY" ELSE @,
                        !.connect = @ - 1, !.notify = @ + 1] \in Memory
<1>1. app[a] \in Memory /\ app[a].connect > 0
  BY DEF TypeInv, TypeOK
<1>2. app[a].connect \in Nat /\ app[a].notify \in Nat
  BY <1>1 DEF Memory
<1>3. app[a].connect - 1 \in Nat /\ app[a].notify + 1 \in Nat
  BY <1>1, <1>2
<1>4. \A c, n \in Nat, st \in {"NONE", "READY"} :
        [app[a] EXCEPT !.state = st, !.connect = c, !.notify = n] \in Memory
  BY <1>1 DEF Memory
<1>5. (IF res = "ok" THEN "READY" ELSE app[a].state) \in {"NONE", "READY"}
  BY <1>1 DEF Memory
<1> QED BY <1>3, <1>4, <1>5

(* A call that got an answer, or none.                                     *)
LEMMA RepliedType ==
  ASSUME TypeInv, NEW a \in App, NEW res \in Result, NEW before \in Seq(Sent),
         Replied(a, res, before), kept' \in Seq(Sent)
  PROVE  TypeInv'
<1>1. app[a] \in Memory
  BY DEF TypeInv, TypeOK
<1>2. UNCHANGED <<up, isEngine, registered>>
  BY DEF Replied
<1>3. /\ starting \in Nat /\ spoiled \subseteq App
      /\ told \in [App -> Value \cup {NoValue}] /\ Settled(a, res) \subseteq App
  BY SettledType DEF TypeInv, TypeOK
<1>4. CASE HelloReplied(a, res, before)
  <2> DEFINE m == [app[a] EXCEPT !.call = "initialize", !.tries = 1]
  <2>1. m \in Memory /\ m.call = "initialize"
    BY <1>1 DEF Memory, Call
  <2>2. GoesOn(a, m, "initialize", before)
    BY <1>4 DEF HelloReplied
  <2>3. starting' \in Nat /\ UNCHANGED historyVars
    BY <1>3, <1>4, CheckDaemonType DEF HelloReplied
  <2> HIDE DEF m
  <2> QED BY <1>2, <1>3, <2>1, <2>2, <2>3, GoesOnStepType DEF historyVars
<1>5. CASE InitializeReplied(a, res, before)
  <2>1. /\ UNCHANGED <<starting, forgot, told, served>>
        /\ spoiled' \subseteq App
    BY <1>3, <1>5 DEF InitializeReplied
  <2>2. ASSUME NEW m \in Memory, Returns(a, m, before)
        PROVE  TypeInv'
    BY <1>2, <1>3, <2>1, <2>2, ReturnsStepType
  <2>3. ASSUME NEW m \in Memory, m.call = "initialize",
               GoesOn(a, m, "initialize", before)
        PROVE  TypeInv'
    BY <1>2, <1>3, <2>1, <2>3, GoesOnStepType
  <2>4. /\ [app[a] EXCEPT !.state = "READY"] \in Memory
        /\ [app[a] EXCEPT !.tries = @ + 1] \in Memory
        /\ [app[a] EXCEPT !.tries = @ + 1].call = app[a].call
    BY <1>1 DEF Memory
  <2> QED BY <1>1, <1>5, <2>2, <2>3, <2>4 DEF InitializeReplied
<1>6. CASE ConnectHelloReplied(a, res, before)
  <2>1. UNCHANGED historyVars /\ starting' \in Nat
    BY <1>3, <1>6, CheckDaemonType DEF ConnectHelloReplied
  <2>2. CASE GoesOn(a, [app[a] EXCEPT !.call = "connect"], "initialize", before)
    <3> DEFINE m == [app[a] EXCEPT !.call = "connect"]
    <3>1. m \in Memory /\ m.call = "connect" /\ m.connect = app[a].connect
      BY <1>1 DEF Memory, Call
    <3>2. m.connect > 0
      BY <1>6, <3>1 DEF ConnectHelloReplied, TypeInv
    <3>3. GoesOn(a, m, "initialize", before)
      BY <2>2
    <3> HIDE DEF m
    <3> QED BY <1>2, <1>3, <2>1, <3>1, <3>2, <3>3, GoesOnStepType
            DEF historyVars
  <2>3. CASE Returns(a, [app[a] EXCEPT !.started = TRUE], before)
    <3>1. [app[a] EXCEPT !.started = TRUE] \in Memory
      BY <1>1 DEF Memory
    <3> QED BY <1>2, <1>3, <2>1, <2>3, <3>1, ReturnsStepType DEF historyVars
  <2> QED BY <1>6, <2>2, <2>3 DEF ConnectHelloReplied
<1>7. CASE ConnectReplied(a, res, before)
  <2> DEFINE m == [app[a] EXCEPT !.state = IF res = "ok" THEN "READY" ELSE @,
                                 !.connect = @ - 1, !.notify = @ + 1]
  <2>1. m \in Memory
    BY <1>7, ConnectedMemory DEF ConnectReplied
  <2>2. Returns(a, m, before) /\ UNCHANGED <<starting, forgot, told, served>>
        /\ spoiled' \subseteq App
    BY <1>3, <1>7 DEF ConnectReplied
  <2> HIDE DEF m
  <2> QED BY <1>2, <1>3, <2>1, <2>2, ReturnsStepType
<1>8. CASE FinalizeReplied(a, res, before)
  <2>1. Closed(a) \in Memory
    BY <1>1 DEF Closed, Memory
  <2> DEFINE m == IF res \in {"ok", "error"} THEN Closed(a) ELSE app[a]
  <2>2. Returns(a, m, before) /\ UNCHANGED <<starting, forgot, told, served>>
        /\ spoiled' \subseteq App
    BY <1>3, <1>8 DEF FinalizeReplied
  <2>3. m \in Memory
    BY <1>1, <2>1
  <2> HIDE DEF m
  <2> QED BY <1>2, <1>3, <2>2, <2>3, ReturnsStepType
<1>9. CASE SetReplied(a, res, before) \/ GetReplied(a, res, before)
  <2>1. Returns(a, app[a], before)
        /\ UNCHANGED <<starting, forgot, spoiled, served>>
    BY <1>9 DEF SetReplied, GetReplied, historyVars
  <2>2. told' \in [App -> Value \cup {NoValue}]
    <3>1. app[a].value \in Value \cup {NoValue}
      BY <1>1 DEF Memory
    <3> QED BY <1>3, <1>9, <3>1 DEF SetReplied, GetReplied, historyVars
  <2> QED BY <1>1, <1>2, <1>3, <2>1, <2>2, ReturnsStepType
<1> QED BY <1>4, <1>5, <1>6, <1>7, <1>8, <1>9 DEF Replied

(* A step in the memory of an application that is in its loop.             *)
LEMMA QuietStepType ==
  ASSUME TypeInv, NEW a \in App, NEW m \in Memory, m.call = "none",
         app' = [app EXCEPT ![a] = m],
         UNCHANGED <<reply, queueVars, daemonVars, historyVars>>
  PROVE  TypeInv'
<1>1. /\ app' \in [App -> Memory] /\ app'[a] = m
      /\ \A b \in App \ {a} : app'[b] = app[b]
  BY MemoryUpdate
<1>2. /\ starting' \in Nat /\ spoiled' \subseteq App /\ kept' \in Seq(Sent)
      /\ inbox' \in Seq(Sent) /\ told' \in [App -> Value \cup {NoValue}]
      /\ reply' \in [App -> Result \cup {"none"}]
      /\ UNCHANGED <<up, isEngine, registered, forgot, served>>
  BY DEF queueVars, daemonVars, historyVars, TypeInv, TypeOK
<1> QED BY <1>1, <1>2, AppStepType

(* A call that begins.                                                     *)
LEMMA AsksStepType ==
  ASSUME TypeInv, NEW a \in App, NEW m \in Memory, NEW op \in Method \ {"other"},
         NEW v \in Value \cup {NoValue}, op = "set" => v \in Value,
         app' = [app EXCEPT ![a] = m], Asks(a, op, v, inbox),
         m.call = "connect hello" => m.connect > 0, m.call # "connect",
         m.call = "set" => m.value \in Value,
         UNCHANGED <<kept, daemonVars, forgot, spoiled, served>>,
         told' \in [App -> Value \cup {NoValue}]
  PROVE  TypeInv'
<1>1. /\ app' \in [App -> Memory] /\ app'[a] = m
      /\ \A b \in App \ {a} : app'[b] = app[b]
  BY MemoryUpdate
<1>2. inbox \in Seq(Sent) /\ kept \in Seq(Sent)
  BY DEF TypeInv
<1>3. inbox' \in Seq(Sent) /\ reply' \in [App -> Result \cup {"none"}]
  BY <1>2, AsksType
<1>4. starting' \in Nat /\ spoiled' \subseteq App /\ kept' \in Seq(Sent)
  BY <1>2 DEF daemonVars, TypeInv, TypeOK
<1>5. UNCHANGED <<up, isEngine, registered, forgot, served>>
  BY DEF daemonVars
<1> QED BY <1>1, <1>3, <1>4, <1>5, AppStepType

LEMMA CallsType ==
  ASSUME TypeInv, NEW a \in App, Calls(a)
  PROVE  TypeInv'
<1>1. app[a] \in Memory /\ told \in [App -> Value \cup {NoValue}]
  BY DEF TypeInv, TypeOK
<1>2. app[a].call = "none"
  BY DEF Calls, Initialize, InitializeAsync, Finalize, Get, Set, Looping
<1>3. CASE Initialize(a)
  <2> DEFINE m == [app[a] EXCEPT !.conn = TRUE, !.call = "hello"]
  <2>1. m \in Memory /\ m.call = "hello"
    BY <1>1 DEF Memory, Call
  <2>2. app' = [app EXCEPT ![a] = m] /\ Asks(a, "hello", NoValue, inbox)
        /\ UNCHANGED <<kept, daemonVars, forgot, spoiled, served, told>>
    BY <1>3 DEF Initialize, historyVars
  <2>3. "hello" \in Method \ {"other"}
    BY DEF Method
  <2> HIDE DEF m
  <2> QED BY <1>1, <2>1, <2>2, <2>3, AsksStepType
<1>4. CASE InitializeAsync(a)
  <2> DEFINE m == [app[a] EXCEPT !.conn = TRUE, !.connect = @ + 1]
  <2>1. m \in Memory /\ m.call = "none"
    <3>1. app[a].connect + 1 \in Nat
      BY <1>1 DEF Memory
    <3> QED BY <1>1, <1>2, <3>1 DEF Memory
  <2>2. app' = [app EXCEPT ![a] = m]
        /\ UNCHANGED <<reply, queueVars, daemonVars, historyVars>>
    BY <1>4 DEF InitializeAsync
  <2> HIDE DEF m
  <2> QED BY <2>1, <2>2, QuietStepType
<1>5. CASE Finalize(a)
  <2> DEFINE m == [app[a] EXCEPT !.call = "finalize"]
  <2>1. m \in Memory /\ m.call = "finalize"
    BY <1>1 DEF Memory, Call
  <2>2. app' = [app EXCEPT ![a] = m] /\ Asks(a, "finalize", NoValue, inbox)
        /\ UNCHANGED <<kept, daemonVars, forgot, spoiled, served, told>>
    BY <1>5 DEF Finalize, historyVars
  <2>3. "finalize" \in Method \ {"other"}
    BY DEF Method
  <2> HIDE DEF m
  <2> QED BY <1>1, <2>1, <2>2, <2>3, AsksStepType
<1>6. CASE Get(a)
  <2> DEFINE m == [app[a] EXCEPT !.call = "get"]
  <2>1. m \in Memory /\ m.call = "get"
    BY <1>1 DEF Memory, Call
  <2>2. app' = [app EXCEPT ![a] = m] /\ Asks(a, "get", NoValue, inbox)
        /\ UNCHANGED <<kept, daemonVars, forgot, spoiled, served, told>>
    BY <1>6 DEF Get, historyVars
  <2>3. "get" \in Method \ {"other"}
    BY DEF Method
  <2> HIDE DEF m
  <2> QED BY <1>1, <2>1, <2>2, <2>3, AsksStepType
<1>7. ASSUME NEW v \in Value, Set(a, v)
      PROVE  TypeInv'
  <2> DEFINE m == [app[a] EXCEPT !.call = "set", !.value = v]
  <2>1. m \in Memory /\ m.call = "set" /\ m.value = v
    BY <1>1 DEF Memory, Call
  <2>2. app' = [app EXCEPT ![a] = m] /\ Asks(a, "set", v, inbox)
        /\ UNCHANGED <<kept, daemonVars, forgot, spoiled, served>>
        /\ told' = [told EXCEPT ![a] = NoValue]
    BY <1>7 DEF Set
  <2>3. "set" \in Method \ {"other"}
    BY DEF Method
  <2>4. told' \in [App -> Value \cup {NoValue}]
    BY <1>1, <2>2
  <2> HIDE DEF m
  <2> QED BY <2>1, <2>2, <2>3, <2>4, AsksStepType
<1> QED BY <1>3, <1>4, <1>5, <1>6, <1>7 DEF Calls

LEMMA MainLoopType ==
  ASSUME TypeInv, NEW a \in App, MainLoop(a) \/ Exit(a)
  PROVE  TypeInv'
<1>1. /\ app[a] \in Memory /\ told \in [App -> Value \cup {NoValue}]
      /\ reply \in [App -> Result \cup {"none"}]
      /\ inbox \in Seq(Sent) /\ kept \in Seq(Sent)
  BY DEF TypeInv, TypeOK
<1>2. CASE Return(a)
  <2>1. reply[a] \in Result /\ kept' = kept /\ Replied(a, reply[a], inbox)
    BY <1>1, <1>2 DEF Return
  <2> QED BY <1>1, <2>1, RepliedType
<1>3. CASE TimeOut(a)
  <2>1. Quiet(a, inbox) \in Seq(Sent) /\ Quiet(a, kept) \in Seq(Sent)
    BY <1>1, QuietType
  <2>2. "error" \in Result /\ kept' = Quiet(a, kept)
        /\ Replied(a, "error", Quiet(a, inbox))
    BY <1>3 DEF TimeOut, Result
  <2> QED BY <2>1, <2>2, RepliedType
<1>4. CASE ConnectDaemon(a)
  <2> DEFINE m == [app[a] EXCEPT !.call = "connect hello"]
  <2>1. m \in Memory /\ m.call = "connect hello" /\ m.connect = app[a].connect
    BY <1>1 DEF Memory, Call
  <2>2. app' = [app EXCEPT ![a] = m] /\ app[a].connect > 0
        /\ UNCHANGED <<kept, daemonVars, forgot, spoiled, served, told>>
    BY <1>4 DEF ConnectDaemon, historyVars
  <2>3. "hello" \in Method \ {"other"}
    BY DEF Method
  <2>4. CASE Asks(a, "hello", NoValue, inbox)
    <3> HIDE DEF m
    <3> QED BY <1>1, <2>1, <2>2, <2>3, <2>4, AsksStepType
  <2>5. CASE reply' = [reply EXCEPT ![a] = "error"] /\ UNCHANGED inbox
    <3> HIDE DEF m
    <3>1. reply' \in [App -> Result \cup {"none"}]
      BY <1>1, <2>5 DEF Result
    <3>2. /\ app' \in [App -> Memory] /\ app'[a] = m
          /\ \A b \in App \ {a} : app'[b] = app[b]
      BY <2>1, <2>2, MemoryUpdate
    <3>3. /\ starting' \in Nat /\ spoiled' \subseteq App /\ kept' \in Seq(Sent)
          /\ inbox' \in Seq(Sent) /\ told' \in [App -> Value \cup {NoValue}]
      BY <1>1, <2>2, <2>5 DEF daemonVars, TypeInv, TypeOK
    <3>4. UNCHANGED <<up, isEngine, registered, forgot, served>>
      BY <2>2 DEF daemonVars
    <3>5. /\ app'[a].call \in {"connect hello", "connect"} => app'[a].connect > 0
          /\ app'[a].call = "set" => app'[a].value \in Value
      BY <2>1, <2>2, <3>2
    <3> QED BY <3>1, <3>2, <3>3, <3>4, <3>5, AppStepType
  <2> QED BY <1>4, <2>4, <2>5 DEF ConnectDaemon
<1>5. CASE Initialized(a)
  <2> DEFINE m == [app[a] EXCEPT !.notify = @ - 1]
  <2>1. m \in Memory /\ m.call = "none"
    <3>1. app[a].notify - 1 \in Nat /\ app[a].call = "none"
      BY <1>1, <1>5 DEF Initialized, Looping, Memory
    <3> QED BY <1>1, <3>1 DEF Memory
  <2>2. app' = [app EXCEPT ![a] = m]
        /\ UNCHANGED <<reply, queueVars, daemonVars, historyVars>>
    BY <1>5 DEF Initialized
  <2> HIDE DEF m
  <2> QED BY <2>1, <2>2, QuietStepType
<1>6. CASE Exit(a)
  <2>1. /\ app' \in [App -> Memory] /\ app'[a] = NewMemory
        /\ \A b \in App \ {a} : app'[b] = app[b]
    BY <1>6, NewMemoryType, MemoryUpdate DEF Exit
  <2>2. NewMemory.call = "none"
    BY DEF NewMemory
  <2>3. inbox' \in Seq(Sent) /\ kept' \in Seq(Sent)
    BY <1>1, <1>6, QuietType DEF Exit
  <2>4. /\ starting' \in Nat /\ spoiled' \subseteq App
        /\ UNCHANGED <<up, isEngine, registered, forgot, served>>
    BY <1>6 DEF Exit, daemonVars, TypeInv, TypeOK
  <2>5. told' \in [App -> Value \cup {NoValue}]
        /\ reply' \in [App -> Result \cup {"none"}]
    BY <1>1, <1>6 DEF Exit
  <2> QED BY <2>1, <2>2, <2>3, <2>4, <2>5, AppStepType
<1> QED BY <1>2, <1>3, <1>4, <1>5, <1>6 DEF MainLoop, Unblocks

(* What the daemon leaves alone.                                           *)
LEMMA DaemonStepType ==
  ASSUME TypeInv, UNCHANGED <<app, spoiled, told>>,
         reply' \in [App -> Result \cup {"none"}], up' \in BOOLEAN,
         starting' \in Nat, isEngine' \in BOOLEAN, registered' \subseteq App,
         served' \in [App -> Value \cup {NoValue}], forgot' \subseteq App,
         inbox' \in Seq(Sent), kept' \in Seq(Sent)
  PROVE  TypeInv'
<1>1. \A q \in Seq(Sent) : q \in Seq(Request)
  BY SentIsRequest
<1>2. TypeOK'
  BY <1>1 DEF TypeInv, TypeOK
<1> QED BY <1>2 DEF TypeInv

LEMMA AnsweredType ==
  ASSUME NEW e, NEW got \in [App -> Result \cup {"none"}], NEW res \in Result
  PROVE  Answered(e, got, res) \in [App -> Result \cup {"none"}]
BY DEF Answered

LEMMA ServeType ==
  ASSUME TypeInv, NEW e \in Sent, NEW got \in [App -> Result \cup {"none"}],
         Serve(e, got)
  PROVE  /\ reply' \in [App -> Result \cup {"none"}] /\ up' = up
         /\ isEngine' \in BOOLEAN /\ registered' \subseteq App
         /\ served' \in [App -> Value \cup {NoValue}] /\ forgot' \subseteq App
<1>1. /\ isEngine \in BOOLEAN /\ registered \subseteq App /\ served \in [App -> Value \cup {NoValue}]
      /\ forgot \subseteq App
  BY DEF TypeInv, TypeOK
<1>2. /\ e.op # "other" => e.a \in App
      /\ e.op = "set" => e.value \in Value
  BY DEF Sent, Request
<1>3. PICK res \in {"ok", "refused", "noengine", "failed"} : Answers(e, got, res)
  BY DEF Serve, ServeHello, ServeInitialize, Refuses, ServeFinalize, ServeGet,
         ServeSet, ServeOther
<1>4. reply' \in [App -> Result \cup {"none"}]
  BY <1>3, AnsweredType DEF Answers, Result
<1>5. CASE ServeHello(e, got) \/ Refuses(e, got) \/ ServeGet(e, got)
  BY <1>1, <1>4, <1>5 DEF ServeHello, Refuses, ServeGet
<1>6. CASE ServeInitialize(e, got)
  BY <1>1, <1>2, <1>4, <1>6 DEF ServeInitialize
<1>7. CASE ServeFinalize(e, got)
  BY <1>1, <1>4, <1>7 DEF ServeFinalize
<1>8. CASE ServeSet(e, got) \/ ServeOther(e, got)
  BY <1>1, <1>2, <1>4, <1>8 DEF ServeSet, ServeOther
<1> QED BY <1>5, <1>6, <1>7, <1>8 DEF Serve

LEMMA DiesType ==
  ASSUME TypeInv, Dies
  PROVE  TypeInv'
<1>1. <<>> \in Seq(Sent)
  BY EmptySeq
<1>2. reply' \in [App -> Result \cup {"none"}]
  BY DEF Dies, Result, TypeInv, TypeOK
<1>3. /\ UNCHANGED <<app, spoiled, told>> /\ up' \in BOOLEAN
      /\ isEngine' \in BOOLEAN /\ registered' \subseteq App
      /\ inbox' = <<>> /\ kept' = <<>> /\ forgot' \subseteq App
  BY DEF Dies
<1>4. starting' \in Nat /\ served' \in [App -> Value \cup {NoValue}]
  BY DEF Dies, TypeInv, TypeOK
<1> QED BY <1>1, <1>2, <1>3, <1>4, DaemonStepType

LEMMA ListensType ==
  ASSUME TypeInv, NEW r \in Taken(kept, inbox), Listens(r)
  PROVE  TypeInv'
<1>1. /\ reply \in [App -> Result \cup {"none"}] /\ starting \in Nat
      /\ up \in BOOLEAN /\ isEngine \in BOOLEAN
      /\ registered \subseteq App /\ served \in [App -> Value \cup {NoValue}]
      /\ forgot \subseteq App
      /\ inbox \in Seq(Sent) /\ kept \in Seq(Sent)
  BY DEF TypeInv, TypeOK
<1>2. /\ r.queue \in Seq(Sent) /\ r.sock \in Seq(Sent)
      /\ r.got # <<>> => r.got[1] \in Sent
  BY <1>1, TakenType
<1>3. AfterLoss(r.lost) \in [App -> Result \cup {"none"}]
  BY <1>1, AnsweredType DEF AfterLoss, Result
<1>4. /\ UNCHANGED <<app, spoiled, told, starting>>
      /\ inbox' \in Seq(Sent) /\ kept' \in Seq(Sent)
  BY <1>2 DEF Listens
<1>5. CASE r.got = <<>>
  <2>1. /\ reply' = AfterLoss(r.lost)
        /\ UNCHANGED <<up, isEngine, registered, forgot, served>>
    BY <1>5 DEF Listens
  <2> QED BY <1>1, <1>3, <1>4, <2>1, DaemonStepType
<1>6. CASE r.got # <<>>
  <2>1. Serve(r.got[1], AfterLoss(r.lost))
    BY <1>6 DEF Listens
  <2>2. /\ reply' \in [App -> Result \cup {"none"}] /\ up' = up
        /\ isEngine' \in BOOLEAN /\ registered' \subseteq App
        /\ served' \in [App -> Value \cup {NoValue}] /\ forgot' \subseteq App
    BY <1>2, <1>3, <1>6, <2>1, ServeType
  <2> QED BY <1>1, <1>4, <2>2, DaemonStepType
<1> QED BY <1>5, <1>6

LEMMA EnvironmentType ==
  ASSUME TypeInv, Start \/ StartedByOthers \/ OtherAsks
  PROVE  TypeInv'
<1>1. /\ reply \in [App -> Result \cup {"none"}] /\ starting \in Nat
      /\ up \in BOOLEAN /\ isEngine \in BOOLEAN
      /\ registered \subseteq App /\ served \in [App -> Value \cup {NoValue}]
      /\ forgot \subseteq App
      /\ inbox \in Seq(Sent) /\ kept \in Seq(Sent)
  BY DEF TypeInv, TypeOK
<1>2. CASE Start
  <2>1. starting' \in Nat
    BY <1>1, <1>2 DEF Start
  <2>2. up' \in BOOLEAN /\ isEngine' \in BOOLEAN
    BY <1>1, <1>2 DEF Start
  <2>3. UNCHANGED <<app, reply, inbox, kept, registered, forgot,
                    spoiled, told, served>>
    BY <1>2 DEF Start, queueVars, historyVars
  <2> QED BY <1>1, <2>1, <2>2, <2>3, DaemonStepType
<1>3. CASE StartedByOthers
  <2>1. starting' \in Nat
    BY <1>1, <1>3 DEF StartedByOthers
  <2>2. UNCHANGED <<app, reply, inbox, kept, up, isEngine, registered,
                    forgot, spoiled, told, served>>
    BY <1>3 DEF StartedByOthers, queueVars, historyVars
  <2> QED BY <1>1, <2>1, <2>2, DaemonStepType
<1>4. CASE OtherAsks
  <2>1. Req("other", NoApp, NoValue, FALSE) \in Sent
    BY DEF Req, Sent, Request, Method
  <2>2. inbox' = Append(inbox, Req("other", NoApp, NoValue, FALSE))
    BY <1>4 DEF OtherAsks
  <2>3. inbox' \in Seq(Sent)
    BY <1>1, <2>1, <2>2, AppendProperties
  <2>4. UNCHANGED <<app, reply, kept, up, isEngine, registered,
                    starting, forgot, spoiled, told, served>>
    BY <1>4 DEF OtherAsks, daemonVars, historyVars
  <2> QED BY <1>1, <2>3, <2>4, DaemonStepType
<1> QED BY <1>2, <1>3, <1>4

LEMMA TypeStep ==
  ASSUME TypeInv, [Next]_vars
  PROVE  TypeInv'
<1>1. CASE UNCHANGED vars
  <2>1. UNCHANGED <<app, reply, up, starting, isEngine, registered,
                    inbox, kept, forgot, spoiled, told, served>>
    BY <1>1 DEF vars
  <2> QED BY <2>1 DEF TypeInv, TypeOK
<1>2. ASSUME NEW a \in App, Calls(a) \/ MainLoop(a) \/ Exit(a)
      PROVE  TypeInv'
  BY <1>2, CallsType, MainLoopType
<1>3. CASE Daemon \/ StartedByOthers \/ OtherAsks
  BY <1>3, ListensType, EnvironmentType DEF Daemon, Listener
<1>4. CASE Crash \/ CrashOfRefusal
  BY <1>4, DiesType DEF Crash, CrashOfRefusal
<1> QED BY <1>1, <1>2, <1>3, <1>4 DEF Next

LEMMA TypeInit == Init => TypeInv
<1> SUFFICES ASSUME Init PROVE TypeInv
  OBVIOUS
<1>1. NewMemory \in Memory /\ NewMemory.call = "none"
  BY NewMemoryType DEF NewMemory
<1>2. <<>> \in Seq(Sent) /\ <<>> \in Seq(Request)
  BY EmptySeq
<1>3. app \in [App -> Memory] /\ \A a \in App : app[a] = NewMemory
  BY <1>1 DEF Init
<1>4. TypeOK
  BY <1>2, <1>3 DEF Init, TypeOK, Result
<1> QED BY <1>1, <1>2, <1>3, <1>4 DEF Init, TypeInv

(* Memory, requests, replies and the daemon keep their types; a timer that  *)
(* ends was pending.                                                        *)
THEOREM SettingTypeCorrect == Spec => []TypeOK
<1>1. Spec => []TypeInv
  BY TypeInit, TypeStep, PTL DEF Spec
<1>2. TypeInv => TypeOK
  BY DEF TypeInv
<1> QED BY <1>1, <1>2, PTL

-------------------------------------------------------------------------------
(* What a step does to the requests that wait.                             *)

(* r is q when nobody waits for what a sent.                               *)
Keeps(a, q, r) ==
  /\ Len(r) = Len(q)
  /\ \A i \in 1 .. Len(q) :
       /\ r[i].op = q[i].op /\ r[i].a = q[i].a /\ r[i].value = q[i].value
       /\ r[i].live <=> q[i].live /\ q[i].a # a

(* The same, and then a request that a waits for.                          *)
Gains(a, q, r, op, v) ==
  /\ Len(r) = Len(q) + 1
  /\ \A i \in 1 .. Len(q) :
       /\ r[i].op = q[i].op /\ r[i].a = q[i].a /\ r[i].value = q[i].value
       /\ r[i].live <=> q[i].live /\ q[i].a # a
  /\ r[Len(q) + 1].op = op /\ r[Len(q) + 1].a = a
  /\ r[Len(q) + 1].value = v /\ r[Len(q) + 1].live

(* Only others did anything.                                               *)
SameFor(b, q, r) ==
  /\ Len(q) <= Len(r)
  /\ \A i \in 1 .. Len(q) :
       /\ r[i].op = q[i].op /\ r[i].a = q[i].a /\ r[i].value = q[i].value
       /\ q[i].a = b => (r[i].live <=> q[i].live)
  /\ \A i \in Len(q) + 1 .. Len(r) : r[i].a # b

Sends(a, q, r, op, v) ==
  \/ Gains(a, q, r, op, v) /\ reply'[a] = "none"
  \/ Keeps(a, q, r) /\ reply'[a] = "error"

NoLive(a, q) == \A i \in 1 .. Len(q) : ~(q[i].live /\ q[i].a = a)

LEMMA Joined ==
  ASSUME NEW p \in Seq(Sent), NEW s \in Seq(Sent)
  PROVE  /\ p \o s \in Seq(Sent) /\ Len(p \o s) = Len(p) + Len(s)
         /\ Len(p) \in Nat /\ Len(s) \in Nat
         /\ \A i \in 1 .. Len(p) : (p \o s)[i] = p[i]
         /\ \A i \in Len(p) + 1 .. Len(p) + Len(s) : (p \o s)[i] = s[i - Len(p)]
<1>1. /\ p \o s \in Seq(Sent) /\ Len(p \o s) = Len(p) + Len(s)
      /\ \A i \in 1 .. Len(p) + Len(s) :
           (p \o s)[i] = IF i <= Len(p) THEN p[i] ELSE s[i - Len(p)]
  BY ConcatProperties
<1>2. Len(p) \in Nat /\ Len(s) \in Nat
  BY LenProperties
<1> QED BY <1>1, <1>2

LEMMA QueueType ==
  ASSUME NEW q \in Seq(Sent)
  PROVE  /\ Len(q) \in Nat
         /\ \A i \in 1 .. Len(q) :
              q[i] \in Sent /\ q[i].live \in BOOLEAN /\ q[i].op \in Method
<1>1. Len(q) \in Nat
  BY LenProperties
<1>2. \A i \in 1 .. Len(q) : q[i] \in Sent
  BY ElementOfSeq
<1> QED BY <1>1, <1>2 DEF Sent, Request

LEMMA QuietKeeps ==
  ASSUME NEW a \in App, NEW p \in Seq(Sent), NEW s \in Seq(Sent)
  PROVE  Keeps(a, p \o s, Quiet(a, p) \o Quiet(a, s))
<1> DEFINE q == p \o s
           r == Quiet(a, p) \o Quiet(a, s)
<1>1. /\ Len(q) = Len(p) + Len(s) /\ Len(p) \in Nat /\ Len(s) \in Nat
      /\ \A i \in 1 .. Len(p) : q[i] = p[i]
      /\ \A i \in Len(p) + 1 .. Len(p) + Len(s) : q[i] = s[i - Len(p)]
  BY Joined
<1>2. /\ Quiet(a, p) \in Seq(Sent) /\ Len(Quiet(a, p)) = Len(p)
      /\ Quiet(a, s) \in Seq(Sent) /\ Len(Quiet(a, s)) = Len(s)
  BY QuietType
<1>3. /\ Len(r) = Len(p) + Len(s)
      /\ \A i \in 1 .. Len(p) : r[i] = Quiet(a, p)[i]
      /\ \A i \in Len(p) + 1 .. Len(p) + Len(s) : r[i] = Quiet(a, s)[i - Len(p)]
  <2>1. /\ Len(r) = Len(Quiet(a, p)) + Len(Quiet(a, s))
        /\ \A i \in 1 .. Len(Quiet(a, p)) : r[i] = Quiet(a, p)[i]
        /\ \A i \in Len(Quiet(a, p)) + 1 .. Len(Quiet(a, p)) + Len(Quiet(a, s)) :
             r[i] = Quiet(a, s)[i - Len(Quiet(a, p))]
    BY <1>2, Joined
  <2> QED BY <1>2, <2>1
<1> HIDE DEF q, r
<1>4. ASSUME NEW i \in 1 .. Len(p)
      PROVE  /\ r[i].op = q[i].op /\ r[i].a = q[i].a /\ r[i].value = q[i].value
             /\ r[i].live <=> q[i].live /\ q[i].a # a
  BY <1>1, <1>3, QuietType
<1>5. ASSUME NEW i \in Len(p) + 1 .. Len(p) + Len(s)
      PROVE  /\ r[i].op = q[i].op /\ r[i].a = q[i].a /\ r[i].value = q[i].value
             /\ r[i].live <=> q[i].live /\ q[i].a # a
  <2>1. i - Len(p) \in 1 .. Len(s)
    BY <1>1
  <2> DEFINE j == i - Len(p)
  <2>2. /\ Quiet(a, s)[j].op = s[j].op /\ Quiet(a, s)[j].a = s[j].a
        /\ Quiet(a, s)[j].value = s[j].value
        /\ Quiet(a, s)[j].live <=> s[j].live /\ s[j].a # a
    BY <2>1, QuietType
  <2> QED BY <1>1, <1>3, <2>2
<1>6. Keeps(a, q, r)
  BY <1>1, <1>3, <1>4, <1>5 DEF Keeps
<1> QED BY <1>6 DEF q, r

LEMMA NobodyWaitsKeeps ==
  ASSUME NEW a \in App, NEW q \in Seq(Sent), NoLive(a, q)
  PROVE  Keeps(a, q, q)
BY QueueType DEF NoLive, Keeps

LEMMA AppendGains ==
  ASSUME NEW a \in App, NEW q \in Seq(Sent), NEW p \in Seq(Sent),
         NEW s \in Seq(Sent), NEW op \in Method \ {"other"},
         NEW v \in Value \cup {NoValue},
         op = "set" => v \in Value, Keeps(a, q, p \o s)
  PROVE  Gains(a, q, p \o Append(s, Req(op, a, v, TRUE)), op, v)
<1> DEFINE e == Req(op, a, v, TRUE)
           t == p \o s
           r == p \o Append(s, e)
<1>1. e \in Sent
  BY ReqIsSent
<1>2. e.op = op /\ e.a = a /\ e.value = v /\ e.live
  BY DEF Req
<1> HIDE DEF e
<1>3. /\ Append(s, e) \in Seq(Sent) /\ Len(Append(s, e)) = Len(s) + 1
      /\ \A i \in 1 .. Len(s) : Append(s, e)[i] = s[i]
      /\ Append(s, e)[Len(s) + 1] = e
  BY <1>1, AppendProperties
<1>4. /\ Len(t) = Len(p) + Len(s) /\ Len(p) \in Nat /\ Len(s) \in Nat
      /\ \A i \in 1 .. Len(p) : t[i] = p[i]
      /\ \A i \in Len(p) + 1 .. Len(p) + Len(s) : t[i] = s[i - Len(p)]
  BY Joined
<1>5. /\ Len(r) = Len(p) + (Len(s) + 1)
      /\ \A i \in 1 .. Len(p) : r[i] = p[i]
      /\ \A i \in Len(p) + 1 .. Len(p) + (Len(s) + 1) :
           r[i] = Append(s, e)[i - Len(p)]
  <2>1. /\ Len(r) = Len(p) + Len(Append(s, e))
        /\ \A i \in 1 .. Len(p) : r[i] = p[i]
        /\ \A i \in Len(p) + 1 .. Len(p) + Len(Append(s, e)) :
             r[i] = Append(s, e)[i - Len(p)]
    BY <1>3, Joined
  <2> QED BY <1>3, <2>1
<1> HIDE DEF t, r
<1>6. /\ Len(r) = Len(t) + 1 /\ r[Len(t) + 1] = e
      /\ \A i \in 1 .. Len(t) : r[i] = t[i]
  <2>1. ASSUME NEW i \in Len(p) + 1 .. Len(p) + Len(s)
        PROVE  r[i] = t[i]
    <3>1. i - Len(p) \in 1 .. Len(s)
      BY <1>4
    <3> QED BY <1>3, <1>4, <1>5, <3>1
  <2>2. r[Len(t) + 1] = e
    <3>1. /\ Len(t) + 1 \in Len(p) + 1 .. Len(p) + (Len(s) + 1)
          /\ (Len(t) + 1) - Len(p) = Len(s) + 1
      BY <1>4
    <3> QED BY <1>3, <1>5, <3>1
  <2> QED BY <1>4, <1>5, <2>1, <2>2
<1>7. Keeps(a, q, t)
  BY DEF t
<1>8. Gains(a, q, r, op, v)
  <2>1. Len(q) \in Nat /\ Len(t) = Len(q)
    BY <1>7, QueueType DEF Keeps
  <2> QED BY <1>2, <1>6, <1>7, <2>1 DEF Keeps, Gains
<1> QED BY <1>8 DEF r, e

-------------------------------------------------------------------------------
(* Steps of applications preserve SettingInv.                              *)

Holds(a) == AppInv(a, Queue, reply, registered, forgot, served[a])

(* One that did nothing, and has nothing of its own in what was added.     *)
LEMMA OthersHold ==
  ASSUME NEW b \in App, NEW q \in Seq(Sent), NEW r \in Seq(Sent),
         AppInv(b, q, reply, registered, forgot, served[b]),
         SameFor(b, q, r),
         /\ app'[b].state = app[b].state /\ app'[b].call = app[b].call
         /\ app'[b].value = app[b].value,
         reply'[b] = reply[b], told'[b] = told[b],
         b \in spoiled' <=> b \in spoiled,
         UNCHANGED <<registered, forgot, served>>
  PROVE  AppInv(b, r, reply, registered, forgot, served[b])'
<1> USE DEF SameFor
<1>1. Len(q) \in Nat /\ Len(r) \in Nat
  BY QueueType
<1>2. \A i \in 1 .. Len(r) : r[i].a = b => i \in 1 .. Len(q) /\ q[i].a = b
  BY <1>1
<1>3. Waits(b, r, reply)'
  BY <1>1, <1>2 DEF AppInv, Waits
<1>4. Orders(b, r)'
  BY <1>1, <1>2 DEF AppInv, Orders
<1>5. Registered(b, r, reply, registered, forgot)'
  BY <1>1, <1>2 DEF AppInv, Registered, Registers
<1>6. Tidy(b, r, reply, registered)'
  BY <1>1, <1>2 DEF AppInv, Tidy, Registers
<1>7. Reports(b, r, reply, served[b])'
  BY <1>1, <1>2 DEF AppInv, Reports
<1> QED BY <1>3, <1>4, <1>5, <1>6, <1>7 DEF AppInv

(* A call that begins or asks again.                                       *)
LEMMA AskerHolds ==
  ASSUME NEW a \in App, NEW op \in Method \ {"other"}, NEW v,
         NEW q \in Seq(Sent), NEW r \in Seq(Sent),
         AppInv(a, q, reply, registered, forgot, served[a]),
         Sends(a, q, r, op, v), app'[a].state = app[a].state,
         Asked(app'[a].call) = op, op = "set" => app'[a].value = v,
         app[a].call # "finalize",
         op \in NeedsRegistration => app[a].state = "READY",
         ~(Registers(a) /\ reply[a] = "ok"),
         \A i \in 1 .. Len(q) :
           q[i].a = a /\ q[i].live /\ q[i].op = "initialize"
             => a \in spoiled',
         a \in spoiled => a \in spoiled',
         told'[a] = NoValue \/ (told'[a] = told[a] /\ op # "set"),
         UNCHANGED <<registered, forgot, served>>
  PROVE  AppInv(a, r, reply, registered, forgot, served[a])'
<1>1. /\ Len(q) \in Nat /\ Len(r) \in Nat
      /\ \A i \in 1 .. Len(q) : q[i].live \in BOOLEAN
  BY QueueType
<1>2. /\ \A i \in 1 .. Len(q) :
           /\ r[i].op = q[i].op /\ r[i].a = q[i].a /\ r[i].value = q[i].value
           /\ r[i].live <=> q[i].live /\ q[i].a # a
      /\ Len(q) <= Len(r) /\ Len(r) <= Len(q) + 1
      /\ \A i \in 1 .. Len(r) : i > Len(q) =>
           /\ i = Len(r) /\ r[i].op = op /\ r[i].a = a /\ r[i].value = v
           /\ r[i].live /\ reply'[a] = "none"
  BY <1>1 DEF Sends, Keeps, Gains
<1>3. reply'[a] \in {"none", "error"}
  BY DEF Sends
<1>4. Waits(a, r, reply)'
  BY <1>1, <1>2, <1>3 DEF Waits
<1>5. Orders(a, r)'
  <2>1. app'[a].state = "READY" =>
          \A i \in 1 .. Len(q) : ~(q[i].a = a /\ q[i].op = "finalize")
    BY DEF AppInv, Orders
  <2>2. op = "finalize" => app'[a].call = "finalize"
    BY DEF Asked
  <2>3. app'[a].state = "READY" /\ app'[a].call # "finalize" =>
          \A i \in 1 .. Len(r) : ~(r[i].a = a /\ r[i].op = "finalize")
    BY <1>1, <1>2, <2>1, <2>2
  <2>4. ASSUME NEW i \in 1 .. Len(r), NEW j \in 1 .. Len(r), i < j,
               r[i].a = a, r[i].op = "finalize", r[j].a = a
        PROVE  r[j].op \notin NeedsRegistration
    <3>1. i \in 1 .. Len(q) /\ q[i].a = a /\ q[i].op = "finalize"
      BY <1>1, <1>2, <2>4
    <3>2. CASE j \in 1 .. Len(q)
      BY <1>2, <2>4, <3>1, <3>2 DEF AppInv, Orders
    <3>3. CASE j \notin 1 .. Len(q)
      BY <1>1, <1>2, <2>1, <3>1, <3>3
    <3> QED BY <3>2, <3>3
  <2> QED BY <2>3, <2>4 DEF Orders
<1>6. Registered(a, r, reply, registered, forgot)'
  <2>1. /\ a \in forgot => a \notin registered
        /\ app[a].state = "READY" => a \in registered \cup forgot
        /\ \A i \in 1 .. Len(q) : q[i].a = a /\ q[i].op \in NeedsRegistration
             => a \in registered \cup forgot
    BY DEF AppInv, Registered
  <2> QED BY <1>1, <1>2, <1>3, <2>1 DEF Registered
<1>7. Tidy(a, r, reply, registered)'
  <2>1. /\ \A i \in 1 .. Len(q) :
             q[i].a = a /\ q[i].op = "initialize" /\ ~q[i].live => a \in spoiled
        /\ a \in registered \ spoiled => app[a].state = "READY"
    BY DEF AppInv, Tidy
  <2>2. \A i \in 1 .. Len(q) :
          q[i].a = a /\ q[i].op = "initialize" => a \in spoiled'
    BY <2>1
  <2> QED BY <1>1, <1>2, <1>3, <2>1, <2>2 DEF Tidy
<1>8. Reports(a, r, reply, served[a])'
  <2>1. /\ told[a] # NoValue =>
             \A i \in 1 .. Len(q) : ~(q[i].a = a /\ q[i].op = "set")
        /\ told[a] # NoValue => served[a] = told[a]
    BY DEF AppInv, Reports
  <2> QED BY <1>1, <1>2, <1>3, <2>1 DEF Reports
<1> QED BY <1>4, <1>5, <1>6, <1>7, <1>8 DEF AppInv

(* A call, or the process, that ends.                                      *)
LEMMA EnderHolds ==
  ASSUME NEW a \in App, NEW q \in Seq(Sent), NEW r \in Seq(Sent),
         AppInv(a, q, reply, registered, forgot, served[a]),
         Keeps(a, q, r), reply'[a] = "none", app'[a].call = "none",
         app'[a].state = "READY" =>
           \/ app[a].state = "READY" /\ app[a].call # "finalize"
           \/ Registers(a) /\ reply[a] = "ok"
           \/ app[a].call = "finalize" /\ reply[a] \notin {"none", "ok", "error"},
         app'[a].state # "READY" /\ a \notin spoiled' =>
           \/ app[a].state # "READY" /\ ~(Registers(a) /\ reply[a] = "ok")
           \/ app[a].call = "finalize" /\ reply[a] = "ok",
         a \in spoiled /\ a \notin spoiled' =>
           /\ reply[a] = "ok"
           /\ app'[a].state = "READY" \/ app[a].call = "finalize",
         \A i \in 1 .. Len(q) :
           q[i].a = a /\ q[i].live /\ q[i].op = "initialize" => a \in spoiled',
         \/ told'[a] \in {told[a], NoValue}
         \/ app[a].call = "set" /\ reply[a] = "ok" /\ told'[a] = app[a].value,
         UNCHANGED <<registered, forgot, served>>
  PROVE  AppInv(a, r, reply, registered, forgot, served[a])'
<1>1. /\ Len(q) \in Nat /\ Len(r) \in Nat
      /\ \A i \in 1 .. Len(q) : q[i].live \in BOOLEAN
  BY QueueType
<1>2. /\ Len(r) = Len(q)
      /\ \A i \in 1 .. Len(q) :
           /\ r[i].op = q[i].op /\ r[i].a = q[i].a /\ r[i].value = q[i].value
           /\ r[i].live <=> q[i].live /\ q[i].a # a
  BY DEF Keeps
<1>3. reply[a] \notin {"none", "error"} => \A i \in 1 .. Len(q) : q[i].a # a
  BY DEF AppInv, Waits
<1>4. Waits(a, r, reply)'
  BY <1>1, <1>2 DEF Waits
<1>5. Orders(a, r)'
  BY <1>1, <1>2, <1>3 DEF AppInv, Orders
<1>6. Registered(a, r, reply, registered, forgot)'
  <2>1. /\ a \in forgot => a \notin registered
        /\ \A i \in 1 .. Len(q) : q[i].a = a /\ q[i].op \in NeedsRegistration
             => a \in registered \cup forgot
        /\ app'[a].state = "READY" => a \in registered \cup forgot
    BY DEF AppInv, Registered
  <2> QED BY <1>1, <1>2, <2>1 DEF Registered, Registers
<1>7. Tidy(a, r, reply, registered)'
  <2>1. \A i \in 1 .. Len(q) :
          q[i].a = a /\ q[i].op = "initialize" => a \in spoiled'
    BY <1>3 DEF AppInv, Tidy
  <2>2. a \in registered \ spoiled' => app'[a].state = "READY"
    BY DEF AppInv, Tidy, Registers
  <2> QED BY <1>1, <1>2, <2>1, <2>2 DEF Tidy
<1>8. Reports(a, r, reply, served[a])'
  <2>1. told'[a] # NoValue =>
          \A i \in 1 .. Len(q) : ~(q[i].a = a /\ q[i].op = "set")
    BY <1>3 DEF AppInv, Reports
  <2>2. told'[a] # NoValue => served[a] = told'[a]
    BY DEF AppInv, Reports
  <2> QED BY <1>1, <1>2, <2>1, <2>2 DEF Reports
<1> QED BY <1>4, <1>5, <1>6, <1>7, <1>8 DEF AppInv

-------------------------------------------------------------------------------
(* The queue after the steps of an application.                            *)

LEMMA KeepsIsSame ==
  ASSUME NEW a \in App, NEW b \in App \ {a}, NEW q \in Seq(Sent),
         NEW r \in Seq(Sent), NEW op, NEW v,
         Keeps(a, q, r) \/ Gains(a, q, r, op, v)
  PROVE  SameFor(b, q, r)
<1>1. /\ Len(q) \in Nat /\ Len(r) \in Nat
      /\ \A i \in 1 .. Len(q) : q[i].live \in BOOLEAN
  BY QueueType
<1> QED BY <1>1 DEF Keeps, Gains, SameFor

(* How a request leaves: before is Queue but for those who wait.           *)
LEMMA AsksSends ==
  ASSUME TypeInv, NEW a \in App, NEW op \in Method \ {"other"},
         NEW v \in Value \cup {NoValue}, op = "set" => v \in Value,
         NEW p \in Seq(Sent), NEW s \in Seq(Sent), Keeps(a, Queue, p \o s),
         Asks(a, op, v, s), kept' = p
  PROVE  /\ Sends(a, Queue, Queue', op, v)
         /\ \A b \in App \ {a} : reply'[b] = reply[b]
<1>1. reply \in [App -> Result \cup {"none"}] /\ Queue \in Seq(Sent)
  BY Joined DEF TypeInv, TypeOK, Queue
<1>2. CASE up
  <2>1. /\ inbox' = Append(s, Req(op, a, v, TRUE))
        /\ reply' = [reply EXCEPT ![a] = "none"]
    BY <1>2 DEF Asks
  <2>2. Gains(a, Queue, p \o Append(s, Req(op, a, v, TRUE)), op, v)
    BY <1>1, AppendGains
  <2>3. Queue' = p \o Append(s, Req(op, a, v, TRUE))
    BY <2>1 DEF Queue
  <2> QED BY <1>1, <2>1, <2>2, <2>3 DEF Sends
<1>3. CASE ~up
  <2>1. inbox' = s /\ reply' = [reply EXCEPT ![a] = "error"]
    BY <1>3 DEF Asks
  <2>2. Queue' = p \o s
    BY <2>1 DEF Queue
  <2> QED BY <1>1, <2>1, <2>2 DEF Sends
<1> QED BY <1>2, <1>3

LEMMA QueuesType ==
  ASSUME TypeInv
  PROVE  Queue \in Seq(Sent)
BY Joined DEF TypeInv, Queue

(* All hold if the one that acts does, and nothing of the others changed.   *)
LEMMA ActorSuffices ==
  ASSUME TypeInv, TypeInv', SettingInv, NEW a \in App, Holds(a)',
         \A b \in App \ {a} : /\ SameFor(b, Queue, Queue')
                              /\ app'[b] = app[b] /\ reply'[b] = reply[b]
                              /\ told'[b] = told[b]
                              /\ b \in spoiled' <=> b \in spoiled,
         UNCHANGED <<registered, forgot, served>>
  PROVE  SettingInv'
<1>1. Queue \in Seq(Sent)
  BY QueuesType
<1>2. Queue' \in Seq(Sent)
  BY Joined DEF TypeInv, Queue
<1>3. ASSUME NEW b \in App \ {a}
      PROVE  Holds(b)'
  <2>1. AppInv(b, Queue, reply, registered, forgot, served[b])
    BY DEF SettingInv
  <2>2. /\ SameFor(b, Queue, Queue')
        /\ app'[b].state = app[b].state /\ app'[b].call = app[b].call
        /\ app'[b].value = app[b].value /\ reply'[b] = reply[b]
        /\ told'[b] = told[b] /\ b \in spoiled' <=> b \in spoiled
    OBVIOUS
  <2> QED BY <1>1, <1>2, <2>1, <2>2, OthersHold DEF Holds
<1>4. \A b \in App : Holds(b)'
  BY <1>3
<1> QED BY <1>4 DEF SettingInv, Holds

(* A call that ends, with what is on its way to the daemon then.           *)
LEMMA ReturnsLeaves ==
  ASSUME TypeInv, NEW a \in App, NEW m \in Memory, NEW p \in Seq(Sent),
         NEW s \in Seq(Sent), Keeps(a, Queue, p \o s), Returns(a, m, s), kept' = p
  PROVE  /\ app'[a].call = "none" /\ app'[a].state = m.state
         /\ reply'[a] = "none" /\ Keeps(a, Queue, Queue')
         /\ \A b \in App \ {a} : /\ app'[b] = app[b] /\ reply'[b] = reply[b]
                                 /\ SameFor(b, Queue, Queue')
<1>1. /\ app'[a] = [m EXCEPT !.call = "none", !.tries = 0, !.value = NoValue]
      /\ \A b \in App \ {a} : app'[b] = app[b]
  BY ReturnsType
<1>2. reply' = [reply EXCEPT ![a] = "none"] /\ Queue' = p \o s
  BY DEF Returns, Queue
<1>3. reply \in [App -> Result \cup {"none"}]
  BY DEF TypeInv, TypeOK
<1>4. Queue \in Seq(Sent) /\ p \o s \in Seq(Sent)
  BY QueuesType, Joined
<1>5. \A b \in App \ {a} : SameFor(b, Queue, p \o s)
  BY <1>4, KeepsIsSame
<1> QED BY <1>1, <1>2, <1>3, <1>5 DEF Memory

LEMMA GoesOnLeaves ==
  ASSUME TypeInv, NEW a \in App, NEW m \in Memory, NEW p \in Seq(Sent),
         NEW s \in Seq(Sent), Keeps(a, Queue, p \o s),
         GoesOn(a, m, "initialize", s), kept' = p
  PROVE  /\ app'[a] = m /\ Sends(a, Queue, Queue', "initialize", NoValue)
         /\ \A b \in App \ {a} : app'[b] = app[b] /\ reply'[b] = reply[b]
<1>1. app'[a] = m /\ \A b \in App \ {a} : app'[b] = app[b]
  BY GoesOnType
<1>2. "initialize" \in Method \ {"other"} /\ NoValue \in Value \cup {NoValue}
  BY DEF Method
<1>3. Asks(a, "initialize", NoValue, s)
  BY DEF GoesOn
<1>4. /\ Sends(a, Queue, Queue', "initialize", NoValue)
      /\ \A b \in App \ {a} : reply'[b] = reply[b]
  BY <1>2, <1>3, AsksSends
<1> QED BY <1>1, <1>4

LEMMA SendsIsSame ==
  ASSUME NEW a \in App, NEW b \in App \ {a}, NEW q \in Seq(Sent),
         NEW r \in Seq(Sent), NEW op, NEW v, Sends(a, q, r, op, v)
  PROVE  SameFor(b, q, r)
BY KeepsIsSame DEF Sends

(* A call that begins.                                                     *)
LEMMA CallHolds ==
  ASSUME TypeInv, TypeInv', SettingInv, NEW a \in App, NEW m \in Memory,
         NEW op \in Method \ {"other"}, NEW v \in Value \cup {NoValue},
         op = "set" => v \in Value,
         app[a].call = "none", app' = [app EXCEPT ![a] = m],
         m.state = app[a].state, Asked(m.call) = op, op = "set" => m.value = v,
         op \in NeedsRegistration => app[a].state = "READY",
         \/ Asks(a, op, v, inbox)
         \/ reply' = [reply EXCEPT ![a] = "error"] /\ inbox' = inbox,
         UNCHANGED <<kept, daemonVars, forgot, spoiled, served>>,
         \/ told' = told /\ op # "set"
         \/ told' = [told EXCEPT ![a] = NoValue]
  PROVE  SettingInv'
<1>1. /\ Queue \in Seq(Sent) /\ Queue' \in Seq(Sent)
      /\ inbox \in Seq(Sent) /\ kept \in Seq(Sent)
      /\ reply \in [App -> Result \cup {"none"}]
      /\ told \in [App -> Value \cup {NoValue}]
  BY QueuesType, Joined DEF TypeInv, TypeOK, Queue
<1>2. app'[a] = m /\ \A b \in App \ {a} : app'[b] = app[b]
  BY MemoryUpdate
<1>3. AppInv(a, Queue, reply, registered, forgot, served[a])
  BY DEF SettingInv
<1>4. NoLive(a, Queue)
  <2>1. \A i \in 1 .. Len(Queue) : Queue[i].op \in Method
    BY <1>1, QueueType
  <2>2. Asked("none") \notin Method
    BY DEF Asked, Method
  <2> QED BY <1>3, <2>1, <2>2 DEF AppInv, Waits, NoLive
<1>5. Keeps(a, Queue, Queue)
  BY <1>1, <1>4, NobodyWaitsKeeps
<1>6. /\ Sends(a, Queue, Queue', op, v)
      /\ \A b \in App \ {a} : reply'[b] = reply[b]
  <2>1. CASE Asks(a, op, v, inbox)
    <3>1. Keeps(a, Queue, kept \o inbox) /\ kept' = kept
      BY <1>5 DEF Queue
    <3> QED BY <1>1, <2>1, <3>1, AsksSends
  <2>2. CASE reply' = [reply EXCEPT ![a] = "error"] /\ inbox' = inbox
    <3>1. Queue' = Queue
      BY <2>2 DEF Queue
    <3> QED BY <1>1, <1>5, <2>2, <3>1 DEF Sends
  <2> QED BY <2>1, <2>2
<1>7. UNCHANGED <<registered, forgot, served, spoiled>>
  BY DEF daemonVars
<1>8. /\ told'[a] = NoValue \/ (told'[a] = told[a] /\ op # "set")
      /\ \A b \in App \ {a} : told'[b] = told[b]
  BY <1>1
<1>9. /\ app'[a].state = app[a].state /\ Asked(app'[a].call) = op
      /\ op = "set" => app'[a].value = v
      /\ app[a].call # "finalize" /\ ~(Registers(a) /\ reply[a] = "ok")
      /\ \A i \in 1 .. Len(Queue) :
           Queue[i].a = a /\ Queue[i].live /\ Queue[i].op = "initialize"
             => a \in spoiled'
      /\ a \in spoiled => a \in spoiled'
  BY <1>2, <1>4, <1>7 DEF NoLive, Registers
<1>10. Holds(a)'
  BY <1>1, <1>3, <1>6, <1>7, <1>8, <1>9, AskerHolds DEF Holds
<1>11. \A b \in App \ {a} : SameFor(b, Queue, Queue')
  BY <1>1, <1>6, SendsIsSame
<1> QED BY <1>2, <1>6, <1>7, <1>8, <1>10, <1>11, ActorSuffices

(* Timers that are set or end, and nothing else.                           *)
LEMMA TimersHold ==
  ASSUME TypeInv, TypeInv', SettingInv, NEW a \in App,
         InitializeAsync(a) \/ Initialized(a)
  PROVE  SettingInv'
<1>1. /\ app'[a].state = app[a].state /\ app'[a].call = app[a].call
      /\ app'[a].value = app[a].value
      /\ \A b \in App \ {a} : app'[b] = app[b]
  <2>1. app \in [App -> Memory]
    BY DEF TypeInv, TypeOK
  <2>2. CASE InitializeAsync(a)
    BY <2>1, <2>2 DEF InitializeAsync, Memory
  <2>3. CASE Initialized(a)
    BY <2>1, <2>3 DEF Initialized, Memory
  <2> QED BY <2>2, <2>3
<1>2. /\ UNCHANGED <<reply, told, spoiled, registered, forgot, served>>
      /\ Queue' = Queue
  BY DEF InitializeAsync, Initialized, Queue, queueVars, daemonVars, historyVars
<1>3. Queue \in Seq(Sent)
  BY QueuesType
<1>4. \A b \in App : SameFor(b, Queue, Queue')
  BY <1>2, <1>3, QueueType DEF SameFor
<1>5. Holds(a)'
  <2>1. AppInv(a, Queue, reply, registered, forgot, served[a])
    BY DEF SettingInv
  <2>2. Queue' \in Seq(Sent)
    BY <1>2, <1>3
  <2> QED BY <1>1, <1>2, <1>3, <1>4, <2>1, <2>2, OthersHold DEF Holds
<1> QED BY <1>1, <1>2, <1>4, <1>5, ActorSuffices

LEMMA CallsHold ==
  ASSUME TypeInv, TypeInv', SettingInv, NEW a \in App,
         Calls(a) \/ ConnectDaemon(a)
  PROVE  SettingInv'
<1>1. app[a] \in Memory
  BY DEF TypeInv, TypeOK
<1>2. app[a].call = "none"
  BY DEF Calls, Initialize, InitializeAsync, Finalize, Get, Set, ConnectDaemon,
         Looping
<1>3. {"hello", "finalize", "get", "set"} \subseteq Method \ {"other"}
  BY DEF Method
<1>4. ASSUME NEW op \in {"hello", "finalize", "get"}, NEW m \in Memory,
             app' = [app EXCEPT ![a] = m], m.state = app[a].state,
             Asked(m.call) = op,
             op \in NeedsRegistration => app[a].state = "READY",
             \/ Asks(a, op, NoValue, inbox)
             \/ reply' = [reply EXCEPT ![a] = "error"] /\ inbox' = inbox,
             UNCHANGED <<kept, daemonVars, historyVars>>
      PROVE  SettingInv'
  <2>1. op # "set" /\ op \in Method \ {"other"} /\ NoValue \in Value \cup {NoValue}
    BY <1>3
  <2>2. UNCHANGED <<kept, daemonVars, forgot, spoiled, served, told>>
    BY <1>4 DEF historyVars
  <2> QED BY <1>2, <1>4, <2>1, <2>2, CallHolds
<1>5. CASE Initialize(a)
  <2> DEFINE m == [app[a] EXCEPT !.conn = TRUE, !.call = "hello"]
  <2>1. m \in Memory /\ m.state = app[a].state /\ Asked(m.call) = "hello"
    BY <1>1 DEF Memory, Call, Asked
  <2>2. app' = [app EXCEPT ![a] = m] /\ Asks(a, "hello", NoValue, inbox)
        /\ UNCHANGED <<kept, daemonVars, historyVars>>
    BY <1>5 DEF Initialize
  <2>3. "hello" \notin NeedsRegistration
    BY DEF NeedsRegistration
  <2> HIDE DEF m
  <2> QED BY <1>4, <2>1, <2>2, <2>3
<1>6. CASE Finalize(a)
  <2> DEFINE m == [app[a] EXCEPT !.call = "finalize"]
  <2>1. m \in Memory /\ m.state = app[a].state /\ Asked(m.call) = "finalize"
    BY <1>1 DEF Memory, Call, Asked
  <2>2. app' = [app EXCEPT ![a] = m] /\ Asks(a, "finalize", NoValue, inbox)
        /\ app[a].state = "READY" /\ UNCHANGED <<kept, daemonVars, historyVars>>
    BY <1>6 DEF Finalize
  <2> HIDE DEF m
  <2> QED BY <1>4, <2>1, <2>2
<1>7. CASE Get(a)
  <2> DEFINE m == [app[a] EXCEPT !.call = "get"]
  <2>1. m \in Memory /\ m.state = app[a].state /\ Asked(m.call) = "get"
    BY <1>1 DEF Memory, Call, Asked
  <2>2. app' = [app EXCEPT ![a] = m] /\ Asks(a, "get", NoValue, inbox)
        /\ app[a].state = "READY" /\ UNCHANGED <<kept, daemonVars, historyVars>>
    BY <1>7 DEF Get
  <2> HIDE DEF m
  <2> QED BY <1>4, <2>1, <2>2
<1>8. ASSUME NEW v \in Value, Set(a, v)
      PROVE  SettingInv'
  <2> DEFINE m == [app[a] EXCEPT !.call = "set", !.value = v]
  <2>1. /\ m \in Memory /\ m.state = app[a].state /\ Asked(m.call) = "set"
        /\ m.value = v
    BY <1>1 DEF Memory, Call, Asked
  <2>2. app' = [app EXCEPT ![a] = m] /\ Asks(a, "set", v, inbox)
        /\ app[a].state = "READY" /\ told' = [told EXCEPT ![a] = NoValue]
        /\ UNCHANGED <<kept, daemonVars, forgot, spoiled, served>>
    BY <1>8 DEF Set
  <2>3. "set" \in Method \ {"other"} /\ v \in Value \cup {NoValue}
    BY <1>3
  <2> HIDE DEF m
  <2> QED BY <1>2, <2>1, <2>2, <2>3, CallHolds
<1>9. CASE ConnectDaemon(a)
  <2> DEFINE m == [app[a] EXCEPT !.call = "connect hello"]
  <2>1. m \in Memory /\ m.state = app[a].state /\ Asked(m.call) = "hello"
    BY <1>1 DEF Memory, Call, Asked
  <2>2. /\ app' = [app EXCEPT ![a] = m]
        /\ \/ Asks(a, "hello", NoValue, inbox)
           \/ reply' = [reply EXCEPT ![a] = "error"] /\ inbox' = inbox
        /\ UNCHANGED <<kept, daemonVars, historyVars>>
    BY <1>9 DEF ConnectDaemon
  <2>3. "hello" \notin NeedsRegistration
    BY DEF NeedsRegistration
  <2> HIDE DEF m
  <2> QED BY <1>4, <2>1, <2>2, <2>3
<1> QED BY <1>5, <1>6, <1>7, <1>8, <1>9, TimersHold DEF Calls

LEMMA ExitHolds ==
  ASSUME TypeInv, TypeInv', SettingInv, NEW a \in App, Exit(a)
  PROVE  SettingInv'
<1>1. /\ inbox \in Seq(Sent) /\ kept \in Seq(Sent)
      /\ reply \in [App -> Result \cup {"none"}]
      /\ told \in [App -> Value \cup {NoValue}]
      /\ Queue \in Seq(Sent) /\ Queue' \in Seq(Sent)
  BY QueuesType, Joined DEF TypeInv, TypeOK, Queue
<1>2. app'[a] = NewMemory /\ \A b \in App \ {a} : app'[b] = app[b]
  BY NewMemoryType, MemoryUpdate DEF Exit
<1>3. /\ reply'[a] = "none" /\ told'[a] = NoValue /\ a \in spoiled'
      /\ \A b \in App \ {a} : /\ reply'[b] = reply[b] /\ told'[b] = told[b]
                              /\ b \in spoiled' <=> b \in spoiled
      /\ UNCHANGED <<registered, forgot, served>>
  BY <1>1 DEF Exit, daemonVars
<1>4. Keeps(a, Queue, Queue')
  <2>1. Keeps(a, kept \o inbox, Quiet(a, kept) \o Quiet(a, inbox))
    BY <1>1, QuietKeeps
  <2> QED BY <2>1 DEF Exit, Queue
<1>5. \A b \in App \ {a} : SameFor(b, Queue, Queue')
  BY <1>1, <1>4, KeepsIsSame
<1>6. AppInv(a, Queue, reply, registered, forgot, served[a])
  BY DEF SettingInv
<1>7. app'[a].state = "NONE" /\ app'[a].call = "none"
  BY <1>2 DEF NewMemory
<1>8. Holds(a)'
  BY <1>1, <1>3, <1>4, <1>6, <1>7, EnderHolds DEF Holds
<1> QED BY <1>2, <1>3, <1>5, <1>8, ActorSuffices

(* A call that got an answer, or none.  late: it got none in time.         *)
LEMMA RepliedHolds ==
  ASSUME TypeInv, TypeInv', SettingInv, NEW a \in App, NEW res \in Result,
         NEW p \in Seq(Sent), NEW s \in Seq(Sent), Keeps(a, Queue, p \o s),
         Replied(a, res, s), kept' = p,
         reply[a] = res \/ (reply[a] = "none" /\ res = "error"),
         \A i \in 1 .. Len(Queue) :
           Queue[i].a = a /\ Queue[i].live /\ Queue[i].op = "initialize"
             => Registers(a) /\ res = "error"
  PROVE  SettingInv'
<1>1. /\ Queue \in Seq(Sent) /\ Queue' \in Seq(Sent) /\ app[a] \in Memory
      /\ told \in [App -> Value \cup {NoValue}]
  BY QueuesType, Joined DEF TypeInv, TypeOK, Queue
<1>2. UNCHANGED <<registered, forgot, served>>
  BY DEF Replied, HelloReplied, InitializeReplied, ConnectHelloReplied,
         ConnectReplied, FinalizeReplied, SetReplied, GetReplied, historyVars
<1>3. AppInv(a, Queue, reply, registered, forgot, served[a])
  BY DEF SettingInv
<1>4. /\ \A b \in App \ {a} : /\ told'[b] = told[b]
                              /\ b \in spoiled' <=> b \in spoiled
      /\ told'[a] # told[a] =>
           app[a].call = "set" /\ res = "ok" /\ told'[a] = app[a].value
      /\ spoiled' = IF Registers(a) \/ app[a].call = "finalize"
                      THEN Settled(a, res) ELSE spoiled
  <2>1. CASE SetReplied(a, res, s)
    BY <1>1, <2>1 DEF SetReplied, Registers
  <2>2. CASE HelloReplied(a, res, s) \/ ConnectHelloReplied(a, res, s)
             \/ GetReplied(a, res, s)
    BY <2>2 DEF HelloReplied, ConnectHelloReplied, GetReplied, historyVars,
                Registers
  <2>3. CASE InitializeReplied(a, res, s) \/ ConnectReplied(a, res, s)
             \/ FinalizeReplied(a, res, s)
    BY <2>3 DEF InitializeReplied, ConnectReplied, FinalizeReplied, Settled,
                Registers
  <2> QED BY <2>1, <2>2, <2>3 DEF Replied
<1>5. /\ a \in spoiled /\ a \notin spoiled' =>
           res = "ok" /\ (Registers(a) \/ app[a].call = "finalize")
      /\ res = "error" /\ (Registers(a) \/ app[a].call = "finalize")
           => a \in spoiled'
  BY <1>4 DEF Settled
<1>6. \A i \in 1 .. Len(Queue) :
        Queue[i].a = a /\ Queue[i].live /\ Queue[i].op = "initialize"
          => a \in spoiled'
  BY <1>5
<1>7. ASSUME NEW m \in Memory, Returns(a, m, s),
             m.state = "READY" =>
               \/ app[a].state = "READY" /\ app[a].call # "finalize"
               \/ Registers(a) /\ res = "ok"
               \/ app[a].call = "finalize" /\ res \notin {"ok", "error"},
             m.state # "READY" =>
               \/ app[a].state # "READY" /\ ~(Registers(a) /\ res = "ok")
               \/ app[a].call = "finalize" /\ res \in {"ok", "error"}
      PROVE  SettingInv'
  <2>1. /\ app'[a].call = "none" /\ app'[a].state = m.state
        /\ reply'[a] = "none" /\ Keeps(a, Queue, Queue')
        /\ \A b \in App \ {a} : /\ app'[b] = app[b] /\ reply'[b] = reply[b]
                                /\ SameFor(b, Queue, Queue')
    BY <1>7, ReturnsLeaves
  <2>2. app'[a].state = "READY" =>
           \/ app[a].state = "READY" /\ app[a].call # "finalize"
           \/ Registers(a) /\ reply[a] = "ok"
           \/ app[a].call = "finalize" /\ reply[a] \notin {"none", "ok", "error"}
    BY <1>7, <2>1 DEF Result
  <2>3. app'[a].state # "READY" /\ a \notin spoiled' =>
           \/ app[a].state # "READY" /\ ~(Registers(a) /\ reply[a] = "ok")
           \/ app[a].call = "finalize" /\ reply[a] = "ok"
    BY <1>5, <1>7, <2>1
  <2>4. a \in spoiled /\ a \notin spoiled' =>
           /\ reply[a] = "ok"
           /\ app'[a].state = "READY" \/ app[a].call = "finalize"
    BY <1>5, <1>7, <2>1
  <2>5. \/ told'[a] \in {told[a], NoValue}
        \/ app[a].call = "set" /\ reply[a] = "ok" /\ told'[a] = app[a].value
    BY <1>4
  <2>6. Holds(a)'
    BY <1>1, <1>2, <1>3, <1>6, <2>1, <2>2, <2>3, <2>4, <2>5, EnderHolds DEF Holds
  <2> QED BY <1>2, <1>4, <2>1, <2>6, ActorSuffices
<1>8. ASSUME NEW m \in Memory, GoesOn(a, m, "initialize", s),
             m.state = app[a].state, m.call \in {"initialize", "connect"},
             ~Registers(a) \/ res # "ok", app[a].call \notin {"finalize", "set"}
      PROVE  SettingInv'
  <2>1. /\ app'[a] = m /\ Sends(a, Queue, Queue', "initialize", NoValue)
        /\ \A b \in App \ {a} : app'[b] = app[b] /\ reply'[b] = reply[b]
    BY <1>8, GoesOnLeaves
  <2>2. /\ app'[a].state = app[a].state /\ Asked(app'[a].call) = "initialize"
        /\ ~(Registers(a) /\ reply[a] = "ok") /\ "initialize" # "set"
        /\ "initialize" \in Method \ {"other"}
        /\ "initialize" \notin NeedsRegistration
        /\ a \in spoiled => a \in spoiled'
        /\ told'[a] = told[a]
    BY <1>4, <1>5, <1>8, <2>1 DEF Asked, Method, NeedsRegistration
  <2>3. Holds(a)'
    BY <1>1, <1>2, <1>3, <1>6, <1>8, <2>1, <2>2, AskerHolds DEF Holds
  <2>4. \A b \in App \ {a} : SameFor(b, Queue, Queue')
    BY <1>1, <2>1, SendsIsSame
  <2> QED BY <1>2, <1>4, <2>1, <2>3, <2>4, ActorSuffices
<1>9. CASE HelloReplied(a, res, s)
  <2> DEFINE m == [app[a] EXCEPT !.call = "initialize", !.tries = 1]
  <2>1. m \in Memory /\ m.call = "initialize" /\ m.state = app[a].state
    BY <1>1 DEF Memory, Call
  <2>2. GoesOn(a, m, "initialize", s) /\ app[a].call = "hello"
    BY <1>9 DEF HelloReplied
  <2> HIDE DEF m
  <2> QED BY <1>8, <2>1, <2>2 DEF Registers
<1>10. CASE InitializeReplied(a, res, s)
  <2>1. app[a].call = "initialize" /\ Registers(a)
    BY <1>10 DEF InitializeReplied, Registers
  <2>2. CASE res = "ok" /\ Returns(a, [app[a] EXCEPT !.state = "READY"], s)
    <3> DEFINE m == [app[a] EXCEPT !.state = "READY"]
    <3>1. m \in Memory /\ m.state = "READY" /\ Returns(a, m, s)
      BY <1>1, <2>2 DEF Memory
    <3> HIDE DEF m
    <3> QED BY <1>7, <2>1, <2>2, <3>1
  <2>3. CASE res # "ok" /\ Returns(a, app[a], s)
    BY <1>1, <1>7, <2>1, <2>3
  <2>4. CASE res # "ok" /\
             GoesOn(a, [app[a] EXCEPT !.tries = @ + 1], "initialize", s)
    <3> DEFINE m == [app[a] EXCEPT !.tries = @ + 1]
    <3>1. m \in Memory /\ m.state = app[a].state /\ m.call = app[a].call
      <4>1. app[a].tries + 1 \in Nat
        BY <1>1 DEF Memory
      <4> QED BY <1>1, <4>1 DEF Memory
    <3>2. GoesOn(a, m, "initialize", s)
      BY <2>4
    <3> HIDE DEF m
    <3> QED BY <1>8, <2>1, <2>4, <3>1, <3>2
  <2> QED BY <1>10, <2>2, <2>3, <2>4 DEF InitializeReplied
<1>11. CASE ConnectHelloReplied(a, res, s)
  <2>1. app[a].call = "connect hello" /\ ~Registers(a)
    BY <1>11 DEF ConnectHelloReplied, Registers
  <2>2. CASE GoesOn(a, [app[a] EXCEPT !.call = "connect"], "initialize", s)
    <3> DEFINE m == [app[a] EXCEPT !.call = "connect"]
    <3>1. m \in Memory /\ m.state = app[a].state /\ m.call = "connect"
      BY <1>1 DEF Memory, Call
    <3>2. GoesOn(a, m, "initialize", s)
      BY <2>2
    <3> HIDE DEF m
    <3> QED BY <1>8, <2>1, <3>1, <3>2
  <2>3. CASE Returns(a, [app[a] EXCEPT !.started = TRUE], s)
    <3> DEFINE m == [app[a] EXCEPT !.started = TRUE]
    <3>1. m \in Memory /\ m.state = app[a].state /\ Returns(a, m, s)
      BY <1>1, <2>3 DEF Memory
    <3> HIDE DEF m
    <3> QED BY <1>7, <2>1, <3>1
  <2> QED BY <1>11, <2>2, <2>3 DEF ConnectHelloReplied
<1>12. CASE ConnectReplied(a, res, s)
  <2> DEFINE m == [app[a] EXCEPT !.state = IF res = "ok" THEN "READY" ELSE @,
                                 !.connect = @ - 1, !.notify = @ + 1]
  <2>1. m \in Memory
    BY <1>12, ConnectedMemory DEF ConnectReplied
  <2>2. m.state = IF res = "ok" THEN "READY" ELSE app[a].state
    BY <1>1 DEF Memory
  <2>3. Returns(a, m, s) /\ app[a].call = "connect" /\ Registers(a)
    BY <1>12 DEF ConnectReplied, Registers
  <2> HIDE DEF m
  <2> QED BY <1>7, <2>1, <2>2, <2>3
<1>13. CASE FinalizeReplied(a, res, s)
  <2>1. app[a].call = "finalize" /\ ~Registers(a)
    BY <1>13 DEF FinalizeReplied, Registers
  <2>2. CASE res \in {"ok", "error"}
    <3>1. Closed(a) \in Memory /\ Closed(a).state = "NONE"
      BY <1>1 DEF Closed, Memory
    <3>2. Returns(a, Closed(a), s)
      BY <1>13, <2>2 DEF FinalizeReplied
    <3> QED BY <1>7, <2>1, <2>2, <3>1, <3>2
  <2>3. CASE res \notin {"ok", "error"}
    <3>1. Returns(a, app[a], s)
      BY <1>13, <2>3 DEF FinalizeReplied
    <3> QED BY <1>1, <1>7, <2>1, <2>3, <3>1
  <2> QED BY <2>2, <2>3
<1>14. CASE SetReplied(a, res, s) \/ GetReplied(a, res, s)
  <2>1. /\ Returns(a, app[a], s) /\ app[a].call \in {"set", "get"}
        /\ ~Registers(a)
    BY <1>14 DEF SetReplied, GetReplied, Registers
  <2> QED BY <1>1, <1>7, <2>1
<1> QED BY <1>9, <1>10, <1>11, <1>12, <1>13, <1>14 DEF Replied
(* A call that blocks ends with what it was answered, or with nothing.     *)
LEMMA UnblocksHolds ==
  ASSUME TypeInv, TypeInv', SettingInv, NEW a \in App, Unblocks(a)
  PROVE  SettingInv'
<1>1. /\ inbox \in Seq(Sent) /\ kept \in Seq(Sent) /\ Queue \in Seq(Sent)
      /\ reply[a] \in Result \cup {"none"}
      /\ reply \in [App -> Result \cup {"none"}]
  BY QueuesType DEF TypeInv, TypeOK
<1>2. Waits(a, Queue, reply)
  BY DEF SettingInv, AppInv
<1>3. CASE Return(a)
  <2>1. /\ reply[a] \in Result /\ reply[a] # "none"
        /\ Replied(a, reply[a], inbox) /\ kept' = kept
    BY <1>1, <1>3 DEF Return
  <2>2. NoLive(a, Queue)
    BY <1>2, <2>1 DEF Waits, NoLive
  <2>3. Keeps(a, Queue, kept \o inbox)
    <3>1. Keeps(a, Queue, Queue)
      BY <1>1, <2>2, NobodyWaitsKeeps
    <3> QED BY <3>1 DEF Queue
  <2>4. \A i \in 1 .. Len(Queue) :
          Queue[i].a = a /\ Queue[i].live /\ Queue[i].op = "initialize"
            => Registers(a) /\ reply[a] = "error"
    BY <2>2 DEF NoLive
  <2> QED BY <1>1, <2>1, <2>3, <2>4, RepliedHolds
<1>4. CASE TimeOut(a)
  <2> DEFINE p == Quiet(a, kept)
             s == Quiet(a, inbox)
  <2>1. p \in Seq(Sent) /\ s \in Seq(Sent)
    BY <1>1, QuietType
  <2>2. Keeps(a, Queue, p \o s)
    <3>1. Keeps(a, kept \o inbox, p \o s)
      BY <1>1, QuietKeeps
    <3> QED BY <3>1 DEF Queue
  <2>3. Replied(a, "error", s) /\ kept' = p /\ reply[a] = "none"
    BY <1>4 DEF TimeOut
  <2>4. "error" \in Result
    BY DEF Result
  <2>5. \A i \in 1 .. Len(Queue) :
          Queue[i].a = a /\ Queue[i].live /\ Queue[i].op = "initialize"
            => Registers(a)
    <3>1. app[a].call \in Call \cup {"none"}
      BY DEF TypeInv, TypeOK, Memory
    <3>2. Asked(app[a].call) = "initialize" => Registers(a)
      BY <3>1 DEF Asked, Registers, Call
    <3> QED BY <1>2, <3>2 DEF Waits
  <2> HIDE DEF p, s
  <2> QED BY <2>1, <2>2, <2>3, <2>4, <2>5, RepliedHolds
<1> QED BY <1>3, <1>4 DEF Unblocks

-------------------------------------------------------------------------------
(* Steps of the daemon preserve SettingInv.                                *)

(* The requests that wait after the first was taken.                       *)
LEMMA RestWaits ==
  ASSUME NEW q \in Seq(Sent), q # <<>>
  PROVE  /\ Tail(q) \in Seq(Sent) /\ Len(Tail(q)) \in Nat
         /\ Len(q) = Len(Tail(q)) + 1 /\ 1 \in 1 .. Len(q)
         /\ \A i \in 1 .. Len(Tail(q)) :
              Tail(q)[i] = q[i + 1] /\ i + 1 \in 1 .. Len(q)
         /\ q[1] = Head(q) /\ q[1] \in Sent
<1>1. /\ Len(q) \in Nat \ {0} /\ Len(Tail(q)) = Len(q) - 1 /\ q[1] = Head(q)
      /\ Tail(q) \in Seq(Sent)
      /\ \A i \in 1 .. Len(Tail(q)) : Tail(q)[i] = q[i + 1]
  BY EmptySeq, HeadTailProperties
<1>2. q[1] \in Sent
  BY <1>1, ElementOfSeq
<1> QED BY <1>1, <1>2

(* What a is told when its request is answered: it waits for no other.     *)
LEMMA AnswerReaches ==
  ASSUME NEW a \in App, NEW e \in Sent, NEW res,
         NEW rep \in [App -> Result \cup {"none"}]
  PROVE  Answered(e, rep, res)[a] = IF e.a = a /\ e.live THEN res ELSE rep[a]
<1>1. e.live => e.a \in App
  BY DEF Sent, Request
<1> QED BY <1>1 DEF Answered

LEMMA FirstWaits ==
  ASSUME NEW a \in App, NEW q \in Seq(Sent), q # <<>>, NEW rep,
         Waits(a, q, rep), q[1].a = a
  PROVE  /\ rep[a] \in {"none", "error"}
         /\ q[1].live =>
              /\ q[1].op = Asked(app[a].call) /\ rep[a] = "none"
              /\ \A i \in 1 .. Len(Tail(q)) : Tail(q)[i].a # a
<1>1. /\ Len(q) = Len(Tail(q)) + 1 /\ 1 \in 1 .. Len(q) /\ Len(Tail(q)) \in Nat
      /\ \A i \in 1 .. Len(Tail(q)) :
           Tail(q)[i] = q[i + 1] /\ i + 1 \in 1 .. Len(q)
  BY RestWaits
<1>2. rep[a] \in {"none", "error"}
  BY <1>1 DEF Waits
<1>3. ASSUME q[1].live
      PROVE  /\ q[1].op = Asked(app[a].call) /\ rep[a] = "none"
             /\ \A i \in 1 .. Len(Tail(q)) : Tail(q)[i].a # a
  <2>1. /\ q[1].op = Asked(app[a].call) /\ rep[a] = "none"
        /\ \A i \in 1 + 1 .. Len(q) : q[i].a # a
    BY <1>1, <1>3 DEF Waits
  <2>2. \A i \in 1 .. Len(Tail(q)) : i + 1 \in 1 + 1 .. Len(q)
    BY <1>1
  <2> QED BY <1>1, <2>1, <2>2
<1> QED BY <1>2, <1>3

LEMMA RestOrders ==
  ASSUME NEW a \in App, NEW q \in Seq(Sent), q # <<>>, Orders(a, q)
  PROVE  Orders(a, Tail(q))
<1> DEFINE r == Tail(q)
<1>1. /\ Len(q) = Len(r) + 1 /\ Len(r) \in Nat
      /\ \A i \in 1 .. Len(r) : r[i] = q[i + 1] /\ i + 1 \in 1 .. Len(q)
  BY RestWaits
<1> HIDE DEF r
<1>2. app[a].state = "READY" /\ app[a].call # "finalize" =>
        \A i \in 1 .. Len(r) : ~(r[i].a = a /\ r[i].op = "finalize")
  BY <1>1 DEF Orders
<1>3. ASSUME NEW i \in 1 .. Len(r), NEW j \in 1 .. Len(r), i < j,
             r[i].a = a, r[i].op = "finalize", r[j].a = a
      PROVE  r[j].op \notin NeedsRegistration
  <2>1. i + 1 \in 1 .. Len(q) /\ j + 1 \in 1 .. Len(q) /\ i + 1 < j + 1
    BY <1>1, <1>3
  <2> QED BY <1>1, <1>3, <2>1 DEF Orders
<1>4. Orders(a, r)
  BY <1>2, <1>3 DEF Orders
<1> QED BY <1>4 DEF r

(* An answer, of the daemon or of libdbus, that changes nothing for a.     *)
LEMMA AnswerHolds ==
  ASSUME NEW a \in App, NEW q \in Seq(Sent), q # <<>>, NEW res \in Result,
         NEW rep \in [App -> Result \cup {"none"}],
         AppInv(a, q, rep, registered, forgot, served[a]),
         NEW r \in Seq(Sent), r = Tail(q),
         NEW rep2, rep2 = Answered(Head(q), rep, res),
         NEW reg2, NEW fg2,
         a \in reg2 <=> a \in registered, a \in fg2 <=> a \in forgot,
         Head(q).a = a =>
           /\ Head(q).op \in {"initialize", "set"} => res # "ok"
           /\ Head(q).op = "finalize" => res = "error" \/ (res # "ok" /\ a \in forgot)
  PROVE  AppInv(a, r, rep2, reg2, fg2, served[a])
<1>1. /\ Waits(a, q, rep) /\ Orders(a, q) /\ Registered(a, q, rep, registered, forgot)
      /\ Tidy(a, q, rep, registered) /\ Reports(a, q, rep, served[a])
  BY DEF AppInv
<1>2. /\ Len(r) \in Nat /\ Len(q) = Len(r) + 1 /\ 1 \in 1 .. Len(q)
      /\ \A i \in 1 .. Len(r) : r[i] = q[i + 1] /\ i + 1 \in 1 .. Len(q)
      /\ q[1] = Head(q)
      /\ rep2[a] = IF q[1].a = a /\ q[1].live THEN res ELSE rep[a]
      /\ q[1].a = a => rep[a] \in {"none", "error"}
      /\ q[1].a = a /\ q[1].live =>
           /\ q[1].op = Asked(app[a].call) /\ rep[a] = "none"
           /\ \A i \in 1 .. Len(r) : r[i].a # a
  <2>1. /\ Len(q) = Len(Tail(q)) + 1 /\ 1 \in 1 .. Len(q)
        /\ Len(Tail(q)) \in Nat /\ q[1] = Head(q)
        /\ \A i \in 1 .. Len(Tail(q)) :
             Tail(q)[i] = q[i + 1] /\ i + 1 \in 1 .. Len(q)
    BY RestWaits
  <2>2. q[1] \in Sent
    BY RestWaits
  <2>3. Answered(q[1], rep, res)[a]
          = IF q[1].a = a /\ q[1].live THEN res ELSE rep[a]
    BY <2>2, AnswerReaches
  <2>4. q[1].a = a =>
          /\ rep[a] \in {"none", "error"}
          /\ q[1].live =>
               /\ q[1].op = Asked(app[a].call) /\ rep[a] = "none"
               /\ \A i \in 1 .. Len(Tail(q)) : Tail(q)[i].a # a
    BY <1>1, FirstWaits
  <2> QED BY <2>1, <2>3, <2>4
<1>3. Waits(a, r, rep2)
  BY <1>1, <1>2 DEF Waits
<1>4. Orders(a, r)
  BY <1>1, RestOrders
<1>5. /\ Registers(a) /\ rep2[a] = "ok" => rep[a] = "ok"
      /\ app[a].call = "set" /\ rep2[a] = "ok" => rep[a] = "ok"
      /\ app[a].call = "finalize" /\ rep2[a] = "ok" => rep[a] = "ok"
      /\ app[a].call = "finalize" /\ rep2[a] \notin {"none", "ok", "error"} =>
           rep[a] = rep2[a] \/ a \in forgot
      /\ rep[a] = "ok" => rep2[a] = "ok"
  <2>1. CASE q[1].a = a /\ q[1].live
    BY <1>2, <2>1 DEF Registers, Asked
  <2>2. CASE ~(q[1].a = a /\ q[1].live)
    BY <1>2, <2>2
  <2> QED BY <2>1, <2>2
<1>6. Registered(a, r, rep2, reg2, fg2)
  <2>1. /\ a \in fg2 => a \notin reg2
        /\ app[a].state = "READY" /\ app[a].call # "finalize" =>
             a \in reg2 \cup fg2
        /\ Registers(a) /\ rep2[a] = "ok" => a \in reg2 \cup fg2
    BY <1>1, <1>5 DEF Registered
  <2>2. app[a].call = "finalize" /\ rep2[a] \notin {"none", "ok", "error"} =>
          a \in fg2
    BY <1>1, <1>5 DEF Registered
  <2>3. \A i \in 1 .. Len(r) :
          r[i].a = a /\ r[i].op \in NeedsRegistration => a \in reg2 \cup fg2
    BY <1>1, <1>2 DEF Registered
  <2> QED BY <2>1, <2>2, <2>3 DEF Registered
<1>7. Tidy(a, r, rep2, reg2)
  BY <1>1, <1>2, <1>5 DEF Tidy
<1>8. Reports(a, r, rep2, served[a])
  BY <1>1, <1>2, <1>5 DEF Reports
<1> QED BY <1>3, <1>4, <1>6, <1>7, <1>8 DEF AppInv

(* Initialize registers a, who is told so or has given it up.              *)
LEMMA RegisterHolds ==
  ASSUME NEW a \in App, NEW q \in Seq(Sent), q # <<>>,
         NEW rep \in [App -> Result \cup {"none"}], NEW reg, NEW fg, NEW s,
         AppInv(a, q, rep, reg, fg, s),
         NEW r \in Seq(Sent), r = Tail(q),
         NEW rep2, rep2 = Answered(Head(q), rep, "ok"), NEW reg2, NEW fg2,
         Head(q).a = a, Head(q).op = "initialize", a \in reg2, a \notin fg2
  PROVE  AppInv(a, r, rep2, reg2, fg2, s)
<1>1. /\ Waits(a, q, rep) /\ Orders(a, q) /\ Registered(a, q, rep, reg, fg)
      /\ Tidy(a, q, rep, reg) /\ Reports(a, q, rep, s)
  BY DEF AppInv
<1>2. /\ Len(r) \in Nat /\ Len(q) = Len(r) + 1 /\ 1 \in 1 .. Len(q)
      /\ \A i \in 1 .. Len(r) : r[i] = q[i + 1] /\ i + 1 \in 1 .. Len(q)
      /\ q[1] = Head(q)
      /\ rep2[a] = IF q[1].a = a /\ q[1].live THEN "ok" ELSE rep[a]
      /\ q[1].a = a => rep[a] \in {"none", "error"}
      /\ q[1].a = a /\ q[1].live =>
           /\ q[1].op = Asked(app[a].call) /\ rep[a] = "none"
           /\ \A i \in 1 .. Len(r) : r[i].a # a
  <2>1. /\ Len(q) = Len(Tail(q)) + 1 /\ 1 \in 1 .. Len(q)
        /\ Len(Tail(q)) \in Nat /\ q[1] = Head(q)
        /\ \A i \in 1 .. Len(Tail(q)) :
             Tail(q)[i] = q[i + 1] /\ i + 1 \in 1 .. Len(q)
    BY RestWaits
  <2>2. q[1] \in Sent
    BY RestWaits
  <2>3. Answered(q[1], rep, "ok")[a]
          = IF q[1].a = a /\ q[1].live THEN "ok" ELSE rep[a]
    BY <2>2, AnswerReaches
  <2>4. q[1].a = a =>
          /\ rep[a] \in {"none", "error"}
          /\ q[1].live =>
               /\ q[1].op = Asked(app[a].call) /\ rep[a] = "none"
               /\ \A i \in 1 .. Len(Tail(q)) : Tail(q)[i].a # a
    BY <1>1, FirstWaits
  <2> QED BY <2>1, <2>3, <2>4
<1>3. CASE q[1].live
  <2>1. Registers(a) /\ rep2[a] = "ok" /\ app[a].call \notin {"finalize", "set"}
    BY <1>2, <1>3 DEF Asked, Registers
  <2>2. Waits(a, r, rep2) /\ Orders(a, r)
    BY <1>2, <1>3 DEF Waits, Orders
  <2>3. Registered(a, r, rep2, reg2, fg2)
    BY <2>1 DEF Registered
  <2>4. Tidy(a, r, rep2, reg2)
    BY <1>2, <1>3, <2>1 DEF Tidy
  <2>5. Reports(a, r, rep2, s)
    BY <1>1, <1>2, <1>3, <2>1 DEF Reports
  <2> QED BY <2>2, <2>3, <2>4, <2>5 DEF AppInv
<1>4. CASE ~q[1].live
  <2>1. a \in spoiled /\ rep2[a] = rep[a] /\ rep[a] \in {"none", "error"}
    BY <1>1, <1>2, <1>4 DEF Tidy
  <2>2. Waits(a, r, rep2)
    BY <1>1, <1>2, <2>1 DEF Waits
  <2>3. Orders(a, r)
    BY <1>1, RestOrders
  <2>4. Registered(a, r, rep2, reg2, fg2)
    BY <2>1 DEF Registered
  <2>5. Tidy(a, r, rep2, reg2)
    BY <1>1, <1>2, <2>1 DEF Tidy
  <2>6. Reports(a, r, rep2, s)
    BY <1>1, <1>2, <2>1 DEF Reports
  <2> QED BY <2>2, <2>3, <2>4, <2>5, <2>6 DEF AppInv
<1> QED BY <1>3, <1>4

(* Finalize of one that is told so or has given up.                        *)
LEMMA UnregisterHolds ==
  ASSUME NEW a \in App, NEW q \in Seq(Sent), q # <<>>,
         NEW rep \in [App -> Result \cup {"none"}], NEW reg, NEW fg, NEW s,
         AppInv(a, q, rep, reg, fg, s),
         NEW r \in Seq(Sent), r = Tail(q),
         NEW rep2, rep2 = Answered(Head(q), rep, "ok"), NEW reg2,
         Head(q).a = a, Head(q).op = "finalize", a \notin reg2
  PROVE  AppInv(a, r, rep2, reg2, fg, s)
<1>1. /\ Waits(a, q, rep) /\ Orders(a, q) /\ Registered(a, q, rep, reg, fg)
      /\ Tidy(a, q, rep, reg) /\ Reports(a, q, rep, s)
  BY DEF AppInv
<1>2. /\ Len(r) \in Nat /\ Len(q) = Len(r) + 1 /\ 1 \in 1 .. Len(q)
      /\ \A i \in 1 .. Len(r) : r[i] = q[i + 1] /\ i + 1 \in 1 .. Len(q)
      /\ q[1] = Head(q) /\ q[1] \in Sent
  BY RestWaits
<1>3. /\ rep[a] \in {"none", "error"}
      /\ q[1].live => /\ q[1].op = Asked(app[a].call) /\ rep[a] = "none"
                      /\ \A i \in 1 .. Len(r) : r[i].a # a
  <2>1. q[1].a = a
    BY <1>2
  <2>2. /\ rep[a] \in {"none", "error"}
        /\ q[1].live =>
             /\ q[1].op = Asked(app[a].call) /\ rep[a] = "none"
             /\ \A i \in 1 .. Len(Tail(q)) : Tail(q)[i].a # a
    BY <1>1, <2>1, FirstWaits
  <2> QED BY <2>2
<1>4. rep2[a] = IF q[1].live THEN "ok" ELSE rep[a]
  <2>1. Answered(q[1], rep, "ok")[a]
          = IF q[1].a = a /\ q[1].live THEN "ok" ELSE rep[a]
    BY <1>2, AnswerReaches
  <2> QED BY <1>2, <2>1
<1>5. /\ app[a].state = "READY" => app[a].call = "finalize"
      /\ ~(Registers(a) /\ rep2[a] = "ok") /\ ~(app[a].call = "set" /\ rep2[a] = "ok")
      /\ rep2[a] \in {"none", "ok", "error"}
  <2>1. app[a].state = "READY" => app[a].call = "finalize"
    BY <1>1, <1>2 DEF Orders
  <2>2. rep2[a] = "ok" => Asked(app[a].call) = "finalize"
    BY <1>2, <1>3, <1>4
  <2> QED BY <1>3, <1>4, <2>1, <2>2 DEF Asked, Registers
<1>6. \A i \in 1 .. Len(r) : r[i].a = a => r[i].op \notin NeedsRegistration
  <2>1. \A i \in 1 .. Len(r) : i + 1 > 1
    BY <1>2
  <2> QED BY <1>1, <1>2, <2>1 DEF Orders
<1>7. Waits(a, r, rep2)
  BY <1>1, <1>2, <1>3, <1>4 DEF Waits
<1>8. Orders(a, r)
  BY <1>1, RestOrders
<1>9. Registered(a, r, rep2, reg2, fg)
  BY <1>5, <1>6 DEF Registered
<1>10. Tidy(a, r, rep2, reg2)
  BY <1>1, <1>2 DEF Tidy
<1>11. Reports(a, r, rep2, s)
  BY <1>1, <1>2, <1>5 DEF Reports
<1> QED BY <1>7, <1>8, <1>9, <1>10, <1>11 DEF AppInv

(* Set of one that is told so or has given up.                             *)
LEMMA SetHolds ==
  ASSUME NEW a \in App, NEW q \in Seq(Sent), q # <<>>,
         NEW rep \in [App -> Result \cup {"none"}], NEW reg, NEW fg, NEW s,
         AppInv(a, q, rep, reg, fg, s),
         NEW r \in Seq(Sent), r = Tail(q),
         NEW res \in {"ok", "failed"}, NEW rep2, rep2 = Answered(Head(q), rep, res),
         Head(q).a = a, Head(q).op = "set"
  PROVE  AppInv(a, r, rep2, reg, fg, Head(q).value)
<1>1. /\ Waits(a, q, rep) /\ Orders(a, q) /\ Registered(a, q, rep, reg, fg)
      /\ Tidy(a, q, rep, reg) /\ Reports(a, q, rep, s)
  BY DEF AppInv
<1>2. /\ Len(r) \in Nat /\ Len(q) = Len(r) + 1 /\ 1 \in 1 .. Len(q)
      /\ \A i \in 1 .. Len(r) : r[i] = q[i + 1] /\ i + 1 \in 1 .. Len(q)
      /\ q[1] = Head(q) /\ q[1] \in Sent
  BY RestWaits
<1>3. /\ rep[a] \in {"none", "error"}
      /\ q[1].live => /\ q[1].op = Asked(app[a].call) /\ rep[a] = "none"
                      /\ \A i \in 1 .. Len(r) : r[i].a # a
  <2>1. q[1].a = a
    BY <1>2
  <2>2. /\ rep[a] \in {"none", "error"}
        /\ q[1].live =>
             /\ q[1].op = Asked(app[a].call) /\ rep[a] = "none"
             /\ \A i \in 1 .. Len(Tail(q)) : Tail(q)[i].a # a
    BY <1>1, <2>1, FirstWaits
  <2> QED BY <2>2
<1>4. rep2[a] = IF q[1].live THEN res ELSE rep[a]
  <2>1. Answered(q[1], rep, res)[a]
          = IF q[1].a = a /\ q[1].live THEN res ELSE rep[a]
    BY <1>2, AnswerReaches DEF Result
  <2> QED BY <1>2, <2>1
<1>5. /\ rep2[a] \in {"ok", "failed"} => app[a].call = "set"
      /\ rep2[a] \in {"none", "ok", "failed", "error"} /\ told[a] = NoValue
  <2>1. app[a].call \in {"hello", "connect hello", "initialize", "connect"}
          => Asked(app[a].call) # "set"
    BY DEF Asked
  <2>2. app[a].call \notin {"hello", "connect hello", "initialize", "connect"}
          => Asked(app[a].call) = app[a].call
    BY DEF Asked
  <2>3. rep2[a] \in {"ok", "failed"} => Asked(app[a].call) = "set"
    BY <1>2, <1>3, <1>4
  <2>4. told[a] = NoValue
    BY <1>1, <1>2 DEF Reports
  <2> QED BY <1>3, <1>4, <2>1, <2>2, <2>3, <2>4
<1>6. app[a].call = "set" /\ rep2[a] = "ok" => Head(q).value = app[a].value
  BY <1>1, <1>2, <1>3, <1>4 DEF Waits
<1>7. Waits(a, r, rep2)
  BY <1>1, <1>2, <1>3, <1>4 DEF Waits
<1>8. Orders(a, r)
  BY <1>1, RestOrders
<1>9. Registered(a, r, rep2, reg, fg)
  <2>1. ~(Registers(a) /\ rep2[a] = "ok")
    BY <1>5 DEF Registers
  <2> QED BY <1>1, <1>2, <1>5, <2>1 DEF Registered
<1>10. Tidy(a, r, rep2, reg)
  BY <1>1, <1>2, <1>3, <1>5 DEF Tidy
<1>11. Reports(a, r, rep2, Head(q).value)
  BY <1>5, <1>6 DEF Reports
<1> QED BY <1>7, <1>8, <1>9, <1>10, <1>11 DEF AppInv

(* What the daemon answers is right for all.  rep: the replies so far.     *)
LEMMA ServeHolds ==
  ASSUME NEW a \in App, NEW q \in Seq(Sent), q # <<>>, NEW r \in Seq(Sent),
         r = Tail(q), NEW rep \in [App -> Result \cup {"none"}],
         AppInv(a, q, rep, registered, forgot, served[a]),
         served \in [App -> Value \cup {NoValue}], Serve(Head(q), rep)
  PROVE  AppInv(a, r, reply', registered', forgot', served'[a])
<1> DEFINE e == Head(q)
<1>1. /\ q[1] = e /\ 1 \in 1 .. Len(q) /\ e \in Sent
  BY RestWaits
<1>2. e.op = "other" => e.a # a
  BY <1>1, AppAssumption DEF Sent
<1> HIDE DEF e
<1>3. ASSUME NEW res \in Result, Answers(e, rep, res),
             a \in registered' <=> a \in registered,
             a \in forgot' <=> a \in forgot,
             served'[a] = served[a],
             e.a = a => /\ e.op \in {"initialize", "set"} => res # "ok"
                        /\ e.op = "finalize" =>
                             res = "error" \/ (res # "ok" /\ a \in forgot)
      PROVE  AppInv(a, r, reply', registered', forgot', served'[a])
  <2>1. reply' = Answered(Head(q), rep, res)
    BY <1>3 DEF Answers, e
  <2>2. Head(q).a = a =>
          /\ Head(q).op \in {"initialize", "set"} => res # "ok"
          /\ Head(q).op = "finalize" => res = "error" \/ (res # "ok" /\ a \in forgot)
    BY <1>3 DEF e
  <2> QED BY <1>3, <2>1, <2>2, AnswerHolds
<1>4. {"ok", "refused", "noengine", "failed"} \subseteq Result
  BY DEF Result
<1>5. CASE ServeHello(e, rep)
  BY <1>3, <1>4, <1>5 DEF ServeHello
<1>6. CASE ServeInitialize(e, rep)
  <2>1. served' = served /\ e.op = "initialize"
    BY <1>6 DEF ServeInitialize
  <2>2. CASE \E res \in {"noengine", "refused", "failed"} :
               Answers(e, rep, res) /\ UNCHANGED <<registered, forgot>>
    BY <1>3, <1>4, <2>1, <2>2
  <2>3. CASE /\ Answers(e, rep, "ok")
             /\ registered' = registered \cup {e.a} /\ forgot' = forgot \ {e.a}
    <3>1. CASE e.a # a
      BY <1>3, <1>4, <2>1, <2>3, <3>1
    <3>2. CASE e.a = a
      <4>1. reply' = Answered(Head(q), rep, "ok") /\ Head(q).a = a
            /\ Head(q).op = "initialize"
        BY <2>1, <2>3, <3>2 DEF Answers, e
      <4>2. a \in registered' /\ a \notin forgot'
        BY <2>3, <3>2
      <4>3. AppInv(a, r, reply', registered', forgot', served[a])
        BY <4>1, <4>2, RegisterHolds
      <4> QED BY <2>1, <4>3
    <3> QED BY <3>1, <3>2
  <2> QED BY <1>6, <2>2, <2>3 DEF ServeInitialize
<1>7. CASE Refuses(e, rep)
  <2>1. e.op \in NeedsRegistration /\ e.a = a => a \in forgot
    BY <1>1, <1>7 DEF Refuses, AppInv, Registered
  <2> QED BY <1>3, <1>4, <1>7, <2>1 DEF Refuses, NeedsRegistration
<1>8. CASE ServeFinalize(e, rep)
  <2>1. /\ Answers(e, rep, "ok") /\ registered' = registered \ {e.a}
        /\ e.op = "finalize" /\ UNCHANGED <<forgot, served>>
    BY <1>8 DEF ServeFinalize
  <2>2. CASE e.a # a
    BY <1>3, <1>4, <2>1, <2>2
  <2>3. CASE e.a = a
    <3>1. reply' = Answered(Head(q), rep, "ok") /\ Head(q).a = a
          /\ Head(q).op = "finalize"
      BY <2>1, <2>3 DEF Answers, e
    <3>2. a \notin registered'
      BY <2>1, <2>3
    <3>3. AppInv(a, r, reply', registered', forgot, served[a])
      BY <3>1, <3>2, UnregisterHolds
    <3> QED BY <2>1, <3>3
  <2> QED BY <2>2, <2>3
<1>9. CASE ServeGet(e, rep)
  BY <1>3, <1>4, <1>9 DEF ServeGet
<1>10. CASE ServeSet(e, rep)
  <2>1. /\ UNCHANGED <<registered, forgot>> /\ e.op = "set"
        /\ served' = [served EXCEPT ![e.a] = e.value]
    BY <1>10 DEF ServeSet
  <2>2. PICK res \in {"ok", "failed"} : Answers(e, rep, res)
    BY <1>10 DEF ServeSet
  <2>3. CASE e.a # a
    <3>1. served'[a] = served[a]
      BY <2>1, <2>3
    <3> QED BY <1>3, <1>4, <2>1, <2>2, <2>3, <3>1
  <2>4. CASE e.a = a
    <3>1. reply' = Answered(Head(q), rep, res) /\ Head(q).a = a
          /\ Head(q).op = "set" /\ served'[a] = Head(q).value
      BY <2>1, <2>2, <2>4 DEF Answers, e
    <3>2. AppInv(a, r, reply', registered, forgot, Head(q).value)
      BY <3>1, SetHolds
    <3> QED BY <2>1, <3>1, <3>2
  <2> QED BY <2>3, <2>4
<1>11. CASE ServeOther(e, rep)
  BY <1>2, <1>3, <1>4, <1>11 DEF ServeOther
<1>12. Serve(e, rep)
  BY DEF e
<1> QED BY <1>5, <1>6, <1>7, <1>8, <1>9, <1>10, <1>11, <1>12 DEF Serve

(* Nothing but the daemon and its answers changed.  q: what waits now.     *)
LEMMA DaemonHolds ==
  ASSUME NEW a \in App, UNCHANGED <<app, spoiled, told>>, NEW q, Queue' = q,
         AppInv(a, q, reply', registered', forgot', served'[a])
  PROVE  Holds(a)'
<1>1. Waits(a, q, reply)'
  BY DEF AppInv, Waits
<1>2. Orders(a, q)'
  BY DEF AppInv, Orders
<1>3. Registered(a, q, reply, registered, forgot)'
  BY DEF AppInv, Registered, Registers
<1>4. Tidy(a, q, reply, registered)'
  BY DEF AppInv, Tidy, Registers
<1>5. Reports(a, q, reply, served[a])'
  BY DEF AppInv, Reports
<1>6. AppInv(a, q, reply, registered, forgot, served[a])'
  BY <1>1, <1>2, <1>3, <1>4, <1>5 DEF AppInv
<1> QED BY <1>6 DEF Holds

LEMMA ListensHolds ==
  ASSUME TypeInv, SettingInv, inbox # <<>>, NEW r \in Taken(kept, inbox),
         Listens(r)
  PROVE  SettingInv'
<1> DEFINE q == Queue
           t == r.queue \o r.sock
<1>1. /\ q \in Seq(Sent) /\ inbox \in Seq(Sent) /\ kept \in Seq(Sent)
      /\ reply \in [App -> Result \cup {"none"}]
      /\ served \in [App -> Value \cup {NoValue}]
  BY QueuesType DEF TypeInv, TypeOK
<1>2. UNCHANGED <<app, spoiled, told>> /\ Queue' = t
  BY DEF Listens, Queue
<1>3. /\ q # <<>>
      /\ \/ r.lost = <<>> /\ r.got = <<Head(q)>> /\ t = Tail(q)
         \/ r.lost = <<Head(q)>> /\ r.got = <<>> /\ t = Tail(q)
         \/ /\ r.lost = <<Head(q)>> /\ Tail(q) # <<>>
            /\ r.got = <<Head(Tail(q))>> /\ t = Tail(Tail(q))
  BY <1>1, TakenFirst DEF Queue
<1>4. Tail(q) \in Seq(Sent) /\ (Tail(q) # <<>> => Tail(Tail(q)) \in Seq(Sent))
  BY <1>1, <1>3, HeadTailProperties
<1>5. ASSUME NEW a \in App
      PROVE  AppInv(a, q, reply, registered, forgot, served[a])
  BY DEF SettingInv
<1>6. /\ r.got = <<>> =>
           /\ reply' = AfterLoss(r.lost)
           /\ UNCHANGED <<registered, forgot, served>>
      /\ r.got # <<>> => Serve(r.got[1], AfterLoss(r.lost))
  BY DEF Listens
<1>7. "error" \in Result
  BY DEF Result
<1> HIDE DEF q, t
<1>8. ASSUME NEW a \in App, r.lost = <<Head(q)>>
      PROVE  /\ AppInv(a, Tail(q), AfterLoss(r.lost), registered, forgot,
                       served[a])
             /\ AfterLoss(r.lost) \in [App -> Result \cup {"none"}]
  <2>1. AfterLoss(r.lost) = Answered(Head(q), reply, "error")
    BY <1>8 DEF AfterLoss
  <2>2. AfterLoss(r.lost) \in [App -> Result \cup {"none"}]
    BY <1>1, <1>7, AnsweredType DEF AfterLoss
  <2>3. AppInv(a, q, reply, registered, forgot, served[a])
    BY <1>5
  <2>4. AppInv(a, Tail(q), AfterLoss(r.lost), registered, forgot,
              served[a])
    BY <1>1, <1>3, <1>4, <1>7, <2>1, <2>3, AnswerHolds
  <2> QED BY <2>2, <2>4
<1>9. ASSUME NEW a \in App
      PROVE  Holds(a)'
  <2>1. AppInv(a, t, reply', registered', forgot', served'[a])
    <3>1. CASE r.lost = <<>> /\ r.got = <<Head(q)>> /\ t = Tail(q)
      <4>1. Serve(Head(q), reply)
        BY <1>6, <3>1 DEF AfterLoss
      <4>2. AppInv(a, q, reply, registered, forgot, served[a])
        BY <1>5
      <4> QED BY <1>1, <1>3, <1>4, <3>1, <4>1, <4>2, ServeHolds
    <3>2. CASE r.lost = <<Head(q)>> /\ r.got = <<>> /\ t = Tail(q)
      BY <1>6, <1>8, <3>2
    <3>3. CASE /\ r.lost = <<Head(q)>> /\ Tail(q) # <<>>
               /\ r.got = <<Head(Tail(q))>> /\ t = Tail(Tail(q))
      <4> DEFINE rest == Tail(q)
                 rep == AfterLoss(r.lost)
      <4>1. Serve(Head(rest), rep)
        BY <1>6, <3>3
      <4>2. /\ AppInv(a, rest, rep, registered, forgot, served[a])
            /\ rep \in [App -> Result \cup {"none"}]
        BY <1>8, <3>3
      <4>3. /\ rest \in Seq(Sent) /\ rest # <<>> /\ t \in Seq(Sent)
            /\ t = Tail(rest)
        BY <1>4, <3>3
      <4> HIDE DEF rest, rep
      <4> QED BY <1>1, <4>1, <4>2, <4>3, ServeHolds
    <3> QED BY <1>3, <3>1, <3>2, <3>3
  <2> QED BY <1>2, <2>1, DaemonHolds
<1> QED BY <1>9 DEF SettingInv, Holds

LEMMA DiesHolds ==
  ASSUME TypeInv, SettingInv, Dies
  PROVE  SettingInv'
<1>1. /\ UNCHANGED <<app, spoiled, told, served>> /\ Queue' = <<>>
      /\ registered' = {} /\ forgot' = App
      /\ reply' = [a \in App |-> IF a \in Waiting THEN "error" ELSE reply[a]]
  <2>1. \A q \in Seq(Sent) : <<>> \o q = q
    BY ConcatEmptySeq
  <2>2. <<>> \in Seq(Sent)
    BY EmptySeq
  <2>3. <<>> \o <<>> = <<>>
    BY <2>1, <2>2
  <2> QED BY <2>3 DEF Dies, Queue
<1>2. ASSUME NEW a \in App
      PROVE  Holds(a)'
  <2>1. AppInv(a, Queue, reply, registered, forgot, served[a])
    BY DEF SettingInv
  <2>2. Len(<<>>) = 0
    BY EmptySeq
  <2>3. reply'[a] \in {"error", reply[a]}
    BY <1>1
  <2> DEFINE q == <<>>
  <2>4. Len(q) = 0
    BY <2>2
  <2> HIDE DEF q
  <2>5. Waits(a, q, reply')
    BY <2>4 DEF Waits
  <2>6. Orders(a, q)
    BY <2>4 DEF Orders
  <2>7. Registered(a, q, reply', registered', forgot')
    BY <1>1, <2>4 DEF Registered
  <2>8. Tidy(a, q, reply', registered')
    BY <1>1, <2>4 DEF Tidy
  <2>9. Reports(a, q, reply', served'[a])
    BY <1>1, <2>1, <2>3, <2>4 DEF AppInv, Reports
  <2>10. AppInv(a, q, reply', registered', forgot', served'[a])
    BY <2>5, <2>6, <2>7, <2>8, <2>9 DEF AppInv
  <2> QED BY <1>1, <2>10, DaemonHolds DEF q
<1> QED BY <1>2 DEF SettingInv, Holds

LEMMA EnvironmentHolds ==
  ASSUME TypeInv, TypeInv', SettingInv, Start \/ StartedByOthers \/ OtherAsks
  PROVE  SettingInv'
<1>1. /\ inbox \in Seq(Sent) /\ kept \in Seq(Sent)
      /\ Queue \in Seq(Sent) /\ Queue' \in Seq(Sent)
  BY QueuesType, Joined DEF TypeInv, Queue
<1>2. UNCHANGED <<app, reply, registered, forgot, served, spoiled, told>>
  BY DEF Start, StartedByOthers, OtherAsks, daemonVars, historyVars
<1>3. ASSUME NEW b \in App
      PROVE  SameFor(b, Queue, Queue')
  <2>1. CASE Start \/ StartedByOthers
    <3>1. Queue' = Queue
      BY <2>1 DEF Start, StartedByOthers, queueVars, Queue
    <3> QED BY <1>1, <3>1, QueueType DEF SameFor
  <2>2. CASE OtherAsks
    <3> DEFINE e == Req("other", NoApp, NoValue, FALSE)
    <3>1. e \in Sent /\ e.a # b
      BY AppAssumption DEF Req, Sent, Request, Method
    <3>2. Queue' = Append(Queue, e)
      <4>1. Queue' = kept \o Append(inbox, e)
        BY <2>2 DEF OtherAsks, Queue
      <4> HIDE DEF e
      <4>2. /\ Append(inbox, e) = inbox \o <<e>> /\ <<e>> \in Seq(Sent)
            /\ Append(kept \o inbox, e) = (kept \o inbox) \o <<e>>
        BY <1>1, <3>1, AppendIsConcat, ConcatProperties DEF Queue
      <4>3. (kept \o inbox) \o <<e>> = kept \o (inbox \o <<e>>)
        BY <1>1, <4>2, ConcatAssociative
      <4> QED BY <4>1, <4>2, <4>3 DEF Queue
    <3> HIDE DEF e
    <3>3. /\ Len(Queue') = Len(Queue) + 1 /\ Queue'[Len(Queue) + 1] = e
          /\ \A i \in 1 .. Len(Queue) : Queue'[i] = Queue[i]
          /\ Len(Queue) \in Nat
      BY <1>1, <3>1, <3>2, AppendProperties, QueueType
    <3> QED BY <3>1, <3>3 DEF SameFor
  <2> QED BY <2>1, <2>2
<1>4. ASSUME NEW b \in App
      PROVE  Holds(b)'
  <2>1. AppInv(b, Queue, reply, registered, forgot, served[b])
    BY DEF SettingInv
  <2> QED BY <1>1, <1>2, <1>3, <2>1, OthersHold DEF Holds
<1> QED BY <1>4 DEF SettingInv, Holds

LEMMA SettingInit == Init => SettingInv
<1> SUFFICES ASSUME Init, NEW a \in App
             PROVE  AppInv(a, Queue, reply, registered, forgot, served[a])
  BY DEF SettingInv
<1>1. Queue = <<>>
  <2>1. \A q \in Seq(Sent) : <<>> \o q = q
    BY ConcatEmptySeq
  <2>2. <<>> \in Seq(Sent)
    BY EmptySeq
  <2>3. <<>> \o <<>> = <<>>
    BY <2>1, <2>2
  <2> QED BY <2>3 DEF Init, Queue
<1>2. Len(Queue) = 0
  BY <1>1, EmptySeq
<1>3. /\ app[a].state = "NONE" /\ app[a].call = "none" /\ reply[a] = "none"
      /\ registered = {} /\ forgot = {} /\ told[a] = NoValue
  BY DEF Init, NewMemory
<1> HIDE DEF Queue
<1>4. Waits(a, Queue, reply) /\ Orders(a, Queue)
  BY <1>2, <1>3 DEF Waits, Orders
<1>5. Registered(a, Queue, reply, registered, forgot)
  BY <1>2, <1>3 DEF Registered, Registers
<1>6. Tidy(a, Queue, reply, registered) /\ Reports(a, Queue, reply, served[a])
  BY <1>2, <1>3 DEF Tidy, Reports
<1> QED BY <1>4, <1>5, <1>6 DEF AppInv

LEMMA SettingStep ==
  ASSUME TypeInv, TypeInv', SettingInv, [Next]_vars
  PROVE  SettingInv'
<1>1. CASE UNCHANGED vars
  <2>1. /\ UNCHANGED <<app, spoiled, told, reply, registered, forgot, served>>
        /\ Queue' = Queue
    BY <1>1 DEF vars, Queue
  <2>2. ASSUME NEW a \in App
        PROVE  Holds(a)'
    <3>1. AppInv(a, Queue, reply', registered', forgot', served'[a])
      BY <2>1 DEF SettingInv
    <3> QED BY <2>1, <3>1, DaemonHolds
  <2> QED BY <2>2 DEF SettingInv, Holds
<1>2. ASSUME NEW a \in App, Calls(a) \/ MainLoop(a) \/ Exit(a)
      PROVE  SettingInv'
  BY <1>2, CallsHold, UnblocksHolds, TimersHold, ExitHolds DEF MainLoop
<1>3. CASE Daemon \/ StartedByOthers \/ OtherAsks
  BY <1>3, ListensHolds, EnvironmentHolds DEF Daemon, Listener
<1>4. CASE Crash \/ CrashOfRefusal
  BY <1>4, DiesHolds DEF Crash, CrashOfRefusal
<1> QED BY <1>1, <1>2, <1>3, <1>4 DEF Next

LEMMA SettingInvariant == Spec => [](TypeInv /\ SettingInv)
<1>1. Init => TypeInv /\ SettingInv
  BY TypeInit, SettingInit
<1>2. TypeInv /\ SettingInv /\ [Next]_vars => (TypeInv /\ SettingInv)'
  BY TypeStep, SettingStep
<1> QED BY <1>1, <1>2, PTL DEF Spec

(* A setting application that is READY is registered in the daemon it      *)
(* initialized with, whichever requests were lost or late.                 *)
THEOREM ReadyAreRegistered == Spec => []ReadyIsRegistered
<1>1. SettingInv => ReadyIsRegistered
  BY DEF SettingInv, AppInv, Registered, ReadyIsRegistered
<1> QED BY <1>1, SettingInvariant, PTL

(* Every request that needs a registration will find it, unless the daemon  *)
(* was restarted under its application.                                    *)
THEOREM RequestsAreExpected == Spec => []RequestsFindRegistered
<1>1. TypeInv /\ SettingInv => RequestsFindRegistered
  <2> SUFFICES ASSUME TypeInv, SettingInv, NEW i \in DOMAIN Queue,
                      Queue[i].op \in NeedsRegistration, Queue[i].a \notin forgot
               PROVE  /\ Queue[i].a \in registered
                      /\ \A j \in 1 .. i - 1 :
                           ~(Queue[j].a = Queue[i].a /\ Queue[j].op = "finalize")
    BY DEF RequestsFindRegistered
  <2>1. Queue \in Seq(Sent)
    BY QueuesType
  <2>2. Len(Queue) \in Nat /\ i \in 1 .. Len(Queue) /\ Queue[i] \in Sent
    BY <2>1, LenProperties, ElementOfSeq
  <2>3. Queue[i].a \in App
    BY <2>2 DEF Sent, Request, NeedsRegistration
  <2> DEFINE a == Queue[i].a
  <2>4. Orders(a, Queue) /\ Registered(a, Queue, reply, registered, forgot)
    BY <2>3 DEF SettingInv, AppInv
  <2>5. a \in registered
    BY <2>2, <2>4 DEF Registered
  <2>6. ASSUME NEW j \in 1 .. i - 1
        PROVE  ~(Queue[j].a = a /\ Queue[j].op = "finalize")
    <3>1. j \in 1 .. Len(Queue) /\ j < i
      BY <2>2
    <3> QED BY <2>2, <2>4, <3>1 DEF Orders
  <2> QED BY <2>5, <2>6
<1> QED BY <1>1, SettingInvariant, PTL

(* A registration without an application that is READY is left behind only  *)
(* by a request that got no answer, or by the end of the process.          *)
THEOREM NothingStaysRegistered == Spec => []NothingRegisteredBehind
<1>1. TypeInv /\ SettingInv => NothingRegisteredBehind
  <2>1. TypeInv => registered \subseteq App
    BY DEF TypeInv, TypeOK
  <2> QED BY <2>1 DEF SettingInv, AppInv, Tidy, Registers, NothingRegisteredBehind
<1> QED BY <1>1, SettingInvariant, PTL

(* A set reported as done is the last one handled: no set that was given    *)
(* up comes after it.                                                      *)
THEOREM NoSetComesLate == Spec => []ReportedSetIsLast
<1>1. SettingInv => ReportedSetIsLast
  BY DEF SettingInv, AppInv, Reports, ReportedSetIsLast
<1> QED BY <1>1, SettingInvariant, PTL
===============================================================================
