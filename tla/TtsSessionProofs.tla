-------------------------- MODULE TtsSessionProofs ---------------------------
(***************************************************************************)
(* TtsSession is type correct, an application is told its state and the    *)
(* right utterance, leaves nothing behind in the daemon and is not thrown  *)
(* out by its sweep while it is free to answer, for any number of handles, *)
(* any bounds, failures and other applications.                            *)
(***************************************************************************)
EXTENDS TtsSession, DBusQueueProofs, SequenceTheorems, FiniteSetTheorems, TLAPS

-------------------------------------------------------------------------------
(* Messages and queues.                                                    *)

LEMMA SingleType ==
  ASSUME NEW S, NEW x \in S
  PROVE  <<x>> \in Seq(S)
OBVIOUS

LEMMA FunctionIsSeq ==
  ASSUME NEW T, NEW n \in Nat, NEW f \in [1 .. n -> T]
  PROVE  f \in Seq(T)
OBVIOUS

LEMMA MsgType ==
  ASSUME NEW k \in Notice \cup {"hello", "void", "reply", "late"},
         NEW h \in Handle \cup {NoHandle}, NEW s \in State, NEW n \in Nat
  PROVE  Msg(k, h, s, n) \in Message
BY DEF Msg, Message

LEMMA EntType ==
  ASSUME NEW op \in Method \cup {"yes", "no", "stale", "interrupt", "engine"},
         NEW h \in Handle \cup {NoHandle}, NEW n \in Nat,
         NEW a \in {"live", "late", "none"}
  PROVE  Ent(op, h, n, a) \in Entry
BY DEF Ent, Entry

LEMMA NoLongerType ==
  ASSUME NEW q \in Seq(Entry), NEW from, NEW to \in {"live", "late", "none"}
  PROVE  NoLonger(q, from, to) \in Seq(Entry)
<1>1. Len(q) \in Nat /\ DOMAIN q = 1 .. Len(q)
  BY LenProperties
<1>2. \A i \in 1 .. Len(q) : q[i] \in Entry
  BY ElementOfSeq
<1>3. \A e \in Entry : [e EXCEPT !.answer = to] \in Entry
  BY DEF Entry
<1>4. NoLonger(q, from, to) \in [1 .. Len(q) -> Entry]
  BY <1>1, <1>2, <1>3 DEF NoLonger
<1> QED BY <1>1, <1>4, FunctionIsSeq

LEMMA VoidedType ==
  ASSUME NEW q \in Seq(Message)
  PROVE  Voided(q) \in Seq(Message)
<1>1. Len(q) \in Nat /\ DOMAIN q = 1 .. Len(q)
  BY LenProperties
<1>2. \A i \in 1 .. Len(q) : q[i] \in Message
  BY ElementOfSeq
<1>3. \A m \in Message : [m EXCEPT !.kind = "void"] \in Message
  BY DEF Message
<1>4. Voided(q) \in [1 .. Len(q) -> Message]
  BY <1>1, <1>2, <1>3 DEF Voided
<1> QED BY <1>1, <1>4, FunctionIsSeq

-------------------------------------------------------------------------------
(* The connection.                                                         *)

LEMMA BusFields ==
  ASSUME NEW b \in Bus
  PROVE  /\ b.wire \in Seq(Message) /\ b.held \in Seq(Message)
         /\ b.inbox \in Seq(Entry) /\ b.kept \in Seq(Entry)
         /\ b.result \in {"none", "ok", "failed"}
BY DEF Bus

LEMMA BusMade ==
  ASSUME NEW ms \in Seq(Message), NEW hs \in Seq(Message), NEW is \in Seq(Entry),
         NEW ks \in Seq(Entry)
  PROVE  [wire |-> ms, held |-> hs, inbox |-> is, kept |-> ks, result |-> "none"]
           \in Bus
BY DEF Bus

LEMMA ClientEndChanged ==
  ASSUME NEW b \in Bus, NEW ms \in Seq(Message), NEW hs \in Seq(Message)
  PROVE  /\ [b EXCEPT !.wire = ms] \in Bus
         /\ [b EXCEPT !.held = hs, !.wire = ms] \in Bus
         /\ [b EXCEPT !.held = hs, !.wire = ms, !.result = "none"] \in Bus
BY DEF Bus

LEMMA DaemonEndChanged ==
  ASSUME NEW b \in Bus, NEW is \in Seq(Entry), NEW ks \in Seq(Entry)
  PROVE  /\ [b EXCEPT !.inbox = is] \in Bus
         /\ [b EXCEPT !.kept = ks, !.inbox = is] \in Bus
BY DEF Bus

LEMMA ToClientType ==
  ASSUME NEW b \in Bus, NEW ms \in Seq(Message)
  PROVE  ToClient(b, ms) \in Bus /\ Sent(b, ms) \in Bus
<1>1. b.wire \o ms \in Seq(Message)
  BY BusFields, ConcatProperties
<1>2. ToClient(b, ms) \in Bus
  BY <1>1 DEF Bus, ToClient
<1> QED BY <1>2 DEF Sent

LEMMA ToDaemonType ==
  ASSUME NEW b \in Bus, NEW es \in Seq(Entry)
  PROVE  ToDaemon(b, es) \in Bus
<1>1. b.inbox \o es \in Seq(Entry)
  BY BusFields, ConcatProperties
<1> QED BY <1>1 DEF Bus, ToDaemon

LEMMA ClosedType ==
  ASSUME NEW b \in Bus
  PROVE  Closed(b) \in Bus
<1> DEFINE answer == IF Asked(b) THEN <<Ent("no", NoHandle, NoUtt, "none")>> ELSE <<>>
<1>1. Ent("no", NoHandle, NoUtt, "none") \in Entry
  BY EntType DEF NoUtt
<1>2. answer \in Seq(Entry) /\ <<>> \in Seq(Message)
  BY <1>1, SingleType, EmptySeq
<1>3. /\ NoLonger(b.inbox, {"live", "late"}, "none") \in Seq(Entry)
      /\ NoLonger(b.kept, {"live", "late"}, "none") \in Seq(Entry)
  BY BusFields, NoLongerType
<1>4. NoLonger(b.inbox, {"live", "late"}, "none") \o answer \in Seq(Entry)
  BY <1>2, <1>3, ConcatProperties
<1> HIDE DEF answer
<1>5. Closed(b) = [wire |-> <<>>, held |-> <<>>,
                   inbox |-> NoLonger(b.inbox, {"live", "late"}, "none") \o answer,
                   kept |-> NoLonger(b.kept, {"live", "late"}, "none"),
                   result |-> "none"]
  BY DEF Closed, answer
<1> QED BY <1>2, <1>3, <1>4, <1>5, BusMade

LEMMA GivenUpType ==
  ASSUME NEW b \in Bus
  PROVE  GivenUp(b) \in Bus
<1>1. b.held \o b.wire \in Seq(Message) /\ <<>> \in Seq(Message)
  BY BusFields, ConcatProperties, EmptySeq
<1>2. /\ NoLonger(b.inbox, {"live"}, "late") \in Seq(Entry)
      /\ NoLonger(b.kept, {"live"}, "late") \in Seq(Entry)
  BY BusFields, NoLongerType
<1>3. GivenUp(b) = [wire |-> <<>>, held |-> b.held \o b.wire,
                    inbox |-> NoLonger(b.inbox, {"live"}, "late"),
                    kept |-> NoLonger(b.kept, {"live"}, "late"),
                    result |-> "none"]
  BY DEF GivenUp
<1> QED BY <1>1, <1>2, <1>3, BusMade

-------------------------------------------------------------------------------
(* The application.  Connecting is what keeps timers a natural number: the  *)
(* timer of tts_prepare is pending while the requests that it made block.   *)

Timers == [Handle -> [TimerKind -> Nat]]

Connecting ==
  request.op \in {"hello", "initialize"} => timers[request.h]["connect"] > 0

ClientInv == ClientTypeOK /\ Connecting
TypeInv == TypeOK /\ Connecting

LEMMA HandlesType == NewHandle \in Client /\ Freed \in Client
BY DEF NewHandle, Freed, Client, State, NoUtt

LEMMA ClientChanged ==
  ASSUME client \in [Handle -> Client], NEW h \in Handle
  PROVE  /\ \A s \in State : [client EXCEPT ![h].state = s] \in [Handle -> Client]
         /\ \A n \in Nat : /\ [client EXCEPT ![h].utt = n] \in [Handle -> Client]
                           /\ [client EXCEPT ![h].lastId = n] \in [Handle -> Client]
         /\ \A b \in BOOLEAN : [client EXCEPT ![h].cb = b] \in [Handle -> Client]
         /\ [client EXCEPT ![h].life = "freeing"] \in [Handle -> Client]
         /\ client[h].lastId + 1 \in Nat
<1>1. \A c \in Client :
        /\ \A s \in State : [c EXCEPT !.state = s] \in Client
        /\ \A n \in Nat : [c EXCEPT !.utt = n] \in Client /\ [c EXCEPT !.lastId = n] \in Client
        /\ \A b \in BOOLEAN : [c EXCEPT !.cb = b] \in Client
        /\ [c EXCEPT !.life = "freeing"] \in Client
        /\ c.lastId + 1 \in Nat
  BY DEF Client
<1> QED BY <1>1

LEMMA TimersChanged ==
  ASSUME timers \in Timers, NEW h \in Handle, NEW k \in TimerKind
  PROVE  /\ Plus(h, k) \in Timers
         /\ timers[h][k] > 0 => Minus(h, k) \in Timers
         /\ \A g \in Handle : \A j \in TimerKind :
              /\ g # h \/ j # k => Plus(h, k)[g][j] = timers[g][j]
              /\ g # h \/ j # k => Minus(h, k)[g][j] = timers[g][j]
         /\ Plus(h, k)[h][k] = timers[h][k] + 1
         /\ Minus(h, k)[h][k] = timers[h][k] - 1
BY DEF Timers, Plus, Minus

LEMMA AsksType ==
  ASSUME NEW h \in Handle, NEW op \in Call, NEW n \in Nat,
         NEW b \in Bus, stalled \in BOOLEAN, Asks(h, op, n, b)
  PROVE  /\ request' = [h |-> h, op |-> op]
         /\ request' \in [h: Handle, op: Call]
         /\ bus' \in Bus /\ stalled' \in BOOLEAN
<1>1. MethodOf(op) \in Method
  BY DEF MethodOf, Method, Call
<1>2. Ent(MethodOf(op), h, n, "live") \in Entry
  BY <1>1, EntType
<1>3. <<Ent(MethodOf(op), h, n, "live")>> \in Seq(Entry)
  BY <1>2, SingleType
<1>4. bus' \in Bus
  BY <1>3, ToDaemonType DEF Asks
<1> QED BY <1>4 DEF Asks, Asked

LEMMA CreateType ==
  ASSUME ClientInv, NEW h \in Handle, Create(h)
  PROVE  ClientInv'
BY HandlesType DEF ClientInv, Connecting, ClientTypeOK, Create

LEMMA SetCallbacksType ==
  ASSUME ClientInv, NEW h \in Handle, NEW r \in BOOLEAN, SetCallbacks(h, r)
  PROVE  ClientInv'
BY ClientChanged DEF ClientInv, Connecting, ClientTypeOK, SetCallbacks, State

LEMMA PrepareType ==
  ASSUME ClientInv, NEW h \in Handle, Prepare(h)
  PROVE  ClientInv'
<1>1. timers' \in Timers
  BY TimersChanged DEF ClientInv, ClientTypeOK, Prepare, Timers, TimerKind
<1>2. Connecting'
  BY DEF Connecting, Prepare, MayCall, NoRequest
<1> QED BY <1>1, <1>2 DEF ClientInv, ClientTypeOK, Prepare, Timers

LEMMA DestroyCreatedType ==
  ASSUME ClientInv, NEW h \in Handle, DestroyCreated(h)
  PROVE  ClientInv'
<1>1. client' \in [Handle -> Client]
  BY HandlesType DEF ClientInv, ClientTypeOK, DestroyCreated
<1>2. bus' \in Bus
  BY ClosedType DEF ClientInv, ClientTypeOK, DestroyCreated
<1> QED BY <1>1, <1>2 DEF ClientInv, ClientTypeOK, DestroyCreated, Connecting

LEMMA DestroyInCallbackType ==
  ASSUME ClientInv, NEW h \in Handle, DestroyInCallback(h)
  PROVE  ClientInv'
<1>1. client' \in [Handle -> Client]
  BY ClientChanged DEF ClientInv, ClientTypeOK, DestroyInCallback, State
<1>2. request' \in [h: Handle, op: Call]
  BY DEF DestroyInCallback, Call
<1>3. Connecting'
  BY DEF DestroyInCallback, Connecting
<1> QED BY <1>1, <1>2, <1>3 DEF ClientInv, ClientTypeOK, DestroyInCallback, Asked

LEMMA CallsType ==
  ASSUME ClientInv, NEW h \in Handle, NEW op \in Call, Calls(h, op)
  PROVE  ClientInv'
<1>1. /\ request' = [h |-> h, op |-> op]
      /\ request' \in [h: Handle, op: Call] /\ bus' \in Bus /\ stalled' \in BOOLEAN
  BY AsksType DEF ClientInv, ClientTypeOK, Calls, NoUtt
<1>2. op \notin {"hello", "initialize"}
  BY DEF Calls, Accepted
<1>3. Connecting'
  BY <1>1, <1>2 DEF Connecting
<1> QED BY <1>1, <1>3 DEF ClientInv, ClientTypeOK, Calls

LEMMA AddTextType ==
  ASSUME ClientInv, NEW h \in Handle, AddText(h)
  PROVE  ClientInv'
<1>1. client[h].lastId + 1 \in Nat /\ client' \in [Handle -> Client]
  BY ClientChanged DEF ClientInv, ClientTypeOK, AddText
<1>2. "add" \in Call
  BY DEF Call
<1>3. /\ request' = [h |-> h, op |-> "add"]
      /\ request' \in [h: Handle, op: Call] /\ bus' \in Bus /\ stalled' \in BOOLEAN
  BY <1>1, <1>2, AsksType DEF ClientInv, ClientTypeOK, AddText
<1>4. Connecting'
  BY <1>3 DEF Connecting
<1> QED BY <1>1, <1>3, <1>4 DEF ClientInv, ClientTypeOK, AddText

LEMMA ExitType ==
  ASSUME ClientInv, Exit
  PROVE  ClientInv'
<1>1. client' \in [Handle -> Client]
  BY HandlesType DEF ClientInv, ClientTypeOK, Exit
<1>2. bus' \in Bus
  BY ClosedType DEF ClientInv, ClientTypeOK, Exit
<1>3. timers' \in Timers
  BY DEF Exit, NoTimers, Timers
<1>4. Connecting'
  BY DEF Exit, Connecting, NoRequest
<1>5. spoiled' \subseteq Handle
  BY DEF Exit, ClientInv, ClientTypeOK
<1> QED BY <1>1, <1>2, <1>3, <1>4, <1>5 DEF ClientInv, ClientTypeOK, Exit, Timers

LEMMA ApplicationType == ClientInv /\ Application => ClientInv'
BY CreateType, SetCallbacksType, PrepareType, DestroyCreatedType,
   DestroyInCallbackType, CallsType, AddTextType, ExitType DEF Application

-------------------------------------------------------------------------------
(* The main loop of the application.                                       *)

LEMMA RequestFields ==
  ASSUME ClientInv, request.op # "none"
  PROVE  request \in [h: Handle, op: Call] /\ request.h \in Handle
BY DEF ClientInv, ClientTypeOK, NoRequest

LEMMA HelloRepliedType ==
  ASSUME ClientInv, NEW ok, NEW b \in Bus, HelloReplied(ok, b),
         UNCHANGED <<due, caller, seen, news>>, spoiled' \subseteq Handle
  PROVE  ClientInv'
<1>1. request.h \in Handle
  BY RequestFields DEF HelloReplied
<1>2. stalled \in BOOLEAN /\ NoUtt \in Nat /\ "initialize" \in Call
  BY DEF ClientInv, ClientTypeOK, NoUtt, Call
<1>3. CASE ok
  <2>1. Asks(request.h, "initialize", NoUtt, b)
    BY <1>3 DEF HelloReplied
  <2>2. /\ request' = [h |-> request.h, op |-> "initialize"]
        /\ request' \in [h: Handle, op: Call] /\ bus' \in Bus /\ stalled' \in BOOLEAN
    BY <1>1, <1>2, <2>1, AsksType
  <2>3. Connecting'
    BY <2>2 DEF ClientInv, Connecting, HelloReplied
  <2> QED BY <2>2, <2>3 DEF ClientInv, ClientTypeOK, HelloReplied
<1>4. CASE ~ok
  <2>1. request' = NoRequest /\ bus' = b /\ UNCHANGED <<stalled, client, timers>>
    BY <1>4 DEF HelloReplied
  <2> QED BY <2>1 DEF ClientInv, ClientTypeOK, Connecting, NoRequest
<1> QED BY <1>3, <1>4

LEMMA InitializeRepliedType ==
  ASSUME ClientInv, NEW ok, NEW b \in Bus, InitializeReplied(ok, b),
         UNCHANGED <<due, caller, seen, news>>, spoiled' \subseteq Handle
  PROVE  ClientInv'
<1>1. request.h \in Handle
  BY RequestFields DEF InitializeReplied
<1>2. timers[request.h]["connect"] > 0
  BY DEF ClientInv, Connecting, InitializeReplied
<1>3. {"connect", "state", "error"} \subseteq TimerKind
  BY DEF TimerKind, Notice
<1> DEFINE left == Minus(request.h, "connect")
<1>4. /\ timers \in Timers /\ left \in Timers
      /\ \A k \in {"state", "error"} : left[request.h][k] = timers[request.h][k]
  <2>1. timers \in Timers
    BY DEF ClientInv, ClientTypeOK, Timers
  <2>2. left \in Timers
    BY <1>1, <1>2, <1>3, <2>1, TimersChanged
  <2>3. \A k \in TimerKind \ {"connect"} : left[request.h][k] = timers[request.h][k]
    BY <1>1, <1>3, <2>1, TimersChanged
  <2> QED BY <1>3, <2>1, <2>2, <2>3
<1>5. \E k \in {"state", "error"} :
        timers' = [left EXCEPT ![request.h][k] = timers[request.h][k] + 1]
  BY DEF InitializeReplied, Minus
<1>6. timers' \in Timers
  <2> HIDE DEF left
  <2> QED BY <1>1, <1>3, <1>4, <1>5 DEF Timers
<1>7. client' \in [Handle -> Client]
  <2>1. /\ client \in [Handle -> Client]
        /\ \/ client' = [client EXCEPT ![request.h].state = "READY"]
           \/ client' = [client EXCEPT ![request.h].utt = NoUtt]
    BY DEF ClientInv, ClientTypeOK, InitializeReplied
  <2>2. "READY" \in State /\ NoUtt \in Nat
    BY DEF State, NoUtt
  <2>3. /\ \A s \in State : [client EXCEPT ![request.h].state = s] \in [Handle -> Client]
        /\ \A n \in Nat : [client EXCEPT ![request.h].utt = n] \in [Handle -> Client]
    BY <1>1, <2>1, ClientChanged
  <2> QED BY <2>1, <2>2, <2>3
<1>8. Connecting'
  BY DEF Connecting, InitializeReplied, NoRequest
<1> QED BY <1>6, <1>7, <1>8 DEF ClientInv, ClientTypeOK, InitializeReplied, Timers

LEMMA UnprepareRepliedType ==
  ASSUME ClientInv, NEW ok, NEW b \in Bus, UnprepareReplied(ok, b),
         UNCHANGED <<due, caller, seen, news>>, spoiled' \subseteq Handle
  PROVE  ClientInv'
<1>1. request.h \in Handle
  BY RequestFields DEF UnprepareReplied
<1>2. timers' \in Timers
  BY <1>1, TimersChanged DEF ClientInv, ClientTypeOK, Timers, UnprepareReplied,
     TimerKind, Notice
<1>3. client' \in [Handle -> Client]
  BY <1>1, ClientChanged DEF ClientInv, ClientTypeOK, UnprepareReplied, State
<1> QED BY <1>2, <1>3
    DEF ClientInv, ClientTypeOK, Connecting, UnprepareReplied, NoRequest, Timers

LEMMA DestroyRepliedType ==
  ASSUME ClientInv, NEW ok, NEW b \in Bus, DestroyReplied(ok, b),
         UNCHANGED <<due, caller, seen, news>>, spoiled' \subseteq Handle
  PROVE  ClientInv'
<1>1. request.h \in Handle
  BY RequestFields DEF DestroyReplied
<1>2. client' \in [Handle -> Client]
  <2>1. /\ client \in [Handle -> Client]
        /\ \/ client' = [client EXCEPT ![request.h].life = "freeing"]
           \/ client' = [client EXCEPT ![request.h] = Freed]
    BY DEF ClientInv, ClientTypeOK, DestroyReplied
  <2> QED BY <1>1, <2>1, HandlesType, ClientChanged
<1>3. bus' \in Bus
  BY ClosedType DEF DestroyReplied
<1>4. request' \in [h: Handle, op: Call] \cup {NoRequest} /\ Connecting'
  BY DEF ClientInv, ClientTypeOK, Connecting, DestroyReplied, NoRequest
<1> QED BY <1>2, <1>3, <1>4 DEF ClientInv, ClientTypeOK, DestroyReplied

LEMMA StateRepliedType ==
  ASSUME ClientInv, NEW ok, NEW b \in Bus, StateReplied(ok, b),
         UNCHANGED <<due, caller, seen, news>>, spoiled' \subseteq Handle
  PROVE  ClientInv'
<1>1. request.h \in Handle
  BY RequestFields DEF StateReplied
<1>2. timers' \in Timers
  BY <1>1, TimersChanged DEF ClientInv, ClientTypeOK, Timers, StateReplied,
     Notify, TimerKind, Notice
<1>3. StateAfter[request.op] \in State
  BY DEF StateReplied, StateAfter, State
<1>4. client' \in [Handle -> Client]
  <2>1. /\ client \in [Handle -> Client]
        /\ \/ client' = client
           \/ client' = [client EXCEPT ![request.h].state = StateAfter[request.op]]
    BY DEF ClientInv, ClientTypeOK, StateReplied
  <2>2. \A s \in State : [client EXCEPT ![request.h].state = s] \in [Handle -> Client]
    BY <1>1, <2>1, ClientChanged
  <2> QED BY <1>3, <2>1, <2>2
<1> QED BY <1>2, <1>4
    DEF ClientInv, ClientTypeOK, Connecting, StateReplied, NoRequest, Timers

LEMMA RepliedType ==
  ASSUME ClientInv, NEW ok, NEW b \in Bus, Replied(ok, b),
         spoiled' \subseteq Handle
  PROVE  ClientInv'
<1>1. CASE OtherReplied(ok, b)
  BY <1>1 DEF Replied, OtherReplied, ClientInv, ClientTypeOK, Connecting, NoRequest
<1> QED BY <1>1, HelloRepliedType, InitializeRepliedType, UnprepareRepliedType,
           DestroyRepliedType, StateRepliedType DEF Replied

LEMMA ReturnType ==
  ASSUME ClientInv, Return
  PROVE  ClientInv'
<1>1. PICK i \in DOMAIN bus.wire : \E r \in Awaited(bus.held, bus.wire, i) :
        Replied(bus.result = "ok",
                [bus EXCEPT !.held = r.queue, !.wire = r.sock, !.result = "none"])
  BY DEF Return
<1>2. PICK r \in Awaited(bus.held, bus.wire, i) :
        Replied(bus.result = "ok",
                [bus EXCEPT !.held = r.queue, !.wire = r.sock, !.result = "none"])
  BY <1>1
<1>3. bus \in Bus /\ bus.held \in Seq(Message) /\ bus.wire \in Seq(Message)
  BY BusFields DEF ClientInv, ClientTypeOK
<1>4. r.queue \in Seq(Message) /\ r.sock \in Seq(Message)
  BY <1>3, AwaitedType
<1>5. [bus EXCEPT !.held = r.queue, !.wire = r.sock, !.result = "none"] \in Bus
  BY <1>3, <1>4, ClientEndChanged
<1>6. spoiled' \subseteq Handle
  BY DEF Return, ClientInv, ClientTypeOK
<1> QED BY <1>2, <1>5, <1>6, RepliedType

LEMMA TimeOutType ==
  ASSUME ClientInv, TimeOut
  PROVE  ClientInv'
<1>1. GivenUp(bus) \in Bus /\ Replied(FALSE, GivenUp(bus))
  BY GivenUpType DEF TimeOut, ClientInv, ClientTypeOK
<1>2. spoiled' \subseteq Handle
  BY DEF TimeOut, Waiting, ClientInv, ClientTypeOK
<1> QED BY <1>1, <1>2, RepliedType

LEMMA ConnectDaemonType ==
  ASSUME ClientInv, NEW h \in Handle, ConnectDaemon(h)
  PROVE  ClientInv'
<1>1. "hello" \in Call /\ "connect" \in TimerKind
  BY DEF Call, TimerKind
<1>2. CASE Listed(h)
  <2>1. Asks(h, "hello", NoUtt, bus)
    BY <1>2 DEF ConnectDaemon
  <2>2. bus \in Bus /\ stalled \in BOOLEAN /\ NoUtt \in Nat
    BY DEF ClientInv, ClientTypeOK, NoUtt
  <2>3. /\ request' = [h |-> h, op |-> "hello"]
        /\ request' \in [h: Handle, op: Call] /\ bus' \in Bus /\ stalled' \in BOOLEAN
    BY <1>1, <2>1, <2>2, AsksType
  <2>4. Connecting'
    BY <1>2, <2>3 DEF Connecting, ConnectDaemon
  <2> QED BY <1>2, <2>3, <2>4 DEF ClientInv, ClientTypeOK, ConnectDaemon
<1>3. CASE ~Listed(h)
  <2>1. timers' \in Timers
    BY <1>1, <1>3, TimersChanged DEF ClientInv, ClientTypeOK, Timers, ConnectDaemon
  <2> QED BY <1>3, <2>1
      DEF ClientInv, ClientTypeOK, Connecting, ConnectDaemon, Looping, NoRequest, Timers
<1> QED BY <1>2, <1>3

LEMMA FireNoticeType ==
  ASSUME ClientInv, NEW h \in Handle, NEW k \in Notice, FireNotice(h, k)
  PROVE  ClientInv'
<1>1. timers' \in Timers
  BY TimersChanged DEF ClientInv, ClientTypeOK, Timers, FireNotice, TimerKind
<1>2. seen' \in [Handle -> State] /\ news' \in [Handle -> [{"started", "completed"} -> Nat]]
  BY DEF ClientInv, ClientTypeOK, FireNotice, Client, NoUtt
<1>3. due' \in BOOLEAN
  BY DEF FireNotice, NoticePending
<1>4. caller' \in Handle \cup {NoHandle}
  BY DEF ClientInv, ClientTypeOK, FireNotice
<1>5. Connecting'
  BY DEF Connecting, FireNotice, Looping, NoRequest
<1> QED BY <1>1, <1>2, <1>3, <1>4, <1>5 DEF ClientInv, ClientTypeOK, FireNotice, Timers

LEMMA CallbackReturnsType ==
  ASSUME ClientInv, CallbackReturns
  PROVE  ClientInv'
BY DEF ClientInv, ClientTypeOK, Connecting, CallbackReturns

LEMMA NotifyType ==
  ASSUME timers \in Timers, NEW h \in Handle \cup {NoHandle},
         NEW k \in TimerKind, Notify(h, k)
  PROVE  timers' \in Timers
<1>1. CASE h \in Handle
  <2>1. timers' = timers \/ timers' = Plus(h, k)
    BY DEF Notify
  <2> QED BY <1>1, <2>1, TimersChanged
<1>2. CASE h \notin Handle
  BY <1>2 DEF Notify, Plus, Timers
<1> QED BY <1>1, <1>2

LEMMA HandledType ==
  ASSUME ClientInv, NEW m \in Message,
         HandleState(m) \/ HandleUtterance(m) \/ HandleOther(m)
  PROVE  /\ client' \in [Handle -> Client] /\ timers' \in Timers
         /\ news' \in [Handle -> [{"started", "completed"} -> Nat]]
<1>1. m.h \in Handle \cup {NoHandle} /\ m.state \in State /\ m.utt \in Nat
  BY DEF Message
<1>2. timers \in Timers
  BY DEF ClientInv, ClientTypeOK, Timers
<1>3. timers' \in Timers
  <2>1. \/ timers' = timers
        \/ \E k \in TimerKind : Notify(m.h, k)
    BY DEF HandleState, HandleUtterance, HandleOther, TimerKind, Notice
  <2> QED BY <1>1, <1>2, <2>1, NotifyType
<1>4. client' \in [Handle -> Client]
  <2>1. /\ client \in [Handle -> Client]
        /\ \/ client' = client
           \/ client' = [client EXCEPT ![m.h].state = m.state]
           \/ client' = [client EXCEPT ![m.h].utt = m.utt]
    BY DEF ClientInv, ClientTypeOK, HandleState, HandleUtterance, HandleOther
  <2>2. CASE m.h \in Handle
    <3>1. /\ \A s \in State : [client EXCEPT ![m.h].state = s] \in [Handle -> Client]
          /\ \A n \in Nat : [client EXCEPT ![m.h].utt = n] \in [Handle -> Client]
      BY <2>1, <2>2, ClientChanged
    <3> QED BY <1>1, <2>1, <3>1
  <2>3. CASE m.h \notin Handle
    BY <2>1, <2>3
  <2> QED BY <2>2, <2>3
<1>5. news' \in [Handle -> [{"started", "completed"} -> Nat]]
  <2>1. /\ news \in [Handle -> [{"started", "completed"} -> Nat]]
        /\ \/ news' = news
           \/ /\ m.kind \in {"started", "completed"}
              /\ news' = [news EXCEPT ![m.h][m.kind] = m.utt]
    BY DEF ClientInv, ClientTypeOK, HandleState, HandleUtterance, HandleOther
  <2> QED BY <1>1, <2>1
<1> QED BY <1>3, <1>4, <1>5

LEMMA AnswersType ==
  /\ \A m \in Message : AnswerTo(m) \in Seq(Entry)
  /\ \A q \in Seq(Message) : ErrorFor(q) \in Seq(Entry)
<1>1. \A op \in {"yes", "no", "stale"} : <<Ent(op, NoHandle, NoUtt, "none")>> \in Seq(Entry)
  <2>1. \A op \in {"yes", "no", "stale"} : Ent(op, NoHandle, NoUtt, "none") \in Entry
    BY DEF Ent, Entry, NoUtt
  <2> QED BY <2>1, SingleType
<1>2. <<>> \in Seq(Entry)
  BY EmptySeq
<1> QED BY <1>1, <1>2 DEF AnswerTo, ErrorFor

LEMMA ListenerType ==
  ASSUME ClientInv, Listener
  PROVE  ClientInv'
<1>1. /\ bus \in Bus /\ bus.held \in Seq(Message) /\ bus.wire \in Seq(Message)
      /\ <<>> \in Seq(Entry)
  BY BusFields, EmptySeq DEF ClientInv, ClientTypeOK
<1>2. PICK r \in Taken(bus.held, bus.wire) :
       /\ bus' = ToDaemon([bus EXCEPT !.held = r.queue, !.wire = r.sock],
                          ErrorFor(r.lost) \o
                          IF r.got = <<>> THEN <<>> ELSE AnswerTo(r.got[1]))
       /\ IF r.got = <<>>
            THEN UNCHANGED <<client, timers, news>>
            ELSE \/ HandleState(r.got[1]) \/ HandleUtterance(r.got[1])
                 \/ HandleOther(r.got[1])
  BY DEF Listener
<1>3. /\ r.lost \in Seq(Message) /\ r.queue \in Seq(Message) /\ r.sock \in Seq(Message)
      /\ r.got # <<>> => r.got[1] \in Message
  BY <1>1, TakenType
<1> DEFINE answers == IF r.got = <<>> THEN <<>> ELSE AnswerTo(r.got[1])
           read == [bus EXCEPT !.held = r.queue, !.wire = r.sock]
<1>4. answers \in Seq(Entry) /\ ErrorFor(r.lost) \in Seq(Entry)
  BY <1>1, <1>3, AnswersType
<1>5. read \in Bus
  BY <1>1, <1>3, ClientEndChanged
<1>6. bus' = ToDaemon(read, ErrorFor(r.lost) \o answers)
  BY <1>2
<1> HIDE DEF answers, read
<1>7. bus' \in Bus
  <2>1. ErrorFor(r.lost) \o answers \in Seq(Entry)
    BY <1>4, ConcatProperties
  <2> QED BY <1>5, <1>6, <2>1, ToDaemonType
<1>8. /\ client' \in [Handle -> Client] /\ timers' \in Timers
      /\ news' \in [Handle -> [{"started", "completed"} -> Nat]]
  <2>1. CASE r.got = <<>>
    BY <1>2, <2>1 DEF ClientInv, ClientTypeOK, Timers
  <2>2. CASE r.got # <<>>
    BY <1>2, <1>3, <2>2, HandledType
  <2> QED BY <2>1, <2>2
<1>9. due' \in BOOLEAN /\ Connecting'
  BY DEF Listener, NoticePending, Connecting, Looping, NoRequest
<1> QED BY <1>7, <1>8, <1>9 DEF ClientInv, ClientTypeOK, Listener, Timers

LEMMA MainLoopType == ClientInv /\ MainLoop => ClientInv'
BY ConnectDaemonType, FireNoticeType, CallbackReturnsType, ReturnType,
   TimeOutType, ListenerType DEF MainLoop

-------------------------------------------------------------------------------
(* The daemon.                                                             *)

SessionTypeOK ==
  /\ session \in [Handle -> {"ABSENT", "READY", "PLAYING", "PAUSED"}]
  /\ texts \in [Handle -> Seq(Nat)]
  /\ saying \in [Handle -> Nat]
  /\ owed \in [Handle -> Nat]

LEMMA SessionChanged ==
  ASSUME SessionTypeOK, NEW h,
         NEW s \in {"ABSENT", "READY", "PLAYING", "PAUSED"},
         Moves(h, s) \/ Drops(h, s)
  PROVE  SessionTypeOK'
<1>1. <<>> \in Seq(Nat) /\ NoUtt \in Nat
  BY EmptySeq DEF NoUtt
<1> QED BY <1>1 DEF SessionTypeOK, Moves, Drops

LEMMA PlayerGoesToType ==
  ASSUME SessionTypeOK, NEW h, PlayerGoesTo(h)
  PROVE  SessionTypeOK'
BY DEF SessionTypeOK, PlayerGoesTo

LEMMA AnsweredType ==
  ASSUME NEW e \in Entry, NEW b \in Bus, NEW ms \in Seq(Message), NEW ok \in BOOLEAN
  PROVE  Answered(e, b, ms, ok) \in Bus
<1>1. e.h \in Handle \cup {NoHandle}
  BY DEF Entry
<1>2. Msg("reply", e.h, "CREATED", NoUtt) \in Message /\ Msg("late", e.h, "CREATED", NoUtt) \in Message
  BY <1>1 DEF Msg, Message, State, NoUtt
<1>3. ReplyTo(e) \in Seq(Message)
  BY <1>2, SingleType, EmptySeq DEF ReplyTo
<1>4. ms \o ReplyTo(e) \in Seq(Message)
  BY <1>3, ConcatProperties
<1> DEFINE sent == Sent(b, ms \o ReplyTo(e))
<1>5. sent \in Bus
  BY <1>4, ToClientType
<1>6. [sent EXCEPT !.result = "ok"] \in Bus /\ [sent EXCEPT !.result = "failed"] \in Bus
  <2> HIDE DEF sent
  <2> QED BY <1>5 DEF Bus
<1> QED BY <1>5, <1>6 DEF Answered

LEMMA AnswersBus ==
  ASSUME NEW e \in Entry, NEW b \in Bus, NEW ok \in BOOLEAN
  PROVE  Answers(e, b, <<>>, ok) => bus' \in Bus
<1>1. <<>> \in Seq(Message)
  BY EmptySeq
<1>2. Answered(e, b, <<>>, ok) \in Bus
  BY <1>1, AnsweredType
<1> QED BY <1>2 DEF Answers

LEMMA SimplyServed ==
  ASSUME SessionTypeOK, NEW e \in Entry, NEW b \in Bus,
         \/ Refuses(e, b) \/ ServeHello(e, b) \/ ServeInitialize(e, b)
         \/ ServeFinalize(e, b) \/ ServeQuery(e, b) \/ ServePlay(e, b)
         \/ ServeStop(e, b) \/ ServePause(e, b)
  PROVE  SessionTypeOK' /\ bus' \in Bus
<1>1. \E ok \in BOOLEAN : Answers(e, b, <<>>, ok)
  BY DEF Refuses, ServeHello, ServeInitialize, ServeFinalize, ServeQuery,
         ServePlay, ServeStop, ServePause
<1>2. bus' \in Bus
  BY <1>1, AnswersBus
<1>3. \/ UNCHANGED sessionVars
      \/ PlayerGoesTo(e.h)
      \/ \E s \in {"ABSENT", "READY", "PAUSED"} : Moves(e.h, s) \/ Drops(e.h, s)
  BY DEF Refuses, ServeHello, ServeInitialize, ServeFinalize, ServeQuery,
         ServePlay, ServeStop, ServePause
<1>4. CASE UNCHANGED sessionVars
  BY <1>2, <1>4 DEF sessionVars, SessionTypeOK
<1>5. CASE PlayerGoesTo(e.h)
  BY <1>2, <1>5, PlayerGoesToType
<1>6. CASE \E s \in {"ABSENT", "READY", "PAUSED"} : Moves(e.h, s) \/ Drops(e.h, s)
  BY <1>2, <1>6, SessionChanged
<1> QED BY <1>3, <1>4, <1>5, <1>6

LEMMA AddServed ==
  ASSUME SessionTypeOK, NEW e \in Entry, NEW b \in Bus, ServeAdd(e, b)
  PROVE  SessionTypeOK' /\ bus' \in Bus
<1>1. e.h \in Handle \cup {NoHandle} /\ e.utt \in Nat
  BY DEF Entry
<1>2. CASE /\ Answers(e, b, <<>>, TRUE)
           /\ texts' = [texts EXCEPT ![e.h] = Append(@, e.utt)]
           /\ UNCHANGED <<session, saying, owed>>
  <2>1. \A h \in Handle : Append(texts[h], e.utt) \in Seq(Nat)
    BY <1>1, AppendProperties DEF SessionTypeOK
  <2>2. texts' \in [Handle -> Seq(Nat)]
    BY <1>2, <2>1 DEF SessionTypeOK
  <2> QED BY <1>2, <2>2, AnswersBus DEF SessionTypeOK
<1>3. CASE Answers(e, b, <<>>, FALSE) /\ UNCHANGED sessionVars
  BY <1>3, AnswersBus DEF SessionTypeOK, sessionVars
<1>4. CASE /\ Answers(e, b, <<Msg("error", e.h, "CREATED", e.utt),
                            StateMsg(e.h, "READY")>>, FALSE)
           /\ Drops(e.h, "READY")
  <2>1. Msg("error", e.h, "CREATED", e.utt) \in Message /\ StateMsg(e.h, "READY") \in Message
    BY <1>1 DEF StateMsg, Msg, Message, State, Notice, NoUtt
  <2>2. <<Msg("error", e.h, "CREATED", e.utt), StateMsg(e.h, "READY")>> \in Seq(Message)
    <3> HIDE DEF StateMsg, Msg
    <3> QED BY <2>1
  <2>3. bus' \in Bus
    BY <1>4, <2>2, AnsweredType DEF Answers
  <2> QED BY <1>4, <2>3, SessionChanged
<1> QED BY <1>2, <1>3, <1>4 DEF ServeAdd

LEMMA EngineServed ==
  ASSUME SessionTypeOK, NEW e \in Entry, NEW b \in Bus, ServeEngine(e, b)
  PROVE  SessionTypeOK' /\ bus' \in Bus
<1> DEFINE R == {h \in Handle : Registered(h)}
<1>1. Cardinality(R) \in Nat
  BY HandleAssumption, FS_Subset, FS_CardinalityType
<1>2. PICK all \in Sq!SetToSeqs(R) :
        bus' = Sent(b, [i \in DOMAIN all |-> StateMsg(all[i], "READY")])
  BY DEF ServeEngine
<1>3. all \in [1 .. Cardinality(R) -> R]
  <2>1. Sq!Cardinality(R) = Cardinality(R)
    BY DEF Sq!Cardinality, Cardinality
  <2> QED BY <2>1 DEF Sq!SetToSeqs
<1>4. \A h \in Handle : StateMsg(h, "READY") \in Message
  BY DEF StateMsg, Msg, Message, State, Notice, NoUtt
<1>5. [i \in DOMAIN all |-> StateMsg(all[i], "READY")]
        \in [1 .. Cardinality(R) -> Message]
  BY <1>3, <1>4
<1>6. [i \in DOMAIN all |-> StateMsg(all[i], "READY")] \in Seq(Message)
  <2> HIDE DEF R
  <2> QED BY <1>1, <1>5, FunctionIsSeq
<1>7. bus' \in Bus
  BY <1>2, <1>6, ToClientType
<1>8. <<>> \in Seq(Nat) /\ NoUtt \in Nat
  BY EmptySeq DEF NoUtt
<1> QED BY <1>7, <1>8 DEF ServeEngine, SessionTypeOK

LEMMA ServeType ==
  ASSUME SessionTypeOK, NEW e \in Entry, NEW b \in Bus, Serve(e, b)
  PROVE  SessionTypeOK' /\ bus' \in Bus
<1>1. CASE ServeInterrupt(e, b)
  BY <1>1, PlayerGoesToType DEF ServeInterrupt
<1>2. CASE ServeStale(e, b)
  BY <1>2 DEF ServeStale, SessionTypeOK, sessionVars
<1> QED BY <1>1, <1>2, SimplyServed, AddServed, EngineServed DEF Serve

LEMMA DaemonStepType ==
  ASSUME TypeInv, UNCHANGED <<appVars, seen, news>>, SessionTypeOK', bus' \in Bus,
         spoiled' \subseteq Handle, stalled' \in BOOLEAN,
         greet' \in Handle \cup {NoHandle}, sweep' \subseteq Handle
  PROVE  TypeInv'
BY DEF TypeInv, TypeOK, ClientTypeOK, SessionTypeOK, Connecting, appVars

LEMMA TypeFields ==
  ASSUME TypeInv
  PROVE  /\ SessionTypeOK /\ ClientInv /\ bus \in Bus /\ spoiled \subseteq Handle
         /\ stalled \in BOOLEAN
         /\ greet \in Handle \cup {NoHandle} /\ sweep \subseteq Handle
         /\ bus.wire \in Seq(Message) /\ bus.held \in Seq(Message)
         /\ bus.inbox \in Seq(Entry) /\ bus.kept \in Seq(Entry)
BY BusFields DEF TypeInv, TypeOK, ClientTypeOK, SessionTypeOK, ClientInv

LEMMA DaemonListenerType ==
  ASSUME TypeInv, DaemonListener
  PROVE  TypeInv'
<1>1. PICK r \in Taken(bus.kept, bus.inbox) :
        LET b == AfterLoss(r.lost, [bus EXCEPT !.kept = r.queue, !.inbox = r.sock])
        IN IF r.got = <<>> THEN bus' = b /\ UNCHANGED sessionVars
                           ELSE Serve(r.got[1], b)
  BY DEF DaemonListener
<1>2. /\ r.queue \in Seq(Entry) /\ r.sock \in Seq(Entry)
      /\ r.lost # <<>> => r.lost[1] \in Entry
      /\ r.got # <<>> => r.got[1] \in Entry
  BY TypeFields, TakenType
<1> DEFINE read == [bus EXCEPT !.kept = r.queue, !.inbox = r.sock]
<1>3. read \in Bus
  BY <1>2, TypeFields, DaemonEndChanged
<1>4. AfterLoss(r.lost, read) \in Bus
  <2> HIDE DEF read
  <2>1. <<>> \in Seq(Message)
    BY EmptySeq
  <2>2. CASE r.lost = <<>>
    BY <1>3, <2>2 DEF AfterLoss
  <2>3. CASE r.lost # <<>>
    <3>1. Answered(r.lost[1], read, <<>>, FALSE) \in Bus
      BY <1>2, <1>3, <2>1, <2>3, AnsweredType
    <3> QED BY <2>3, <3>1 DEF AfterLoss
  <2> QED BY <2>2, <2>3
<1>5. IF r.got = <<>> THEN bus' = AfterLoss(r.lost, read) /\ UNCHANGED sessionVars
                      ELSE Serve(r.got[1], AfterLoss(r.lost, read))
  BY <1>1
<1> HIDE DEF read
<1>6. SessionTypeOK' /\ bus' \in Bus
  <2>1. CASE r.got = <<>>
    BY <1>4, <1>5, <2>1, TypeFields DEF SessionTypeOK, sessionVars
  <2>2. CASE r.got # <<>>
    BY <1>2, <1>4, <1>5, <2>2, TypeFields, ServeType
  <2> QED BY <2>1, <2>2
<1>7. spoiled' \subseteq Handle
  BY TypeFields DEF DaemonListener
<1>8. UNCHANGED <<appVars, seen, news, stalled, greet, sweep>>
  BY DEF DaemonListener
<1> QED BY <1>6, <1>7, <1>8, TypeFields, DaemonStepType

LEMMA OneMessage ==
  ASSUME NEW b \in Bus, NEW m \in Message
  PROVE  ToClient(b, <<m>>) \in Bus /\ Sent(b, <<m>>) \in Bus
<1>1. <<m>> \in Seq(Message)
  BY SingleType
<1> QED BY <1>1, ToClientType

LEMMA OneEntry ==
  ASSUME NEW b \in Bus,
         NEW op \in {"yes", "no", "stale", "interrupt", "engine"}
  PROVE  ToDaemon(b, <<Ent(op, NoHandle, NoUtt, "none")>>) \in Bus
<1>1. Ent(op, NoHandle, NoUtt, "none") \in Entry
  BY DEF Ent, Entry, NoUtt
<1>2. <<Ent(op, NoHandle, NoUtt, "none")>> \in Seq(Entry)
  BY <1>1, SingleType
<1> QED BY <1>2, ToDaemonType

LEMMA SendInterruptType ==
  ASSUME TypeInv, NEW h \in Handle, SendInterrupt(h)
  PROVE  TypeInv'
<1>1. StateMsg(h, "PAUSED") \in Message
  BY DEF StateMsg, Msg, Message, State, Notice, NoUtt
<1>2. bus' \in Bus
  BY <1>1, OneMessage, TypeFields DEF SendInterrupt
<1>3. owed' \in [Handle -> Nat]
  BY TypeFields DEF SendInterrupt, SessionTypeOK
<1>4. SessionTypeOK'
  BY <1>3, TypeFields DEF SendInterrupt, SessionTypeOK
<1> QED BY <1>2, <1>4, TypeFields, DaemonStepType DEF SendInterrupt

LEMMA AnnounceType ==
  ASSUME TypeInv, NEW h \in Handle, Announce(h)
  PROVE  TypeInv'
<1>1. SessionTypeOK /\ bus \in Bus
  BY TypeFields
<1>2. CASE /\ texts[h] # <<>>
           /\ saying' = [saying EXCEPT ![h] = Head(texts[h])]
           /\ texts' = [texts EXCEPT ![h] = Tail(@)]
           /\ bus' = Sent(bus, <<Msg("started", h, "CREATED", Head(texts[h]))>>)
  <2>1. texts[h] \in Seq(Nat)
    BY <1>1 DEF SessionTypeOK
  <2>2. Head(texts[h]) \in Nat /\ Tail(texts[h]) \in Seq(Nat)
    BY <1>2, <2>1, HeadTailProperties
  <2>3. Msg("started", h, "CREATED", Head(texts[h])) \in Message
    BY <2>2 DEF Msg, Message, State, Notice
  <2>4. bus' \in Bus
    BY <1>1, <1>2, <2>3, OneMessage
  <2>5. SessionTypeOK'
    BY <1>1, <1>2, <2>2 DEF SessionTypeOK, Announce
  <2> QED BY <2>4, <2>5, TypeFields, DaemonStepType DEF Announce
<1>3. CASE /\ saying' = [saying EXCEPT ![h] = NoUtt]
           /\ \E k \in {"completed", "error"} :
                bus' = Sent(bus, <<Msg(k, h, "CREATED", saying[h])>>)
           /\ UNCHANGED texts
  <2>1. saying[h] \in Nat
    BY <1>1 DEF SessionTypeOK
  <2>2. \A k \in {"completed", "error"} : Msg(k, h, "CREATED", saying[h]) \in Message
    BY <2>1 DEF Msg, Message, State, Notice
  <2>3. bus' \in Bus
    BY <1>1, <1>3, <2>2, OneMessage
  <2>4. SessionTypeOK'
    BY <1>1, <1>3 DEF SessionTypeOK, Announce, NoUtt
  <2> QED BY <2>3, <2>4, TypeFields, DaemonStepType DEF Announce
<1> QED BY <1>2, <1>3 DEF Announce

LEMMA OtherAsksType ==
  ASSUME TypeInv, NEW op \in Others, OtherAsks(op)
  PROVE  TypeInv'
<1>1. bus' \in Bus
  BY OthersAssumption, OneEntry, TypeFields DEF OtherAsks
<1>2. SessionTypeOK'
  BY TypeFields DEF OtherAsks, daemonVars, SessionTypeOK
<1>3. UNCHANGED <<appVars, seen, news, spoiled, stalled, greet, sweep>>
  BY DEF OtherAsks, daemonVars
<1> QED BY <1>1, <1>2, <1>3, TypeFields, DaemonStepType

LEMMA GreetsType ==
  ASSUME TypeInv, NEW those \in SUBSET Handle, NEW b \in Bus, Greets(those, b)
  PROVE  /\ greet' \in Handle \cup {NoHandle} /\ sweep' \subseteq Handle
         /\ bus' \in Bus /\ stalled' \in BOOLEAN
<1>1. \A h \in Handle : ToClient(b, <<Msg("hello", h, "CREATED", NoUtt)>>) \in Bus
  <2>1. \A h \in Handle : Msg("hello", h, "CREATED", NoUtt) \in Message
    BY DEF Msg, Message, State, NoUtt
  <2> QED BY <2>1, OneMessage
<1>2. ToDaemon(b, <<Ent("no", NoHandle, NoUtt, "none")>>) \in Bus
  BY OneEntry
<1> QED BY <1>1, <1>2 DEF Greets

LEMMA StartSweepType ==
  ASSUME TypeInv, StartSweep
  PROVE  TypeInv'
<1>1. Greets({h \in Handle : Registered(h)}, bus)
  BY DEF StartSweep
<1>2. {h \in Handle : Registered(h)} \in SUBSET Handle
  OBVIOUS
<1>3. /\ greet' \in Handle \cup {NoHandle} /\ sweep' \subseteq Handle
      /\ bus' \in Bus /\ stalled' \in BOOLEAN
  BY <1>1, <1>2, TypeFields, GreetsType
<1>4. SessionTypeOK'
  BY TypeFields DEF StartSweep, sessionVars, SessionTypeOK
<1> QED BY <1>3, <1>4, TypeFields, DaemonStepType DEF StartSweep

LEMMA HelloAnsweredType ==
  ASSUME TypeInv, HelloAnswered
  PROVE  TypeInv'
<1>1. PICK i \in DOMAIN bus.inbox : \E r \in Awaited(bus.kept, bus.inbox, i) :
        Greets(sweep, [bus EXCEPT !.kept = r.queue, !.inbox = r.sock])
  BY DEF HelloAnswered
<1>2. PICK r \in Awaited(bus.kept, bus.inbox, i) :
        Greets(sweep, [bus EXCEPT !.kept = r.queue, !.inbox = r.sock])
  BY <1>1
<1>3. r.queue \in Seq(Entry) /\ r.sock \in Seq(Entry)
  BY TypeFields, AwaitedType
<1>4. [bus EXCEPT !.kept = r.queue, !.inbox = r.sock] \in Bus
  BY <1>3, TypeFields, DaemonEndChanged
<1>5. /\ greet' \in Handle \cup {NoHandle} /\ sweep' \subseteq Handle
      /\ bus' \in Bus /\ stalled' \in BOOLEAN
  BY <1>2, <1>4, TypeFields, GreetsType
<1>6. Drops(greet, "ABSENT") \/ UNCHANGED sessionVars
  BY DEF HelloAnswered
<1>7. SessionTypeOK'
  <2>1. CASE UNCHANGED sessionVars
    BY <2>1, TypeFields DEF SessionTypeOK, sessionVars
  <2> QED BY <1>6, <2>1, TypeFields, SessionChanged
<1> QED BY <1>5, <1>7, TypeFields, DaemonStepType DEF HelloAnswered

LEMMA HelloTimesOutType ==
  ASSUME TypeInv, HelloTimesOut
  PROVE  TypeInv'
<1> DEFINE b == [bus EXCEPT !.wire = Voided(bus.wire), !.held = Voided(bus.held),
                            !.kept = @ \o bus.inbox, !.inbox = <<>>]
<1>1. Voided(bus.wire) \in Seq(Message) /\ Voided(bus.held) \in Seq(Message)
  BY TypeFields, VoidedType
<1>2. bus.kept \o bus.inbox \in Seq(Entry) /\ <<>> \in Seq(Entry)
  BY TypeFields, ConcatProperties, EmptySeq
<1>3. b \in Bus
  BY <1>1, <1>2, TypeFields DEF Bus
<1>4. Greets(sweep, b) /\ Drops(greet, "ABSENT")
  BY DEF HelloTimesOut
<1> HIDE DEF b
<1>5. /\ greet' \in Handle \cup {NoHandle} /\ sweep' \subseteq Handle
      /\ bus' \in Bus /\ stalled' \in BOOLEAN
  BY <1>3, <1>4, TypeFields, GreetsType
<1>6. SessionTypeOK'
  BY <1>4, TypeFields, SessionChanged
<1> QED BY <1>5, <1>6, TypeFields, DaemonStepType DEF HelloTimesOut

-------------------------------------------------------------------------------
(* Type correctness.                                                       *)

LEMMA TypeStarts == Init => TypeInv
<1> SUFFICES ASSUME Init PROVE TypeInv
  OBVIOUS
<1>1. <<>> \in Seq(Message) /\ <<>> \in Seq(Entry) /\ <<>> \in Seq(Nat)
  BY EmptySeq
<1>2. client \in [Handle -> Client]
  BY DEF Init, ClientInit, NewHandle, Client, State, NoUtt
<1>3. bus \in Bus
  BY <1>1 DEF Init, ClientInit, Bus
<1>4. ClientTypeOK /\ Connecting
  BY <1>2, <1>3 DEF Init, ClientInit, ClientTypeOK, Connecting, NoTimers,
     NoRequest, NoUtt, State
<1> QED BY <1>1, <1>4 DEF Init, TypeInv, TypeOK, NoUtt

LEMMA TypeKept == TypeInv /\ [Next]_vars => TypeInv'
<1> SUFFICES ASSUME TypeInv, [Next]_vars PROVE TypeInv'
  OBVIOUS
<1>1. CASE App
  <2>1. ClientInv' /\ UNCHANGED daemonVars
    BY <1>1, TypeFields, ApplicationType, MainLoopType DEF App
  <2> QED BY <2>1 DEF TypeInv, TypeOK, ClientInv, daemonVars
<1>2. CASE Daemon
  BY <1>2, DaemonListenerType, StartSweepType, HelloAnsweredType,
     HelloTimesOutType, SendInterruptType, AnnounceType DEF Daemon, Sweeps
<1>3. CASE \E op \in Others : OtherAsks(op)
  BY <1>3, OtherAsksType
<1>4. CASE UNCHANGED vars
  BY <1>4 DEF vars, TypeInv, TypeOK, ClientTypeOK, Connecting
<1> QED BY <1>1, <1>2, <1>3, <1>4 DEF Next

(* Every handle, timer, message and session keeps its type; in particular  *)
(* no pending timer is counted below zero: the connect timer is there when  *)
(* __tts_connect_daemon ends, whatever ran while its requests blocked.      *)
THEOREM SessionTypeCorrect == Spec => []TypeOK
<1>1. TypeInv => TypeOK
  BY DEF TypeInv
<1> QED BY <1>1, TypeStarts, TypeKept, PTL DEF Spec

-------------------------------------------------------------------------------
(* What the application is told.  UtteranceIsDue: a started or completed    *)
(* callback that is pending keeps listener_event_callback from running, so  *)
(* that no later message overwrites the utterance in the handle.            *)

Told == {"started", "completed"}

UtteranceIsDue ==
  \A h \in Handle : \A k \in Told :
    /\ Listed(h) /\ timers[h][k] > 0
         => due /\ client[h].utt \in {news[h][k], NoUtt}
    /\ client[h].life = "unborn" => timers[h][k] = 0

ToldInv == AppKnowsState /\ UtteranceIsDue

(* The invariant reads only these.                                         *)
LEMMA ToldUntouched ==
  ASSUME ToldInv, UNCHANGED <<client, timers, due, seen, news>>
  PROVE  ToldInv'
BY DEF ToldInv, AppKnowsState, UtteranceIsDue, Listed

LEMMA CreateTells ==
  ASSUME ClientInv, ToldInv, NEW h \in Handle, Create(h)
  PROVE  ToldInv'
<1>1. client \in [Handle -> Client]
  BY DEF ClientInv, ClientTypeOK
<1> QED BY <1>1 DEF ToldInv, AppKnowsState, UtteranceIsDue, Listed, Create, NewHandle, Told

LEMMA SetCallbacksTells ==
  ASSUME ClientInv, ToldInv, NEW h \in Handle, NEW r \in BOOLEAN, SetCallbacks(h, r)
  PROVE  ToldInv'
<1>1. client \in [Handle -> Client] /\ seen \in [Handle -> State]
  BY DEF ClientInv, ClientTypeOK
<1> QED BY <1>1 DEF ToldInv, AppKnowsState, UtteranceIsDue, Listed, SetCallbacks, Client

LEMMA PrepareTells ==
  ASSUME ClientInv, ToldInv, NEW h \in Handle, Prepare(h)
  PROVE  ToldInv'
<1>1. timers \in Timers
  BY DEF ClientInv, ClientTypeOK, Timers
<1> QED BY <1>1 DEF ToldInv, AppKnowsState, UtteranceIsDue, Listed, Prepare, Plus,
     Timers, TimerKind, Notice, Told

LEMMA DestroyTells ==
  ASSUME ClientInv, ToldInv, NEW h \in Handle,
         DestroyCreated(h) \/ DestroyInCallback(h)
  PROVE  ToldInv'
<1>1. client \in [Handle -> Client]
  BY DEF ClientInv, ClientTypeOK
<1> QED BY <1>1 DEF ToldInv, AppKnowsState, UtteranceIsDue, Listed, DestroyCreated,
     DestroyInCallback, Freed, NewHandle, Client, Told

LEMMA AddTextTells ==
  ASSUME ClientInv, ToldInv, NEW h \in Handle, AddText(h)
  PROVE  ToldInv'
<1>1. client \in [Handle -> Client]
  BY DEF ClientInv, ClientTypeOK
<1> QED BY <1>1 DEF ToldInv, AppKnowsState, UtteranceIsDue, Listed, AddText, Client

LEMMA ExitTells ==
  ASSUME ClientInv, ToldInv, Exit
  PROVE  ToldInv'
<1>1. client \in [Handle -> Client]
  BY DEF ClientInv, ClientTypeOK
<1> QED BY <1>1 DEF ToldInv, AppKnowsState, UtteranceIsDue, Listed, Exit, Freed,
     NewHandle, NoTimers, TimerKind, Notice, Told

LEMMA ApplicationTells ==
  ASSUME ClientInv, ToldInv, Application
  PROVE  ToldInv'
<1>1. ASSUME NEW h \in Handle, NEW op \in Call, Calls(h, op)
      PROVE  ToldInv'
  BY <1>1, ToldUntouched DEF Calls
<1> QED BY <1>1, CreateTells, SetCallbacksTells, PrepareTells, DestroyTells,
           AddTextTells, ExitTells DEF Application

LEMMA RepliedTells ==
  ASSUME ClientInv, ToldInv, NEW ok, NEW b, Replied(ok, b)
  PROVE  ToldInv'
<1>1. client \in [Handle -> Client] /\ timers \in Timers
  BY DEF ClientInv, ClientTypeOK, Timers
<1>2. UNCHANGED <<due, seen, news>>
  BY DEF Replied
<1>3. CASE HelloReplied(ok, b) \/ OtherReplied(ok, b)
  <2>1. UNCHANGED <<client, timers>>
    BY <1>3 DEF HelloReplied, OtherReplied
  <2> QED BY <1>2, <2>1, ToldUntouched
<1>4. CASE InitializeReplied(ok, b)
  <2>1. request.h \in Handle
    BY <1>4, RequestFields DEF InitializeReplied
  <2>2. CASE ok
    <3>1. /\ client' = [client EXCEPT ![request.h].state = "READY"]
          /\ timers' = [timers EXCEPT ![request.h]["connect"] = @ - 1,
                                      ![request.h]["state"] = @ + 1]
      BY <1>4, <2>2 DEF InitializeReplied
    <3> QED BY <1>1, <1>2, <2>1, <3>1 DEF ToldInv, AppKnowsState, UtteranceIsDue,
         Listed, Client, Timers, TimerKind, Notice, Told
  <2>3. CASE ~ok
    <3>1. /\ client' = [client EXCEPT ![request.h].utt = NoUtt]
          /\ timers' = [timers EXCEPT ![request.h]["connect"] = @ - 1,
                                      ![request.h]["error"] = @ + 1]
      BY <1>4, <2>3 DEF InitializeReplied
    <3> QED BY <1>1, <1>2, <2>1, <3>1 DEF ToldInv, AppKnowsState, UtteranceIsDue,
         Listed, Client, Timers, TimerKind, Notice, Told
  <2> QED BY <2>2, <2>3
<1>5. CASE UnprepareReplied(ok, b)
  <2>1. request.h \in Handle
    BY <1>5, RequestFields DEF UnprepareReplied
  <2> QED BY <1>1, <1>2, <1>5, <2>1 DEF ToldInv, AppKnowsState, UtteranceIsDue,
       Listed, UnprepareReplied, Plus, Client, Timers, TimerKind, Notice, Told
<1>6. CASE DestroyReplied(ok, b)
  <2>1. request.h \in Handle
    BY <1>6, RequestFields DEF DestroyReplied
  <2>2. /\ UNCHANGED timers
        /\ \/ client' = [client EXCEPT ![request.h].life = "freeing"]
           \/ client' = [client EXCEPT ![request.h] = Freed]
    BY <1>6 DEF DestroyReplied
  <2> QED BY <1>1, <1>2, <2>1, <2>2 DEF ToldInv, AppKnowsState, UtteranceIsDue,
       Listed, Freed, NewHandle, Client, Told
<1>7. CASE StateReplied(ok, b)
  <2>1. request.h \in Handle
    BY <1>7, RequestFields DEF StateReplied
  <2>2. CASE ok
    <3>1. /\ client' = [client EXCEPT ![request.h].state = StateAfter[request.op]]
          /\ Notify(request.h, "state")
      BY <1>7, <2>2 DEF StateReplied
    <3> QED BY <1>1, <1>2, <2>1, <3>1 DEF ToldInv, AppKnowsState, UtteranceIsDue,
         Listed, Notify, Plus, Client, Timers, TimerKind, Notice, Told
  <2>3. CASE ~ok
    BY <1>2, <1>7, <2>3, ToldUntouched DEF StateReplied
  <2> QED BY <2>2, <2>3
<1> QED BY <1>3, <1>4, <1>5, <1>6, <1>7 DEF Replied

LEMMA WaitsTell ==
  ASSUME ClientInv, ToldInv, Return \/ TimeOut
  PROVE  ToldInv'
BY RepliedTells DEF Return, TimeOut

LEMMA ConnectDaemonTells ==
  ASSUME ClientInv, ToldInv, NEW h \in Handle, ConnectDaemon(h)
  PROVE  ToldInv'
<1>1. timers \in Timers
  BY DEF ClientInv, ClientTypeOK, Timers
<1>2. \/ UNCHANGED timers
      \/ timers' = Minus(h, "connect")
  BY DEF ConnectDaemon
<1>3. UNCHANGED <<client, due, seen, news>>
  BY DEF ConnectDaemon
<1> QED BY <1>1, <1>2, <1>3 DEF ToldInv, AppKnowsState, UtteranceIsDue, Listed,
     Minus, Timers, TimerKind, Notice, Told

LEMMA FireNoticeTells ==
  ASSUME ClientInv, ToldInv, NEW h \in Handle, NEW k \in Notice, FireNotice(h, k)
  PROVE  ToldInv'
<1>1. /\ timers \in Timers /\ k \in TimerKind
      /\ seen \in [Handle -> State]
      /\ news \in [Handle -> [Told -> Nat]]
  BY DEF ClientInv, ClientTypeOK, Timers, TimerKind, Told
<1>2. timers' = Minus(h, k) /\ timers[h][k] > 0 /\ UNCHANGED client
  BY DEF FireNotice
<1>3. \A g \in Handle : \A j \in TimerKind :
        timers'[g][j] = IF g = h /\ j = k THEN timers[g][j] - 1 ELSE timers[g][j]
  BY <1>1, <1>2, TimersChanged
<1>4. AppKnowsState'
  <2> SUFFICES ASSUME NEW g \in Handle, Listed(g), client[g].cb, timers'[g]["state"] = 0
               PROVE  seen'[g] = client[g].state
    BY <1>2 DEF AppKnowsState, Listed
  <2>1. CASE g = h /\ k = "state"
    BY <1>1, <2>1 DEF FireNotice
  <2>2. CASE ~(g = h /\ k = "state")
    <3>1. timers[g]["state"] = 0
      BY <1>3, <2>2 DEF TimerKind, Notice
    <3>2. seen'[g] = seen[g]
      BY <1>1, <2>2 DEF FireNotice
    <3> QED BY <3>1, <3>2 DEF ToldInv, AppKnowsState
  <2> QED BY <2>1, <2>2
<1>5. UtteranceIsDue'
  <2> SUFFICES ASSUME NEW g \in Handle, NEW j \in Told
               PROVE  /\ Listed(g) /\ timers'[g][j] > 0
                            => due' /\ client[g].utt \in {news'[g][j], NoUtt}
                      /\ client[g].life = "unborn" => timers'[g][j] = 0
    BY <1>2 DEF UtteranceIsDue, Listed
  <2>1. j \in TimerKind /\ j \in Notice
    BY DEF Told, TimerKind, Notice
  <2>2. timers'[g][j] > 0 => timers[g][j] > 0
    BY <1>1, <1>3, <2>1 DEF Timers
  <2>3. client[g].life = "unborn" => timers'[g][j] = 0
    BY <1>1, <1>2, <1>3, <2>1 DEF ToldInv, UtteranceIsDue, Timers
  <2>4. ASSUME Listed(g), timers'[g][j] > 0
        PROVE  due' /\ client[g].utt \in {news'[g][j], NoUtt}
    <3>1. due /\ client[g].utt \in {news[g][j], NoUtt}
      BY <2>2, <2>4 DEF ToldInv, UtteranceIsDue
    <3>2. due'
      BY <2>1, <2>4, <3>1 DEF FireNotice, NoticePending
    <3>3. news'[g][j] = news[g][j]
      <4>1. CASE g = h /\ j = k
        <5>1. timers[h][k] # 1
          BY <1>1, <1>3, <2>1, <2>4, <4>1
        <5> QED BY <5>1 DEF FireNotice
      <4>2. CASE ~(g = h /\ j = k)
        BY <1>1, <4>2 DEF FireNotice
      <4> QED BY <4>1, <4>2
    <3> QED BY <3>1, <3>2, <3>3
  <2> QED BY <2>3, <2>4
<1> QED BY <1>4, <1>5 DEF ToldInv

LEMMA ListenerTells ==
  ASSUME ClientInv, ToldInv, Listener
  PROVE  ToldInv'
<1>1. /\ timers \in Timers /\ client \in [Handle -> Client]
      /\ news \in [Handle -> [Told -> Nat]]
      /\ bus.held \in Seq(Message) /\ bus.wire \in Seq(Message)
  BY BusFields DEF ClientInv, ClientTypeOK, Timers, Told
<1>2. /\ ~due /\ due' = NoticePending' /\ UNCHANGED seen
  BY DEF Listener, LoopTurns
<1>3. \A h \in Handle : \A k \in Told :
        /\ Listed(h) => timers[h][k] = 0
        /\ client[h].life = "unborn" => timers[h][k] = 0
  BY <1>1, <1>2 DEF ToldInv, UtteranceIsDue, Timers, Told, TimerKind, Notice
<1>4. PICK r \in Taken(bus.held, bus.wire) :
        IF r.got = <<>>
          THEN UNCHANGED <<client, timers, news>>
          ELSE \/ HandleState(r.got[1]) \/ HandleUtterance(r.got[1])
               \/ HandleOther(r.got[1])
  BY DEF Listener
<1>5. CASE UNCHANGED <<client, timers, news>>
  BY <1>2, <1>3, <1>5 DEF ToldInv, AppKnowsState, UtteranceIsDue, Listed
<1>6. ASSUME NEW m \in Message, HandleState(m) \/ HandleUtterance(m)
      PROVE  ToldInv'
  <2>1. CASE Listed(m.h) /\ m.h \in Handle
    <3>1. CASE UNCHANGED <<client, timers, news>>
      BY <1>5, <3>1
    <3>2. CASE ~UNCHANGED <<client, timers, news>>
      <4>1. /\ \A g \in Handle : /\ g # m.h => client'[g] = client[g]
                               /\ client'[g].life = client[g].life
                               /\ client'[g].cb = client[g].cb
            /\ m.kind \in Told => /\ client'[m.h].utt = m.utt
                                  /\ client'[m.h].state = client[m.h].state
            /\ m.kind = "error" => client'[m.h].state = client[m.h].state
        <5>1. CASE HandleState(m)
          <6>1. m.kind = "state" /\ client' = [client EXCEPT ![m.h].state = m.state]
            BY <3>2, <5>1 DEF HandleState
          <6> QED BY <1>1, <2>1, <6>1 DEF Client, Told
        <5>2. CASE HandleUtterance(m)
          <6>1. client' = [client EXCEPT ![m.h].utt = m.utt]
            BY <3>2, <5>2 DEF HandleUtterance
          <6> QED BY <1>1, <2>1, <6>1 DEF Client
        <5> QED BY <1>6, <5>1, <5>2
      <4>2. m.kind \in TimerKind /\ Notify(m.h, m.kind) /\ m.kind \in Notice
        BY <1>6, <2>1, <3>2 DEF HandleState, HandleUtterance, TimerKind, Notice
      <4>3. \A g \in Handle : \A j \in TimerKind :
              timers'[g][j] = IF g = m.h /\ j = m.kind /\ client[m.h].cb
                                THEN timers[g][j] + 1 ELSE timers[g][j]
        <5>1. \/ client[m.h].cb /\ timers' = Plus(m.h, m.kind)
              \/ ~client[m.h].cb /\ timers' = timers
          BY <4>2 DEF Notify
        <5> QED BY <1>1, <2>1, <4>2, <5>1, TimersChanged
      <4>4. AppKnowsState'
        <5> SUFFICES ASSUME NEW g \in Handle, Listed(g), client[g].cb,
                            timers'[g]["state"] = 0
                     PROVE  seen[g] = client'[g].state
          BY <1>2, <4>1 DEF AppKnowsState, Listed
        <5>1. timers[g]["state"] = 0 /\ ~(g = m.h /\ m.kind = "state")
          BY <1>1, <4>3 DEF Timers, TimerKind, Notice
        <5>2. client'[g].state = client[g].state
          BY <4>1, <4>2, <5>1 DEF Notice, Told
        <5> QED BY <5>1, <5>2 DEF ToldInv, AppKnowsState
      <4>5. UtteranceIsDue'
        <5> SUFFICES ASSUME NEW g \in Handle, NEW j \in Told
                     PROVE  /\ Listed(g) /\ timers'[g][j] > 0
                                 => due' /\ client'[g].utt \in {news'[g][j], NoUtt}
                            /\ client[g].life = "unborn" => timers'[g][j] = 0
          BY <4>1 DEF UtteranceIsDue, Listed
        <5>1. j \in TimerKind /\ j \in Notice
          BY DEF Told, TimerKind, Notice
        <5>2. client[g].life = "unborn" => timers'[g][j] = 0
          BY <1>3, <2>1, <4>3, <5>1 DEF Listed
        <5>3. ASSUME Listed(g), timers'[g][j] > 0
              PROVE  due' /\ client'[g].utt \in {news'[g][j], NoUtt}
          <6>1. g = m.h /\ j = m.kind /\ client[m.h].cb
            BY <1>3, <4>3, <5>1, <5>3
          <6>2. due'
            BY <1>2, <5>1, <5>3 DEF NoticePending
          <6>3. news' = [news EXCEPT ![g][j] = m.utt]
            BY <1>6, <2>1, <6>1 DEF HandleState, HandleUtterance, Told
          <6>4. news'[g][j] = m.utt
            BY <1>1, <6>3
          <6> QED BY <4>1, <6>1, <6>2, <6>4
        <5> QED BY <5>2, <5>3
      <4> QED BY <4>4, <4>5 DEF ToldInv
    <3> QED BY <3>1, <3>2
  <2>2. CASE ~Listed(m.h)
    <3>1. UNCHANGED <<client, timers, news>>
      BY <1>6, <2>2 DEF HandleState, HandleUtterance
    <3> QED BY <1>5, <3>1
  <2>3. CASE m.h \notin Handle
    <3>1. UNCHANGED <<client, timers, news>>
      BY <1>1, <1>6, <2>3 DEF HandleState, HandleUtterance, Notify, Plus, Timers
    <3> QED BY <1>5, <3>1
  <2> QED BY <2>1, <2>2, <2>3
<1>7. r.got # <<>> => r.got[1] \in Message
  BY <1>1, TakenType
<1> QED BY <1>4, <1>5, <1>6, <1>7 DEF HandleOther

LEMMA MainLoopTells ==
  ASSUME ClientInv, ToldInv, MainLoop
  PROVE  ToldInv'
<1>1. CASE CallbackReturns
  BY <1>1, ToldUntouched DEF CallbackReturns
<1> QED BY <1>1, ConnectDaemonTells, FireNoticeTells, WaitsTell, ListenerTells
        DEF MainLoop

-------------------------------------------------------------------------------

LEMMA ToldStarts == Init => ToldInv
BY DEF Init, ClientInit, NewHandle, NoTimers, ToldInv, AppKnowsState,
   UtteranceIsDue, Listed, TimerKind, Notice, Told

LEMMA ToldKept == TypeInv /\ ToldInv /\ [Next]_vars => ToldInv'
<1> SUFFICES ASSUME TypeInv, ToldInv, [Next]_vars PROVE ToldInv'
  OBVIOUS
<1>1. CASE App
  BY <1>1, TypeFields, ApplicationTells, MainLoopTells DEF App
<1>2. CASE Daemon \/ \E op \in Others : OtherAsks(op)
  <2>1. UNCHANGED <<appVars, seen, news>>
    BY <1>2 DEF Daemon, DaemonListener, Sweeps, StartSweep, HelloAnswered,
       HelloTimesOut, SendInterrupt, Announce, OtherAsks
  <2> QED BY <2>1, ToldUntouched DEF appVars
<1>3. CASE UNCHANGED vars
  BY <1>3, ToldUntouched DEF vars
<1> QED BY <1>1, <1>2, <1>3 DEF Next

LEMMA ToldAlways == Spec => [](TypeInv /\ ToldInv)
BY TypeStarts, TypeKept, ToldStarts, ToldKept, PTL DEF Spec

(* With no notification pending the application was told the state that    *)
(* its handle is in: every __tts_notify_state_changed is pending with the   *)
(* change it is for, for any number of handles and messages on the bus.     *)
THEOREM AppAlwaysKnowsState == Spec => []AppKnowsState
<1>1. TypeInv /\ ToldInv => AppKnowsState
  BY DEF ToldInv
<1> QED BY <1>1, ToldAlways, PTL

(* The utt_id that a started or completed callback reads from the handle    *)
(* is the one of its message: the loop runs the callbacks that are due      *)
(* before __tts_cb_utt_started or __tts_cb_utt_completed writes another.    *)
THEOREM CallbackAlwaysReportsUtterance == Spec => []CallbackReportsUtterance
<1>1. TypeInv /\ ToldInv => CallbackReportsUtterance
  BY DEF ToldInv, UtteranceIsDue, CallbackReportsUtterance, Told
<1> QED BY <1>1, ToldAlways, PTL

-------------------------------------------------------------------------------
(* What a handle leaves behind.  A session is there only while its handle   *)
(* wants it, or until the daemon has answered the request that ends it.     *)

(* The requests that the daemon has not handled, in order.                  *)
Queued(b) == b.kept \o b.inbox

(* No message from the daemon says CREATED.                                *)
Carried == {m \in Message : m.kind = "state" => m.state # "CREATED"}
Plain == {m \in Carried : m.kind # "reply"}
Usual == {m \in Plain : m.kind # "hello"}

(* The one request that is waited for is the one that blocks, and has no    *)
(* answer yet; an initialize that nobody waits for has spoiled its handle.  *)
(* res: bus.result; sp: spoiled.                                            *)
Entries(q, res, sp) ==
  \A i \in 1 .. Len(q) :
    /\ q[i].op = "initialize" /\ q[i].answer # "live" => q[i].h \in sp
    /\ q[i].answer = "live" =>
         /\ request # NoRequest /\ res = "none"
         /\ q[i].h = request.h /\ q[i].op = MethodOf(request.op)
         /\ \A j \in 1 .. Len(q) : q[j].answer = "live" => j = i

(* There is at most one reply, and it says something.                       *)
Replies(w, res) ==
  \A i \in 1 .. Len(w) : w[i].kind = "reply" =>
    /\ request # NoRequest /\ res # "none"
    /\ \A j \in 1 .. Len(w) : w[j].kind = "reply" => j = i

Conveys(b, q, sp) ==
  /\ b.wire \in Seq(Carried) /\ b.held \in Seq(Carried)
  /\ Entries(q, b.result, sp)
  /\ Replies(b.wire, b.result)
  /\ request = NoRequest => b.result = "none"

(* The handle whose request blocks is there.                               *)
Asking ==
  request # NoRequest =>
    Listed(request.h) \/ (request.op = "destroy" /\ client[request.h].life = "freeing")

(* A session in state s belongs to a handle that is not CREATED; the answer *)
(* to an initialize makes it so, the one to a finalize ends it.             *)
Owns(h, s, res) ==
  s # "ABSENT" =>
    /\ Listed(h)
    /\ IF request.h = h /\ request.op \in {"unprepare", "destroy"}
         THEN res = "none"
         ELSE \/ client[h].state # "CREATED"
              \/ request = [h |-> h, op |-> "initialize"] /\ res = "ok"

LeftInv ==
  /\ Conveys(bus, Queued(bus), spoiled)
  /\ Asking
  /\ \A h \in Handle \ spoiled : Owns(h, session[h], bus.result)

-------------------------------------------------------------------------------
(* The queues.                                                             *)

LEMMA JoinedElements ==
  ASSUME NEW S, NEW p \in Seq(S), NEW q \in Seq(S)
  PROVE  /\ Len(p) \in Nat /\ Len(q) \in Nat
         /\ p \o q \in Seq(S) /\ Len(p \o q) = Len(p) + Len(q)
         /\ \A i \in 1 .. Len(p) + Len(q) :
              (p \o q)[i] = IF i <= Len(p) THEN p[i] ELSE q[i - Len(p)]
         /\ \A i \in 1 .. Len(p) : p[i] \in S
         /\ \A i \in 1 .. Len(q) : q[i] \in S
BY ConcatProperties, LenProperties, ElementOfSeq

LEMMA SeqOfMore ==
  ASSUME NEW S, NEW T, S \subseteq T, NEW q \in Seq(S)
  PROVE  q \in Seq(T)
<1>1. \A i \in 1 .. Len(q) : q[i] \in T
  BY ElementOfSeq
<1> QED BY <1>1

LEMMA EntriesOfTail ==
  ASSUME NEW q \in Seq(Entry), q # <<>>, NEW res, NEW sp, Entries(q, res, sp)
  PROVE  /\ Entries(Tail(q), res, sp)
         /\ Head(q).answer = "live" => \A r : Entries(Tail(q), r, sp)
<1>1. /\ Len(q) \in Nat /\ Len(q) > 0 /\ Head(q) = q[1]
      /\ Len(Tail(q)) = Len(q) - 1
      /\ \A i \in 1 .. Len(q) - 1 : Tail(q)[i] = q[i + 1]
  BY EmptySeq, LenProperties, HeadTailProperties
<1>2. \A i \in 1 .. Len(q) - 1 : i + 1 \in 1 .. Len(q)
  BY <1>1
<1> DEFINE t == Tail(q)
<1>3. Len(t) = Len(q) - 1 /\ \A i \in 1 .. Len(t) : t[i] = q[i + 1]
  BY <1>1
<1>4. ASSUME NEW i \in 1 .. Len(t)
      PROVE  /\ t[i].op = "initialize" /\ t[i].answer # "live" => t[i].h \in sp
             /\ t[i].answer = "live" =>
                  /\ request # NoRequest /\ res = "none"
                  /\ t[i].h = request.h /\ t[i].op = MethodOf(request.op)
                  /\ \A j \in 1 .. Len(t) : t[j].answer = "live" => j = i
                  /\ q[1].answer # "live"
  <2>1. i + 1 \in 1 .. Len(q) /\ t[i] = q[i + 1] /\ 1 \in 1 .. Len(q) /\ i + 1 # 1
    BY <1>1, <1>2, <1>3
  <2>2. \A j \in 1 .. Len(t) : j + 1 \in 1 .. Len(q) /\ t[j] = q[j + 1]
    BY <1>1, <1>2, <1>3
  <2> HIDE DEF t
  <2>3. /\ q[i + 1].op = "initialize" /\ q[i + 1].answer # "live" => q[i + 1].h \in sp
        /\ q[i + 1].answer = "live" =>
             /\ request # NoRequest /\ res = "none"
             /\ q[i + 1].h = request.h /\ q[i + 1].op = MethodOf(request.op)
             /\ \A j \in 1 .. Len(q) : q[j].answer = "live" => j = i + 1
    BY <2>1 DEF Entries
  <2>4. \A j \in 1 .. Len(t) : j + 1 = i + 1 => j = i
    BY <1>1, <1>3
  <2> QED BY <2>1, <2>2, <2>3, <2>4
<1> HIDE DEF t
<1>5. Entries(t, res, sp)
  BY <1>4 DEF Entries
<1>6. Head(q).answer = "live" => \A r : Entries(t, r, sp)
  BY <1>1, <1>4 DEF Entries
<1> QED BY <1>5, <1>6 DEF t

LEMMA EntriesJoined ==
  ASSUME NEW q \in Seq(Entry), NEW es \in Seq(Entry), NEW res, NEW sp,
         Entries(q, res, sp),
         \A i \in 1 .. Len(es) : es[i].op # "initialize" /\ es[i].answer # "live"
  PROVE  Entries(q \o es, res, sp)
<1> DEFINE t == q \o es
<1>1. /\ Len(q) \in Nat /\ Len(es) \in Nat /\ Len(t) = Len(q) + Len(es)
      /\ \A i \in 1 .. Len(t) : t[i] = IF i <= Len(q) THEN q[i] ELSE es[i - Len(q)]
  BY JoinedElements
<1> HIDE DEF t
<1>2. \A i \in 1 .. Len(t) : \/ i \in 1 .. Len(q) /\ t[i] = q[i]
                             \/ t[i].op # "initialize" /\ t[i].answer # "live"
  <2> TAKE i \in 1 .. Len(t)
  <2>1. CASE i <= Len(q)
    BY <1>1, <2>1
  <2>2. CASE ~(i <= Len(q))
    <3>1. i - Len(q) \in 1 .. Len(es)
      BY <1>1, <2>2
    <3> QED BY <1>1, <2>2, <3>1
  <2> QED BY <2>1, <2>2
<1>3. Entries(t, res, sp)
  BY <1>2 DEF Entries
<1> QED BY <1>3 DEF t

LEMMA RepliesJoined ==
  ASSUME NEW w \in Seq(Message), NEW ms \in Seq(Plain), NEW res, Replies(w, res)
  PROVE  Replies(w \o ms, res)
<1> DEFINE t == w \o ms
<1>1. /\ Len(w) \in Nat /\ Len(ms) \in Nat /\ Len(t) = Len(w) + Len(ms)
      /\ \A i \in 1 .. Len(t) : t[i] = IF i <= Len(w) THEN w[i] ELSE ms[i - Len(w)]
      /\ \A i \in 1 .. Len(ms) : ms[i].kind # "reply"
  <2>1. ms \in Seq(Message)
    BY SeqOfMore DEF Plain, Carried
  <2>2. \A i \in 1 .. Len(ms) : ms[i] \in Plain
    BY ElementOfSeq
  <2> QED BY <2>1, <2>2, JoinedElements DEF Plain
<1> HIDE DEF t
<1>2. \A i \in 1 .. Len(t) : \/ i \in 1 .. Len(w) /\ t[i] = w[i]
                             \/ t[i].kind # "reply"
  <2> TAKE i \in 1 .. Len(t)
  <2>1. CASE i <= Len(w)
    BY <1>1, <2>1
  <2>2. CASE ~(i <= Len(w))
    <3>1. i - Len(w) \in 1 .. Len(ms)
      BY <1>1, <2>2
    <3> QED BY <1>1, <2>2, <3>1
  <2> QED BY <2>1, <2>2
<1>3. Replies(t, res)
  BY <1>2 DEF Replies
<1> QED BY <1>3 DEF t

LEMMA ReplyJoined ==
  ASSUME NEW w \in Seq(Message), NEW m, NEW res, request # NoRequest, res # "none",
         \A i \in 1 .. Len(w) : w[i].kind # "reply"
  PROVE  Replies(w \o <<m>>, res)
<1> DEFINE t == w \o <<m>>
<1>1. Len(w) \in Nat /\ Len(t) = Len(w) + 1 /\ \A i \in 1 .. Len(w) : t[i] = w[i]
  BY LenProperties
<1> HIDE DEF t
<1>2. \A i \in 1 .. Len(t) : i \in 1 .. Len(w) \/ i = Len(t)
  BY <1>1
<1>3. Replies(t, res)
  BY <1>1, <1>2 DEF Replies
<1> QED BY <1>3 DEF t

(* The oldest request is taken off.                                        *)
LEMMA Dropped ==
  ASSUME NEW b \in Bus, NEW q \in Seq(Entry), q # <<>>, NEW sp, Conveys(b, q, sp)
  PROVE  Conveys(b, Tail(q), sp)
BY EntriesOfTail DEF Conveys

LEMMA SentConveys ==
  ASSUME NEW b \in Bus, NEW q, NEW sp, Conveys(b, q, sp), NEW ms \in Seq(Plain)
  PROVE  /\ Conveys(Sent(b, ms), q, sp) /\ Sent(b, ms) \in Bus
         /\ Sent(b, ms).result = b.result /\ Sent(b, ms).kept = b.kept
         /\ Sent(b, ms).inbox = b.inbox
<1>1. CASE Connected
  <2>1. ms \in Seq(Message) /\ ms \in Seq(Carried) /\ b.wire \in Seq(Message)
    BY SeqOfMore, BusFields DEF Plain, Carried
  <2>2. Sent(b, ms) = [b EXCEPT !.wire = b.wire \o ms]
    BY <1>1 DEF Sent, ToClient
  <2>3. b.wire \o ms \in Seq(Carried)
    BY <2>1, ConcatProperties DEF Conveys
  <2>4. Replies(b.wire \o ms, b.result)
    BY <2>1, RepliesJoined DEF Conveys
  <2>5. Sent(b, ms) \in Bus
    BY <2>1, ToClientType
  <2> QED BY <2>2, <2>3, <2>4, <2>5 DEF Conveys, Bus
<1>2. CASE ~Connected
  BY <1>2 DEF Sent
<1> QED BY <1>1, <1>2

(* The oldest request is answered.                                         *)
LEMMA AnsweredConveys ==
  ASSUME NEW b \in Bus, NEW q \in Seq(Entry), q # <<>>, NEW sp, Conveys(b, q, sp),
         NEW ms \in Seq(Plain), NEW ok \in BOOLEAN,
         NEW c, c = Answered(Head(q), b, ms, ok)
  PROVE  /\ c \in Bus /\ Conveys(c, Tail(q), sp)
         /\ c.kept = b.kept /\ c.inbox = b.inbox
         /\ c.result = IF Head(q).answer = "live"
                         THEN IF ok THEN "ok" ELSE "failed"
                         ELSE b.result
         /\ Head(q).answer = "live" =>
              /\ request # NoRequest /\ b.result = "none"
              /\ Head(q).h = request.h /\ Head(q).op = MethodOf(request.op)
         /\ Head(q).op = "initialize" /\ Head(q).answer # "live" => Head(q).h \in sp
<1> DEFINE e == Head(q)
<1>1. e \in Entry /\ e = q[1] /\ 1 \in 1 .. Len(q)
  BY EmptySeq, HeadTailProperties, LenProperties
<1> HIDE DEF e
<1>2. /\ e.answer = "live" =>
           /\ request # NoRequest /\ b.result = "none"
           /\ e.h = request.h /\ e.op = MethodOf(request.op)
      /\ e.op = "initialize" /\ e.answer # "live" => e.h \in sp
  BY <1>1 DEF Conveys, Entries
<1>3. c = Answered(e, b, ms, ok)
  BY DEF e
<1>4. c \in Bus
  <2>1. ms \in Seq(Message)
    BY SeqOfMore DEF Plain, Carried
  <2> QED BY <1>1, <1>3, <2>1, AnsweredType
<1>5. /\ Entries(Tail(q), b.result, sp)
      /\ e.answer = "live" => \A r : Entries(Tail(q), r, sp)
  BY EntriesOfTail DEF Conveys, e
<1>6. CASE e.answer # "live"
  <2>1. ReplyTo(e) \in Seq(Plain)
    <3>1. Msg("late", e.h, "CREATED", NoUtt) \in Plain
      BY <1>1 DEF Plain, Carried, Msg, Message, Entry, State, NoUtt
    <3>2. <<>> \in Seq(Plain)
      BY EmptySeq
    <3> QED BY <1>6, <3>1, <3>2, SingleType DEF ReplyTo
  <2>2. ms \o ReplyTo(e) \in Seq(Plain)
    BY <2>1, ConcatProperties
  <2>3. c = Sent(b, ms \o ReplyTo(e))
    BY <1>3, <1>6 DEF Answered
  <2>4. Conveys(b, Tail(q), sp)
    BY Dropped
  <2> DEFINE all == ms \o ReplyTo(e)
  <2>6. all \in Seq(Plain) /\ c = Sent(b, all)
    BY <2>2, <2>3
  <2> HIDE DEF all
  <2>5. /\ Conveys(c, Tail(q), sp) /\ c.result = b.result
        /\ c.kept = b.kept /\ c.inbox = b.inbox
    BY <2>4, <2>6, SentConveys
  <2> QED BY <1>2, <1>4, <1>6, <2>5 DEF e
<1>7. CASE e.answer = "live"
  <2> DEFINE r == Msg("reply", e.h, "CREATED", NoUtt)
             res == IF ok THEN "ok" ELSE "failed"
  <2>1. r \in Carried /\ <<r>> \in Seq(Carried)
    <3>1. r \in Carried
      BY <1>1 DEF Carried, Msg, Message, Entry, State, NoUtt
    <3> HIDE DEF r
    <3> QED BY <3>1, SingleType
  <2>2. c = [Sent(b, ms \o <<r>>) EXCEPT !.result = res]
    <3>1. ReplyTo(e) = <<r>>
      BY <1>7 DEF ReplyTo
    <3> QED BY <1>3, <1>7, <3>1 DEF Answered
  <2>3. Len(b.wire) \in Nat /\ \A i \in 1 .. Len(b.wire) : b.wire[i].kind # "reply"
    BY <1>2, <1>7, BusFields, LenProperties DEF Conveys, Replies
  <2> HIDE DEF r
  <2>4. /\ ms \in Seq(Carried) /\ ms \in Seq(Message) /\ b.wire \in Seq(Message)
        /\ b.wire \in Seq(Carried)
    BY SeqOfMore, BusFields DEF Plain, Carried, Conveys
  <2>5. ms \o <<r>> \in Seq(Carried)
    BY <2>1, <2>4, ConcatProperties
  <2>6. CASE Connected
    <3>1. Sent(b, ms \o <<r>>) = [b EXCEPT !.wire = b.wire \o (ms \o <<r>>)]
      BY <2>6 DEF Sent, ToClient
    <3>2. b.wire \o (ms \o <<r>>) \in Seq(Carried)
      BY <2>4, <2>5, ConcatProperties
    <3>3. b.wire \o (ms \o <<r>>) = (b.wire \o ms) \o <<r>>
      <4> DEFINE w == b.wire
                 one == <<r>>
      <4>1. w \in Seq(Carried) /\ one \in Seq(Carried)
        BY <2>1, <2>4
      <4> HIDE DEF w, one
      <4>2. (w \o ms) \o one = w \o (ms \o one)
        BY <2>4, <4>1, ConcatAssociative
      <4> QED BY <4>2 DEF w, one
    <3>4. Replies((b.wire \o ms) \o <<r>>, res)
      <4>1. \A i \in 1 .. Len(b.wire \o ms) : (b.wire \o ms)[i].kind # "reply"
        <5>1. \A i \in 1 .. Len(ms) : ms[i].kind # "reply"
          BY ElementOfSeq DEF Plain
        <5>2. ASSUME NEW i \in 1 .. Len(b.wire) + Len(ms)
              PROVE  (b.wire \o ms)[i].kind # "reply"
          <6>1. CASE i <= Len(b.wire)
            BY <2>3, <2>4, <6>1, JoinedElements
          <6>2. CASE ~(i <= Len(b.wire))
            <7>1. i - Len(b.wire) \in 1 .. Len(ms)
              BY <2>4, <6>2, LenProperties
            <7> QED BY <2>4, <5>1, <6>2, <7>1, JoinedElements
          <6> QED BY <6>1, <6>2
        <5> QED BY <2>4, <5>2, JoinedElements
      <4>2. b.wire \o ms \in Seq(Message)
        BY <2>4, ConcatProperties
      <4>3. res # "none"
        OBVIOUS
      <4> HIDE DEF res
      <4> QED BY <1>2, <1>7, <4>1, <4>2, <4>3, ReplyJoined
    <3>5. /\ c.wire = b.wire \o (ms \o <<r>>) /\ c.result = res
          /\ c.held = b.held /\ c.kept = b.kept /\ c.inbox = b.inbox
      BY <2>2, <3>1 DEF Bus
    <3>6. Entries(Tail(q), c.result, sp) /\ Replies(c.wire, c.result)
      BY <1>5, <1>7, <3>3, <3>4, <3>5
    <3>7. Conveys(c, Tail(q), sp)
      BY <1>2, <1>7, <3>2, <3>5, <3>6 DEF Conveys
    <3> QED BY <1>2, <1>4, <1>7, <3>5, <3>7 DEF e
  <2>7. CASE ~Connected
    <3>1. /\ c.wire = b.wire /\ c.result = res
          /\ c.held = b.held /\ c.kept = b.kept /\ c.inbox = b.inbox
      BY <2>2, <2>7 DEF Sent, Bus
    <3>2. Entries(Tail(q), c.result, sp)
      BY <1>5, <1>7
    <3>3. Replies(c.wire, c.result)
      BY <2>3, <3>1 DEF Replies
    <3>4. Conveys(c, Tail(q), sp)
      BY <1>2, <1>7, <3>1, <3>2, <3>3 DEF Conveys
    <3> QED BY <1>2, <1>4, <1>7, <3>1, <3>4 DEF e
  <2> QED BY <2>6, <2>7
<1> QED BY <1>6, <1>7
-------------------------------------------------------------------------------
(* The daemon.                                                             *)

LEMMA PlainMessages ==
  ASSUME NEW h \in Handle \cup {NoHandle}, NEW n \in Nat
  PROVE  /\ <<>> \in Seq(Usual)
         /\ \A s \in State \ {"CREATED"} :
              StateMsg(h, s) \in Usual /\ <<StateMsg(h, s)>> \in Seq(Usual)
         /\ \A k \in {"started", "completed", "error"} :
              <<Msg(k, h, "CREATED", n)>> \in Seq(Usual)
         /\ <<Msg("error", h, "CREATED", n), StateMsg(h, "READY")>> \in Seq(Usual)
         /\ <<Msg("hello", h, "CREATED", n)>> \in Seq(Plain)
<1>1. \A s \in State \ {"CREATED"} : StateMsg(h, s) \in Usual
  BY DEF Usual, Plain, Carried, StateMsg, Msg, Message, State, Notice, NoUtt
<1>2. \A k \in {"started", "completed", "error"} :
        Msg(k, h, "CREATED", n) \in Usual
  BY DEF Usual, Plain, Carried, Msg, Message, State, Notice
<1>3. \A m \in Usual : <<m>> \in Seq(Usual)
  OBVIOUS
<1>4. \A m, l \in Usual : <<m, l>> \in Seq(Usual)
  OBVIOUS
<1>5. StateMsg(h, "READY") \in Usual /\ Msg("error", h, "CREATED", n) \in Usual
  BY <1>1, <1>2 DEF State
<1>6. Msg("hello", h, "CREATED", n) \in Plain
  BY DEF Plain, Carried, Msg, Message, State, Notice
<1>7. <<Msg("hello", h, "CREATED", n)>> \in Seq(Plain)
  BY <1>6
<1> QED BY <1>1, <1>2, <1>3, <1>4, <1>5, <1>7, EmptySeq

LEMMA UsualIsPlain ==
  ASSUME NEW ms \in Seq(Usual)
  PROVE  ms \in Seq(Plain)
BY SeqOfMore DEF Usual

LEMMA EngineMessages ==
  ASSUME NEW e, NEW b, ServeEngine(e, b)
  PROVE  \E ms \in Seq(Usual) : bus' = Sent(b, ms)
<1> DEFINE R == {h \in Handle : Registered(h)}
<1>1. Cardinality(R) \in Nat
  BY HandleAssumption, FS_Subset, FS_CardinalityType
<1>2. PICK all \in Sq!SetToSeqs(R) :
        bus' = Sent(b, [i \in DOMAIN all |-> StateMsg(all[i], "READY")])
  BY DEF ServeEngine
<1>3. all \in [1 .. Cardinality(R) -> R]
  <2>1. Sq!Cardinality(R) = Cardinality(R)
    BY DEF Sq!Cardinality, Cardinality
  <2> QED BY <2>1 DEF Sq!SetToSeqs
<1>4. \A h \in Handle : StateMsg(h, "READY") \in Usual
  BY PlainMessages DEF State
<1>5. [i \in DOMAIN all |-> StateMsg(all[i], "READY")]
        \in [1 .. Cardinality(R) -> Usual]
  BY <1>3, <1>4
<1>6. [i \in DOMAIN all |-> StateMsg(all[i], "READY")] \in Seq(Usual)
  <2> HIDE DEF R
  <2> QED BY <1>1, <1>5, FunctionIsSeq
<1> QED BY <1>2, <1>6

(* What serving a request does to the bus.                                 *)
LEMMA ServedBus ==
  ASSUME NEW e \in Entry, NEW b \in Bus, Serve(e, b)
  PROVE  \/ /\ e.op \in Method
            /\ \E ms \in Seq(Usual), ok \in BOOLEAN : bus' = Answered(e, b, ms, ok)
         \/ /\ e.op \notin Method
            /\ bus' = b \/ \E ms \in Seq(Usual) : bus' = Sent(b, ms)
<1>1. e.h \in Handle \cup {NoHandle} /\ e.utt \in Nat /\ NoUtt \in Nat
  BY DEF Entry, NoUtt
<1>2. /\ <<>> \in Seq(Usual)
      /\ <<Msg("error", e.h, "CREATED", e.utt), StateMsg(e.h, "READY")>> \in Seq(Usual)
  BY <1>1, PlainMessages
<1>3. CASE ServeEngine(e, b)
  <2>1. e.op \notin Method
    BY <1>3 DEF ServeEngine, Method
  <2> QED BY <1>3, <2>1, EngineMessages
<1>4. CASE ServeInterrupt(e, b) \/ ServeStale(e, b)
  BY <1>4 DEF ServeInterrupt, ServeStale, Method
<1>5. CASE ServeAdd(e, b)
  <2>1. \E ms \in Seq(Usual), ok \in BOOLEAN : Answers(e, b, ms, ok)
    BY <1>2, <1>5 DEF ServeAdd
  <2>2. e.op \in Method
    BY <1>5 DEF ServeAdd, Method
  <2> QED BY <2>1, <2>2 DEF Answers
<1>6. CASE \/ Refuses(e, b) \/ ServeHello(e, b) \/ ServeInitialize(e, b)
           \/ ServeFinalize(e, b) \/ ServeQuery(e, b) \/ ServePlay(e, b)
           \/ ServeStop(e, b) \/ ServePause(e, b)
  <2>1. \E ok \in BOOLEAN : Answers(e, b, <<>>, ok)
    BY <1>6 DEF Refuses, ServeHello, ServeInitialize, ServeFinalize, ServeQuery,
       ServePlay, ServeStop, ServePause
  <2>2. e.op \in Method
    BY <1>6 DEF Refuses, ServeHello, ServeInitialize, ServeFinalize, ServeQuery,
       ServePlay, ServeStop, ServePause, Method
  <2> QED BY <1>2, <2>1, <2>2 DEF Answers
<1> QED BY <1>3, <1>4, <1>5, <1>6 DEF Serve

(* What it does to the sessions.                                           *)
LEMMA ServedSessions ==
  ASSUME SessionTypeOK, NEW e \in Entry, NEW b, Serve(e, b), NEW h \in Handle
  PROVE  /\ session'[h] # "ABSENT" /\ session[h] = "ABSENT"
              => /\ e.op = "initialize" /\ e.h = h
                 /\ \E ok \in BOOLEAN : bus' = Answered(e, b, <<>>, ok)
         /\ e.op = "finalize" /\ e.h = h => session'[h] = "ABSENT"
<1>1. session \in [Handle -> {"ABSENT", "READY", "PLAYING", "PAUSED"}]
  BY DEF SessionTypeOK
<1>2. CASE ServeInitialize(e, b)
  <2>1. \/ UNCHANGED session
        \/ /\ session' = [session EXCEPT ![e.h] = "READY"]
           /\ \E ok \in BOOLEAN : bus' = Answered(e, b, <<>>, ok)
    BY <1>2 DEF ServeInitialize, Moves, Answers, sessionVars
  <2> QED BY <1>1, <1>2, <2>1 DEF ServeInitialize
<1>3. CASE ServeFinalize(e, b)
  BY <1>1, <1>3 DEF ServeFinalize, Drops
<1>4. CASE Refuses(e, b)
  BY <1>1, <1>4 DEF Refuses, Registered, sessionVars
<1>5. CASE ServeEngine(e, b)
  BY <1>1, <1>5 DEF ServeEngine, Registered
<1>6. CASE ServeInterrupt(e, b)
  BY <1>1, <1>6, NoHandleAssumption DEF ServeInterrupt, PlayerGoesTo
<1>7. CASE ServePlay(e, b)
  BY <1>1, <1>7 DEF ServePlay, PlayerGoesTo, Registered, sessionVars
<1>8. CASE \/ ServeHello(e, b) \/ ServeQuery(e, b) \/ ServeAdd(e, b)
           \/ ServeStop(e, b) \/ ServePause(e, b) \/ ServeStale(e, b)
  <2>1. /\ e.op # "finalize"
        /\ \/ UNCHANGED session
           \/ /\ session[e.h] # "ABSENT"
              /\ \E s \in {"READY", "PAUSED"} : session' = [session EXCEPT ![e.h] = s]
    BY <1>8 DEF ServeHello, ServeQuery, ServeAdd, ServeStop, ServePause, ServeStale,
       Moves, Drops, Registered, sessionVars
  <2> QED BY <1>1, <2>1
<1> QED BY <1>2, <1>3, <1>4, <1>5, <1>6, <1>7, <1>8 DEF Serve

(* The oldest request is served.                                           *)
LEMMA ServedOwns ==
  ASSUME SessionTypeOK, Asking, NEW b \in Bus, NEW q \in Seq(Entry), q # <<>>,
         request \in [h: Handle, op: Call] \cup {NoRequest},
         NEW sp, Conveys(b, q, sp), Serve(Head(q), b)
  PROVE  /\ bus' \in Bus /\ Conveys(bus', Tail(q), sp)
         /\ bus'.kept = b.kept /\ bus'.inbox = b.inbox
         /\ \A h \in Handle \ sp :
              Owns(h, session[h], b.result)
                => \/ Owns(h, session'[h], bus'.result)
                   \/ /\ session'[h] # session[h] /\ Head(q).h = h
                      /\ bus'.result = "failed"
<1> DEFINE e == Head(q)
<1>1. e \in Entry
  BY HeadTailProperties
<1>2. Serve(e, b)
  OBVIOUS
<1> HIDE DEF e
<1>3. CASE e.op \notin Method
  <2>1. bus' = b \/ \E ms \in Seq(Plain) : bus' = Sent(b, ms)
    BY <1>1, <1>2, <1>3, ServedBus, UsualIsPlain
  <2>2. Conveys(b, Tail(q), sp)
    BY Dropped
  <2>3. /\ bus' \in Bus /\ Conveys(bus', Tail(q), sp) /\ bus'.result = b.result
        /\ bus'.kept = b.kept /\ bus'.inbox = b.inbox
    BY <2>1, <2>2, SentConveys
  <2>4. \A h \in Handle : session'[h] # "ABSENT" => session[h] # "ABSENT"
    BY <1>1, <1>2, <1>3, ServedSessions DEF Method
  <2> QED BY <2>3, <2>4 DEF Owns
<1>4. CASE e.op \in Method
  <2>1. PICK ms \in Seq(Plain), ok \in BOOLEAN : bus' = Answered(e, b, ms, ok)
    BY <1>1, <1>2, <1>4, ServedBus, UsualIsPlain
  <2>2. /\ bus' \in Bus /\ Conveys(bus', Tail(q), sp)
        /\ bus'.kept = b.kept /\ bus'.inbox = b.inbox
        /\ bus'.result = IF e.answer = "live" THEN IF ok THEN "ok" ELSE "failed"
                                              ELSE b.result
        /\ e.answer = "live" =>
             /\ request # NoRequest /\ b.result = "none"
             /\ e.h = request.h /\ e.op = MethodOf(request.op)
        /\ e.op = "initialize" /\ e.answer # "live" => e.h \in sp
    BY <2>1, AnsweredConveys DEF e
  <2>3. ASSUME NEW h \in Handle \ sp, Owns(h, session[h], b.result),
               ~(session'[h] # session[h] /\ e.h = h /\ bus'.result = "failed")
        PROVE  Owns(h, session'[h], bus'.result)
    <3>1. /\ session'[h] # "ABSENT" /\ session[h] = "ABSENT"
               => e.op = "initialize" /\ e.h = h
          /\ e.op = "finalize" /\ e.h = h => session'[h] = "ABSENT"
      BY <1>1, <1>2, ServedSessions
    <3>2. CASE e.answer # "live"
      BY <2>2, <2>3, <3>1, <3>2 DEF Owns
    <3>3. CASE e.answer = "live" /\ e.h # h
      BY <2>2, <2>3, <3>1, <3>3 DEF Owns
    <3>4. CASE e.answer = "live" /\ e.h = h
      <4>1. /\ request.h = h /\ b.result = "none" /\ request # NoRequest
            /\ e.op = MethodOf(request.op)
            /\ bus'.result \in {"ok", "failed"}
        BY <2>2, <3>4
      <4>2. CASE request.op \in {"unprepare", "destroy"}
        BY <3>1, <3>4, <4>1, <4>2 DEF MethodOf, Owns
      <4>3. CASE request.op = "initialize"
        <5>1. e.op = "initialize"
          BY <4>1, <4>3 DEF MethodOf
        <5>2. Listed(h)
          BY <4>1, <4>3 DEF Asking
        <5>3. CASE session[h] # "ABSENT"
          BY <2>3, <4>1, <4>3, <5>2, <5>3 DEF Owns
        <5>4. CASE session[h] = "ABSENT"
          <6>1. session'[h] # "ABSENT" => bus'.result = "ok"
            BY <2>3, <3>4, <4>1, <5>4
          <6>2. request = [h |-> h, op |-> "initialize"]
            BY <4>1, <4>3
          <6> QED BY <5>2, <6>1, <6>2 DEF Owns
        <5> QED BY <5>3, <5>4
      <4>4. CASE request.op \notin {"unprepare", "destroy", "initialize"}
        <5>1. e.op # "initialize"
          BY <4>1, <4>4 DEF MethodOf
        <5> QED BY <2>3, <3>1, <4>1, <4>4, <5>1 DEF Owns
      <4> QED BY <4>2, <4>3, <4>4
    <3> QED BY <3>2, <3>3, <3>4
  <2> QED BY <2>2, <2>3 DEF e
<1> QED BY <1>3, <1>4

LEMMA ConveysMore ==
  ASSUME NEW b, NEW q, NEW sp, NEW more, sp \subseteq more, Conveys(b, q, sp)
  PROVE  Conveys(b, q, more)
BY DEF Conveys, Entries

(* A step of the daemon leaves the application alone.                      *)
LEMMA DaemonKeepsLeft ==
  ASSUME Asking, UNCHANGED appVars, Conveys(bus', Queued(bus'), spoiled'),
         \A h \in Handle \ spoiled' : Owns(h, session'[h], bus'.result)
  PROVE  LeftInv'
<1>1. UNCHANGED <<client, request>>
  BY DEF appVars
<1>2. Asking'
  BY <1>1 DEF Asking, Listed
<1>3. Conveys(bus, Queued(bus), spoiled)'
  BY <1>1 DEF Conveys, Entries, Replies, Queued
<1>4. \A h \in Handle \ spoiled' : Owns(h, session[h], bus.result)'
  BY <1>1 DEF Owns, Listed
<1> QED BY <1>2, <1>3, <1>4 DEF LeftInv

LEMMA QueuedType ==
  ASSUME NEW b \in Bus
  PROVE  Queued(b) \in Seq(Entry)
BY BusFields, ConcatProperties DEF Queued

LEMMA DaemonListenerLeaves ==
  ASSUME TypeInv, LeftInv, DaemonListener
  PROVE  LeftInv'
<1>1. PICK r \in Taken(bus.kept, bus.inbox) :
        LET b == AfterLoss(r.lost, [bus EXCEPT !.kept = r.queue, !.inbox = r.sock])
        IN /\ IF r.got = <<>> THEN bus' = b /\ UNCHANGED sessionVars
                              ELSE Serve(r.got[1], b)
           /\ spoiled' = spoiled
               \cup {h \in Handle : r.lost # <<>> /\ r.lost[1].h = h}
               \cup {h \in Handle : session'[h] # session[h]
                                    /\ r.got[1].h = h
                                    /\ bus'.result = "failed"}
  BY DEF DaemonListener
<1> DEFINE q == Queued(bus)
           read == [bus EXCEPT !.kept = r.queue, !.inbox = r.sock]
           t == r.queue \o r.sock
<1>2. /\ bus \in Bus /\ bus.kept \in Seq(Entry) /\ bus.inbox \in Seq(Entry)
      /\ SessionTypeOK /\ q \in Seq(Entry)
      /\ request \in [h: Handle, op: Call] \cup {NoRequest}
  BY TypeFields, QueuedType DEF ClientInv, ClientTypeOK
<1>3. r.queue \in Seq(Entry) /\ r.sock \in Seq(Entry)
  BY <1>2, TakenType
<1>4. /\ read \in Bus /\ read.kept = r.queue /\ read.inbox = r.sock
      /\ read.result = bus.result /\ Conveys(read, q, spoiled)
  BY <1>2, <1>3, DaemonEndChanged DEF Conveys, LeftInv, Bus
<1>5. /\ q # <<>>
      /\ \/ r.lost = <<>> /\ r.got = <<Head(q)>> /\ t = Tail(q)
         \/ r.lost = <<Head(q)>> /\ r.got = <<>> /\ t = Tail(q)
         \/ /\ r.lost = <<Head(q)>> /\ Tail(q) # <<>>
            /\ r.got = <<Head(Tail(q))>> /\ t = Tail(Tail(q))
  <2>1. bus.inbox # <<>>
    BY DEF DaemonListener
  <2> QED BY <1>2, <2>1, TakenFirst DEF Queued
<1>6. /\ Asking /\ UNCHANGED appVars /\ spoiled \subseteq spoiled'
      /\ \A h \in Handle \ spoiled : Owns(h, session[h], bus.result)
  BY <1>1 DEF DaemonListener, LeftInv
<1>7. /\ IF r.got = <<>> THEN bus' = AfterLoss(r.lost, read) /\ UNCHANGED sessionVars
                         ELSE Serve(r.got[1], AfterLoss(r.lost, read))
      /\ \A h \in Handle \ spoiled' :
           /\ h \notin spoiled
           /\ ~(r.lost # <<>> /\ r.lost[1].h = h)
           /\ ~(session'[h] # session[h] /\ r.got[1].h = h /\ bus'.result = "failed")
  BY <1>1
<1> HIDE DEF q, read, t
<1>8. CASE r.lost = <<>> /\ r.got = <<Head(q)>> /\ t = Tail(q)
  <2>1. Serve(Head(q), read) /\ r.got[1] = Head(q)
    BY <1>7, <1>8 DEF AfterLoss
  <2>2. /\ bus' \in Bus /\ Conveys(bus', Tail(q), spoiled)
        /\ bus'.kept = read.kept /\ bus'.inbox = read.inbox
        /\ \A h \in Handle \ spoiled :
             Owns(h, session[h], read.result)
               => \/ Owns(h, session'[h], bus'.result)
                  \/ /\ session'[h] # session[h] /\ Head(q).h = h
                     /\ bus'.result = "failed"
    BY <1>2, <1>4, <1>5, <1>6, <2>1, ServedOwns
  <2>3. Queued(bus') = Tail(q)
    BY <1>4, <1>8, <2>2 DEF Queued, t
  <2>4. Conveys(bus', Queued(bus'), spoiled')
    BY <1>6, <2>2, <2>3, ConveysMore
  <2>5. \A h \in Handle \ spoiled' : Owns(h, session'[h], bus'.result)
    BY <1>4, <1>6, <1>7, <2>1, <2>2
  <2> QED BY <1>6, <2>4, <2>5, DaemonKeepsLeft
<1>9. ASSUME r.lost = <<Head(q)>>
      PROVE  /\ AfterLoss(r.lost, read) \in Bus
             /\ Conveys(AfterLoss(r.lost, read), Tail(q), spoiled)
             /\ AfterLoss(r.lost, read).kept = r.queue
             /\ AfterLoss(r.lost, read).inbox = r.sock
             /\ \A h \in Handle \ spoiled :
                  h # Head(q).h => Owns(h, session[h], AfterLoss(r.lost, read).result)
  <2> DEFINE c == Answered(Head(q), read, <<>>, FALSE)
  <2>1. AfterLoss(r.lost, read) = c
    BY <1>9 DEF AfterLoss
  <2> DEFINE none == <<>>
             no == FALSE
  <2>2. none \in Seq(Plain) /\ no \in BOOLEAN /\ c = Answered(Head(q), read, none, no)
    BY EmptySeq
  <2> HIDE DEF c, none, no
  <2>3. /\ c \in Bus /\ Conveys(c, Tail(q), spoiled)
        /\ c.kept = read.kept /\ c.inbox = read.inbox
        /\ Head(q).answer # "live" => c.result = read.result
        /\ Head(q).answer = "live" => Head(q).h = request.h
    <3>1. q # <<>> /\ q \in Seq(Entry) /\ read \in Bus /\ Conveys(read, q, spoiled)
      BY <1>2, <1>4, <1>5
    <3> QED BY <2>2, <3>1, AnsweredConveys
  <2>4. \A h \in Handle \ spoiled : h # Head(q).h => Owns(h, session[h], c.result)
    BY <1>4, <1>6, <2>3 DEF Owns
  <2> QED BY <1>4, <2>1, <2>3, <2>4
<1>10. CASE r.lost = <<Head(q)>> /\ r.got = <<>> /\ t = Tail(q)
  <2>1. bus' = AfterLoss(r.lost, read) /\ UNCHANGED session
    BY <1>7, <1>10 DEF sessionVars
  <2>2. /\ Conveys(bus', Tail(q), spoiled) /\ Queued(bus') = Tail(q)
        /\ \A h \in Handle \ spoiled :
             h # Head(q).h => Owns(h, session'[h], bus'.result)
    BY <1>9, <1>10, <2>1 DEF Queued, t
  <2>3. Conveys(bus', Queued(bus'), spoiled')
    BY <1>6, <2>2, ConveysMore
  <2>4. \A h \in Handle \ spoiled' : Owns(h, session'[h], bus'.result)
    <3>1. r.lost # <<>> /\ r.lost[1] = Head(q)
      BY <1>10
    <3> QED BY <1>7, <2>2, <3>1
  <2> QED BY <1>6, <2>3, <2>4, DaemonKeepsLeft
<1>11. CASE /\ r.lost = <<Head(q)>> /\ Tail(q) # <<>> /\ r.got = <<Head(Tail(q))>>
            /\ t = Tail(Tail(q))
  <2> DEFINE b == AfterLoss(r.lost, read)
             rest == Tail(q)
  <2>1. Serve(Head(rest), b) /\ r.got[1] = Head(rest)
    BY <1>7, <1>11
  <2>2. /\ b \in Bus /\ Conveys(b, rest, spoiled) /\ b.kept = r.queue /\ b.inbox = r.sock
        /\ \A h \in Handle \ spoiled : h # Head(q).h => Owns(h, session[h], b.result)
        /\ rest \in Seq(Entry) /\ rest # <<>>
    BY <1>2, <1>5, <1>9, <1>11, HeadTailProperties
  <2> HIDE DEF b, rest
  <2>3. /\ bus' \in Bus /\ Conveys(bus', Tail(rest), spoiled)
        /\ bus'.kept = b.kept /\ bus'.inbox = b.inbox
        /\ \A h \in Handle \ spoiled :
             Owns(h, session[h], b.result)
               => \/ Owns(h, session'[h], bus'.result)
                  \/ /\ session'[h] # session[h] /\ Head(rest).h = h
                     /\ bus'.result = "failed"
    BY <1>2, <1>6, <2>1, <2>2, ServedOwns
  <2>4. Queued(bus') = Tail(rest)
    BY <1>11, <2>2, <2>3 DEF Queued, t, rest
  <2>5. Conveys(bus', Queued(bus'), spoiled')
    BY <1>6, <2>3, <2>4, ConveysMore
  <2>6. \A h \in Handle \ spoiled' : Owns(h, session'[h], bus'.result)
    <3>1. r.lost # <<>> /\ r.lost[1] = Head(q)
      BY <1>11
    <3> QED BY <1>7, <2>1, <2>2, <2>3, <3>1
  <2> QED BY <1>6, <2>5, <2>6, DaemonKeepsLeft
<1> QED BY <1>5, <1>8, <1>10, <1>11

LEMMA ToDaemonConveys ==
  ASSUME NEW b \in Bus, NEW sp, Conveys(b, Queued(b), sp),
         NEW op \in {"yes", "no", "stale", "interrupt", "engine"},
         NEW c, c = ToDaemon(b, <<Ent(op, NoHandle, NoUtt, "none")>>)
  PROVE  Conveys(c, Queued(c), sp) /\ c.result = b.result
<1> DEFINE e == Ent(op, NoHandle, NoUtt, "none")
           es == <<e>>
           q == Queued(b)
<1>1. e \in Entry /\ e.op # "initialize" /\ e.answer # "live"
  BY DEF Ent, Entry, NoUtt
<1> HIDE DEF e
<1>2. es \in Seq(Entry) /\ \A i \in 1 .. Len(es) : es[i].op # "initialize" /\ es[i].answer # "live"
  BY <1>1
<1>3. q \in Seq(Entry) /\ b.kept \in Seq(Entry) /\ b.inbox \in Seq(Entry)
  BY QueuedType, BusFields
<1>4. /\ c.wire = b.wire /\ c.held = b.held /\ c.result = b.result
      /\ c.kept = b.kept /\ c.inbox = b.inbox \o es
  BY DEF ToDaemon, Bus, e
<1> HIDE DEF es
<1>5. Queued(c) = q \o es
  <2> DEFINE kept == b.kept
             inbox == b.inbox
  <2>1. kept \in Seq(Entry) /\ inbox \in Seq(Entry) /\ es \in Seq(Entry)
    BY <1>2, <1>3
  <2> HIDE DEF kept, inbox
  <2>2. (kept \o inbox) \o es = kept \o (inbox \o es)
    BY <2>1, ConcatAssociative
  <2> QED BY <1>4, <2>2 DEF Queued, kept, inbox
<1> HIDE DEF q
<1>6. Entries(q, b.result, sp)
  BY DEF Conveys, q
<1>7. Entries(q \o es, b.result, sp)
  BY <1>2, <1>3, <1>6, EntriesJoined
<1> QED BY <1>4, <1>5, <1>7 DEF Conveys

LEMMA GreetsConveys ==
  ASSUME NEW those \in SUBSET Handle, NEW b \in Bus, NEW sp,
         Conveys(b, Queued(b), sp), Greets(those, b)
  PROVE  Conveys(bus', Queued(bus'), sp) /\ bus'.result = b.result
<1>1. CASE bus' = b
  BY <1>1
<1>2. ASSUME NEW h \in those, Connected,
             bus' = ToClient(b, <<Msg("hello", h, "CREATED", NoUtt)>>)
      PROVE  Conveys(bus', Queued(bus'), sp) /\ bus'.result = b.result
  <2> DEFINE ms == <<Msg("hello", h, "CREATED", NoUtt)>>
             q == Queued(b)
  <2>1. ms \in Seq(Plain)
    BY PlainMessages DEF NoUtt
  <2>2. bus' = Sent(b, ms) /\ Conveys(b, q, sp)
    BY <1>2 DEF Sent
  <2> HIDE DEF ms, q
  <2>3. /\ Conveys(bus', q, sp) /\ bus'.result = b.result
        /\ bus'.kept = b.kept /\ bus'.inbox = b.inbox
    BY <2>1, <2>2, SentConveys
  <2>4. Queued(bus') = q
    BY <2>3 DEF Queued, q
  <2> QED BY <2>3, <2>4
<1>3. CASE bus' = ToDaemon(b, <<Ent("no", NoHandle, NoUtt, "none")>>)
  BY <1>3, ToDaemonConveys
<1> QED BY <1>1, <1>2, <1>3 DEF Greets

(* What a step of the daemon, or of another application, has to show.      *)
LEMMA DaemonStepLeaves ==
  ASSUME TypeInv, LeftInv, UNCHANGED <<appVars, spoiled>>,
         Conveys(bus', Queued(bus'), spoiled), bus'.result = bus.result,
         \A h \in Handle : session'[h] \in {session[h], "ABSENT"}
  PROVE  LeftInv'
<1>1. Asking /\ Conveys(bus', Queued(bus'), spoiled') /\ spoiled' = spoiled
  BY DEF LeftInv
<1>2. \A h \in Handle \ spoiled' : Owns(h, session'[h], bus'.result)
  BY DEF LeftInv, Owns
<1> QED BY <1>1, <1>2, DaemonKeepsLeft

(* What the timers and the player tell a client.                           *)
LEMMA SendInterruptBus ==
  ASSUME NEW h \in Handle, SendInterrupt(h)
  PROVE  bus' = bus \/ \E ms \in Seq(Usual) : bus' = Sent(bus, ms)
<1>1. <<StateMsg(h, "PAUSED")>> \in Seq(Usual)
  BY PlainMessages DEF State, NoUtt
<1> QED BY <1>1 DEF SendInterrupt

LEMMA AnnounceBus ==
  ASSUME TypeInv, NEW h \in Handle, Announce(h)
  PROVE  \E ms \in Seq(Usual) : bus' = Sent(bus, ms)
<1>1. texts[h] \in Seq(Nat) /\ saying[h] \in Nat
  BY TypeFields DEF SessionTypeOK
<1>2. CASE /\ texts[h] # <<>>
           /\ bus' = Sent(bus, <<Msg("started", h, "CREATED", Head(texts[h]))>>)
  <2>1. Head(texts[h]) \in Nat
    BY <1>1, <1>2, HeadTailProperties
  <2>2. <<Msg("started", h, "CREATED", Head(texts[h]))>> \in Seq(Usual)
    BY <2>1, PlainMessages
  <2> QED BY <1>2, <2>2
<1>3. ASSUME NEW k \in {"completed", "error"},
             bus' = Sent(bus, <<Msg(k, h, "CREATED", saying[h])>>)
      PROVE  \E ms \in Seq(Usual) : bus' = Sent(bus, ms)
  <2>1. <<Msg(k, h, "CREATED", saying[h])>> \in Seq(Usual)
    BY <1>1, PlainMessages
  <2> QED BY <1>3, <2>1
<1> QED BY <1>2, <1>3 DEF Announce

LEMMA TellingLeaves ==
  ASSUME TypeInv, LeftInv, UNCHANGED <<appVars, spoiled, session>>,
         bus' = bus \/ \E ms \in Seq(Usual) : bus' = Sent(bus, ms)
  PROVE  LeftInv'
<1> DEFINE q == Queued(bus)
<1>1. bus \in Bus /\ Conveys(bus, q, spoiled)
  BY TypeFields DEF LeftInv
<1> HIDE DEF q
<1>2. /\ Conveys(bus', q, spoiled) /\ bus'.result = bus.result
      /\ bus'.kept = bus.kept /\ bus'.inbox = bus.inbox
  BY <1>1, UsualIsPlain, SentConveys
<1>3. Queued(bus') = q
  BY <1>2 DEF Queued, q
<1> QED BY <1>2, <1>3, DaemonStepLeaves

LEMMA SendInterruptLeaves ==
  ASSUME TypeInv, LeftInv, NEW h \in Handle, SendInterrupt(h)
  PROVE  LeftInv'
BY SendInterruptBus, TellingLeaves DEF SendInterrupt

LEMMA AnnounceLeaves ==
  ASSUME TypeInv, LeftInv, NEW h \in Handle, Announce(h)
  PROVE  LeftInv'
BY AnnounceBus, TellingLeaves DEF Announce

LEMMA OtherAsksLeaves ==
  ASSUME TypeInv, LeftInv, NEW op \in Others, OtherAsks(op)
  PROVE  LeftInv'
<1>1. Conveys(bus', Queued(bus'), spoiled) /\ bus'.result = bus.result
  BY OthersAssumption, TypeFields, ToDaemonConveys DEF OtherAsks, LeftInv
<1>2. UNCHANGED <<appVars, spoiled, session>>
  BY DEF OtherAsks, daemonVars
<1> QED BY <1>1, <1>2, DaemonStepLeaves

LEMMA StartSweepLeaves ==
  ASSUME TypeInv, LeftInv, StartSweep
  PROVE  LeftInv'
<1>1. Greets({h \in Handle : Registered(h)}, bus)
  BY DEF StartSweep
<1>2. {h \in Handle : Registered(h)} \in SUBSET Handle
  OBVIOUS
<1>3. Conveys(bus', Queued(bus'), spoiled) /\ bus'.result = bus.result
  BY <1>1, <1>2, TypeFields, GreetsConveys DEF LeftInv
<1>4. UNCHANGED <<appVars, spoiled, session>>
  BY DEF StartSweep, sessionVars
<1> QED BY <1>3, <1>4, DaemonStepLeaves

(* The request that waits stays the only one when another is taken out.    *)
LEMMA EntriesOfRest ==
  ASSUME NEW q \in Seq(Entry), NEW t, NEW k, NEW res, NEW sp,
         Without(q, k, t), Entries(q, res, sp)
  PROVE  Entries(t, res, sp)
<1> DEFINE from(j) == IF j < k THEN j ELSE j + 1
<1>1. \A j \in 1 .. Len(t) : from(j) \in 1 .. Len(q) /\ t[j] = q[from(j)]
  BY DEF Without
<1>2. \A i, j \in 1 .. Len(t) : from(i) = from(j) => i = j
  BY DEF Without
<1> HIDE DEF from
<1>3. ASSUME NEW i \in 1 .. Len(t)
      PROVE  /\ t[i].op = "initialize" /\ t[i].answer # "live" => t[i].h \in sp
             /\ t[i].answer = "live" =>
                  /\ request # NoRequest /\ res = "none"
                  /\ t[i].h = request.h /\ t[i].op = MethodOf(request.op)
                  /\ \A j \in 1 .. Len(t) : t[j].answer = "live" => j = i
  <2>1. from(i) \in 1 .. Len(q) /\ t[i] = q[from(i)]
    BY <1>1
  <2>2. ASSUME NEW j \in 1 .. Len(t), t[i].answer = "live", t[j].answer = "live"
        PROVE  j = i
    <3>1. from(j) \in 1 .. Len(q) /\ t[j] = q[from(j)]
      BY <1>1
    <3>2. from(j) = from(i)
      BY <2>1, <2>2, <3>1 DEF Entries
    <3> QED BY <1>2, <3>2
  <2> QED BY <2>1, <2>2 DEF Entries
<1> QED BY <1>3 DEF Entries

LEMMA AwaitedEntries ==
  ASSUME NEW kept \in Seq(Entry), NEW inbox \in Seq(Entry),
         NEW i \in 1 .. Len(inbox), NEW r \in Awaited(kept, inbox, i),
         NEW res, NEW sp, Entries(kept \o inbox, res, sp)
  PROVE  Entries(r.queue \o r.sock, res, sp)
<1> DEFINE q == kept \o inbox
           t == r.queue \o r.sock
           k == Len(kept) + i
<1>1. Without(q, k, t)
  BY AwaitedRest
<1>2. q \in Seq(Entry) /\ Entries(q, res, sp)
  BY ConcatProperties
<1> HIDE DEF q, t, k
<1>3. Entries(t, res, sp)
  BY <1>1, <1>2, EntriesOfRest
<1> QED BY <1>3 DEF t

LEMMA HelloAnsweredLeaves ==
  ASSUME TypeInv, LeftInv, HelloAnswered
  PROVE  LeftInv'
<1>1. PICK i \in DOMAIN bus.inbox : \E r \in Awaited(bus.kept, bus.inbox, i) :
        Greets(sweep, [bus EXCEPT !.kept = r.queue, !.inbox = r.sock])
  BY DEF HelloAnswered
<1>2. PICK r \in Awaited(bus.kept, bus.inbox, i) :
        Greets(sweep, [bus EXCEPT !.kept = r.queue, !.inbox = r.sock])
  BY <1>1
<1>3. r.queue \in Seq(Entry) /\ r.sock \in Seq(Entry)
  BY TypeFields, AwaitedType
<1> DEFINE b == [bus EXCEPT !.kept = r.queue, !.inbox = r.sock]
           q == Queued(bus)
           t == Queued(b)
<1>4. b \in Bus /\ b.result = bus.result /\ b.wire = bus.wire /\ b.held = bus.held
  BY <1>3, TypeFields, DaemonEndChanged DEF Bus
<1>5. t = r.queue \o r.sock /\ q = bus.kept \o bus.inbox
  BY TypeFields DEF Queued, Bus
<1>6. i \in 1 .. Len(bus.inbox)
  BY TypeFields, LenProperties
<1>8. Greets(sweep, b) /\ sweep \in SUBSET Handle
  BY <1>2, TypeFields
<1>9. Entries(q, bus.result, spoiled)
  BY DEF LeftInv, Conveys
<1>11. Entries(t, bus.result, spoiled)
  <2> DEFINE kept == bus.kept
             inbox == bus.inbox
  <2>1. /\ kept \in Seq(Entry) /\ inbox \in Seq(Entry) /\ i \in 1 .. Len(inbox)
        /\ r \in Awaited(kept, inbox, i)
        /\ Entries(kept \o inbox, bus.result, spoiled)
    BY <1>2, <1>5, <1>6, <1>9, TypeFields
  <2> HIDE DEF kept, inbox
  <2>2. Entries(r.queue \o r.sock, bus.result, spoiled)
    BY <2>1, AwaitedEntries
  <2> QED BY <1>5, <2>2
<1> HIDE DEF b, q, t
<1>12. Conveys(b, Queued(b), spoiled)
  BY <1>4, <1>11 DEF LeftInv, Conveys, t
<1>13. Conveys(bus', Queued(bus'), spoiled) /\ bus'.result = bus.result
  BY <1>4, <1>8, <1>12, GreetsConveys
<1>14. UNCHANGED <<appVars, spoiled>> /\ (Drops(greet, "ABSENT") \/ UNCHANGED sessionVars)
  BY DEF HelloAnswered
<1>15. \A h \in Handle : session'[h] \in {session[h], "ABSENT"}
  BY <1>14, TypeFields DEF Drops, sessionVars, SessionTypeOK
<1> QED BY <1>13, <1>14, <1>15, DaemonStepLeaves

LEMMA VoidedKeeps ==
  ASSUME NEW w \in Seq(Carried)
  PROVE  /\ Voided(w) \in Seq(Carried)
         /\ \A res : Replies(w, res) => Replies(Voided(w), res)
<1>1. Len(w) \in Nat /\ DOMAIN w = 1 .. Len(w)
  BY LenProperties
<1>2. \A i \in 1 .. Len(w) : w[i] \in Carried
  BY ElementOfSeq
<1>3. \A m \in Carried : [m EXCEPT !.kind = "void"] \in Carried
                         /\ [m EXCEPT !.kind = "void"].kind = "void"
  BY DEF Carried, Message
<1>4. Voided(w) \in [1 .. Len(w) -> Carried]
  BY <1>1, <1>2, <1>3 DEF Voided
<1>5. \A i \in 1 .. Len(w) : Voided(w)[i].kind = "reply" <=> w[i].kind = "reply"
  BY <1>1, <1>2, <1>3 DEF Voided
<1>6. Len(Voided(w)) = Len(w)
  BY <1>1 DEF Voided
<1>7. Voided(w) \in Seq(Carried)
  BY <1>1, <1>4, FunctionIsSeq
<1> HIDE DEF Voided
<1> QED BY <1>5, <1>6, <1>7 DEF Replies

LEMMA HelloTimesOutLeaves ==
  ASSUME TypeInv, LeftInv, HelloTimesOut
  PROVE  LeftInv'
<1> DEFINE b == [bus EXCEPT !.wire = Voided(bus.wire), !.held = Voided(bus.held),
                            !.kept = @ \o bus.inbox, !.inbox = <<>>]
<1>1. /\ Voided(bus.wire) \in Seq(Carried) /\ Voided(bus.held) \in Seq(Carried)
      /\ Replies(Voided(bus.wire), bus.result)
  BY VoidedKeeps DEF LeftInv, Conveys
<1>2. /\ bus.kept \o bus.inbox \in Seq(Entry) /\ <<>> \in Seq(Entry)
      /\ (bus.kept \o bus.inbox) \o <<>> = bus.kept \o bus.inbox
  BY TypeFields, ConcatProperties, EmptySeq, ConcatEmptySeq
<1>3. Voided(bus.wire) \in Seq(Message) /\ Voided(bus.held) \in Seq(Message)
  BY TypeFields, VoidedType
<1>4. /\ b \in Bus /\ b.result = bus.result /\ b.wire = Voided(bus.wire)
      /\ b.held = Voided(bus.held) /\ b.kept = bus.kept \o bus.inbox /\ b.inbox = <<>>
  BY <1>2, <1>3, TypeFields DEF Bus
<1>5. Greets(sweep, b) /\ Drops(greet, "ABSENT") /\ UNCHANGED <<appVars, spoiled>>
  BY DEF HelloTimesOut
<1> HIDE DEF b
<1>6. Queued(b) = Queued(bus)
  BY <1>2, <1>4 DEF Queued
<1>7. Conveys(b, Queued(b), spoiled)
  BY <1>1, <1>4, <1>6 DEF LeftInv, Conveys
<1>8. Conveys(bus', Queued(bus'), spoiled) /\ bus'.result = bus.result
  BY <1>4, <1>5, <1>7, TypeFields, GreetsConveys
<1>9. \A h \in Handle : session'[h] \in {session[h], "ABSENT"}
  BY <1>5, TypeFields DEF Drops, SessionTypeOK
<1> QED BY <1>5, <1>8, <1>9, DaemonStepLeaves

-------------------------------------------------------------------------------
(* The application.  Idle: nobody waits, as far as the bus tells.          *)

Harmless(sp) ==
  {e \in Entry : e.answer # "live" /\ (e.op = "initialize" => e.h \in sp)}

Idle(b, sp) ==
  /\ b \in Bus /\ b.result = "none"
  /\ b.wire \in Seq(Plain) /\ b.held \in Seq(Carried)
  /\ b.kept \in Seq(Harmless(sp)) /\ b.inbox \in Seq(Harmless(sp))

LEMMA ElementsMake ==
  ASSUME NEW S, NEW T, NEW q \in Seq(S), \A i \in 1 .. Len(q) : q[i] \in T
  PROVE  q \in Seq(T)
OBVIOUS

LEMMA PiecesMake ==
  ASSUME NEW S, NEW T, NEW p \in Seq(S), NEW s \in Seq(S),
         NEW q, q = p \o s, \A i \in 1 .. Len(q) : q[i] \in T
  PROVE  p \in Seq(T) /\ s \in Seq(T)
<1>1. /\ Len(p) \in Nat /\ Len(s) \in Nat /\ Len(q) = Len(p) + Len(s)
      /\ \A i \in 1 .. Len(p) + Len(s) : q[i] = IF i <= Len(p) THEN p[i] ELSE s[i - Len(p)]
  BY LenProperties, ConcatProperties
<1>2. \A i \in 1 .. Len(p) : p[i] \in T
  BY <1>1
<1>3. ASSUME NEW i \in 1 .. Len(s)
      PROVE  s[i] \in T
  <2>1. /\ Len(p) + i \in 1 .. Len(p) + Len(s) /\ ~(Len(p) + i <= Len(p))
        /\ (Len(p) + i) - Len(p) = i
    BY <1>1
  <2> QED BY <1>1, <2>1
<1> QED BY <1>2, <1>3, ElementsMake

(* While nothing blocks, nobody waits.                                     *)
LEMMA IdleWithoutRequest ==
  ASSUME ClientInv, LeftInv, request = NoRequest
  PROVE  Idle(bus, spoiled)
<1> DEFINE q == Queued(bus)
           kept == bus.kept
           inbox == bus.inbox
<1>1. /\ bus \in Bus /\ bus.result = "none" /\ bus.wire \in Seq(Carried)
      /\ bus.held \in Seq(Carried) /\ Entries(q, bus.result, spoiled)
      /\ Replies(bus.wire, bus.result)
  BY DEF ClientInv, ClientTypeOK, LeftInv, Conveys
<1>2. /\ kept \in Seq(Entry) /\ inbox \in Seq(Entry) /\ q = kept \o inbox /\ q \in Seq(Entry)
  BY <1>1, BusFields, QueuedType DEF Queued
<1> HIDE DEF q, kept, inbox
<1>3. \A i \in 1 .. Len(q) : q[i] \in Harmless(spoiled)
  <2>1. \A i \in 1 .. Len(q) : q[i] \in Entry
    BY <1>2, ElementOfSeq
  <2> QED BY <1>1, <2>1 DEF Entries, Harmless
<1>4. kept \in Seq(Harmless(spoiled)) /\ inbox \in Seq(Harmless(spoiled))
  BY <1>2, <1>3, PiecesMake
<1>5. bus.wire \in Seq(Plain)
  <2>1. \A i \in 1 .. Len(bus.wire) : bus.wire[i] \in Carried
    BY <1>1, ElementOfSeq
  <2>2. \A i \in 1 .. Len(bus.wire) : bus.wire[i] \in Plain
    BY <1>1, <2>1 DEF Replies, Plain
  <2> QED BY <1>1, <2>2, ElementsMake
<1> QED BY <1>1, <1>4, <1>5 DEF Idle, kept, inbox

(* An idle bus conveys whatever is asked next.                             *)
LEMMA IdleConveys ==
  ASSUME Idle(bus', spoiled')
  PROVE  Conveys(bus, Queued(bus), spoiled)'
<1>1. Queued(bus') \in Seq(Harmless(spoiled'))
  BY ConcatProperties DEF Idle, Queued
<1>2. \A i \in 1 .. Len(Queued(bus')) : Queued(bus')[i] \in Harmless(spoiled')
  BY <1>1, ElementOfSeq
<1>3. bus'.wire \in Seq(Plain) /\ \A i \in 1 .. Len(bus'.wire) : bus'.wire[i] \in Plain
  BY ElementOfSeq DEF Idle
<1>4. bus'.wire \in Seq(Carried)
  BY <1>3, SeqOfMore DEF Plain
<1>5. bus'.result = "none" /\ bus'.held \in Seq(Carried)
  BY DEF Idle
<1>6. Entries(Queued(bus), bus.result, spoiled)'
  BY <1>2 DEF Entries, Harmless, Queued
<1>7. Replies(bus.wire, bus.result)'
  BY <1>3 DEF Replies, Plain
<1> QED BY <1>4, <1>5, <1>6, <1>7 DEF Conveys, Queued

LEMMA IdleMore ==
  ASSUME NEW b, NEW sp, NEW more, sp \subseteq more, Idle(b, sp)
  PROVE  Idle(b, more)
<1>1. Harmless(sp) \subseteq Harmless(more)
  BY DEF Harmless
<1> QED BY <1>1, SeqOfMore DEF Idle

LEMMA IdleTold ==
  ASSUME NEW b, NEW sp, Idle(b, sp), NEW es \in Seq(Harmless(sp))
  PROVE  Idle(ToDaemon(b, es), sp)
<1>1. b.inbox \o es \in Seq(Harmless(sp)) /\ b.inbox \o es \in Seq(Entry)
  <2>1. b.inbox \o es \in Seq(Harmless(sp))
    BY ConcatProperties DEF Idle
  <2> QED BY <2>1, SeqOfMore DEF Harmless
<1>2. ToDaemon(b, es) \in Bus
  BY <1>1 DEF Idle, ToDaemon, Bus
<1> QED BY <1>1, <1>2 DEF Idle, ToDaemon, Bus

(* Requests that nobody waits for any longer.                              *)
Settled(sp) == {e \in Entry : e.op = "initialize" => e.h \in sp}

LEMMA NoLongerHarmless ==
  ASSUME NEW sp, NEW q \in Seq(Settled(sp)), NEW from, "live" \in from,
         NEW to \in {"late", "none"}
  PROVE  NoLonger(q, from, to) \in Seq(Harmless(sp))
<1>1. Len(q) \in Nat /\ DOMAIN q = 1 .. Len(q)
  BY LenProperties
<1>2. \A i \in 1 .. Len(q) : q[i] \in Settled(sp)
  BY ElementOfSeq
<1>3. \A e \in Settled(sp) :
        /\ [e EXCEPT !.answer = to] \in Harmless(sp)
        /\ e.answer \notin from => e \in Harmless(sp)
  BY DEF Settled, Harmless, Entry
<1>4. NoLonger(q, from, to) \in [1 .. Len(q) -> Harmless(sp)]
  BY <1>1, <1>2, <1>3 DEF NoLonger
<1> QED BY <1>1, <1>4, FunctionIsSeq

LEMMA ClosedIdle ==
  ASSUME NEW sp, NEW b \in Bus, b.kept \in Seq(Settled(sp)), b.inbox \in Seq(Settled(sp))
  PROVE  Idle(Closed(b), sp)
<1> DEFINE answer == IF Asked(b) THEN <<Ent("no", NoHandle, NoUtt, "none")>> ELSE <<>>
           is == NoLonger(b.inbox, {"live", "late"}, "none")
           ks == NoLonger(b.kept, {"live", "late"}, "none")
<1>1. Ent("no", NoHandle, NoUtt, "none") \in Harmless(sp)
  BY DEF Ent, Entry, Harmless, NoUtt
<1>2. answer \in Seq(Harmless(sp)) /\ <<>> \in Seq(Plain) /\ <<>> \in Seq(Carried)
  BY <1>1, SingleType, EmptySeq
<1>3. is \in Seq(Harmless(sp)) /\ ks \in Seq(Harmless(sp))
  BY NoLongerHarmless
<1> HIDE DEF answer, is, ks
<1>4. is \o answer \in Seq(Harmless(sp))
  BY <1>2, <1>3, ConcatProperties
<1>5. Closed(b) = [wire |-> <<>>, held |-> <<>>, inbox |-> is \o answer,
                   kept |-> ks, result |-> "none"]
  BY DEF Closed, answer, is, ks
<1>6. Closed(b) \in Bus
  BY ClosedType
<1> QED BY <1>2, <1>3, <1>4, <1>5, <1>6 DEF Idle

LEMMA GivenUpIdle ==
  ASSUME NEW sp, NEW b \in Bus, b.kept \in Seq(Settled(sp)), b.inbox \in Seq(Settled(sp)),
         b.held \in Seq(Carried), b.wire \in Seq(Carried)
  PROVE  Idle(GivenUp(b), sp)
<1> DEFINE is == NoLonger(b.inbox, {"live"}, "late")
           ks == NoLonger(b.kept, {"live"}, "late")
<1>1. is \in Seq(Harmless(sp)) /\ ks \in Seq(Harmless(sp)) /\ <<>> \in Seq(Plain)
  BY NoLongerHarmless, EmptySeq
<1>2. b.held \o b.wire \in Seq(Carried)
  BY ConcatProperties
<1>3. GivenUp(b) \in Bus
  BY GivenUpType
<1>4. GivenUp(b) = [wire |-> <<>>, held |-> b.held \o b.wire, inbox |-> is,
                    kept |-> ks, result |-> "none"]
  BY DEF GivenUp
<1> HIDE DEF is, ks
<1> QED BY <1>1, <1>2, <1>3, <1>4 DEF Idle

LEMMA SettledByLeft ==
  ASSUME ClientInv, LeftInv, NEW sp, spoiled \subseteq sp,
         request.op = "initialize" => request.h \in sp
  PROVE  bus.kept \in Seq(Settled(sp)) /\ bus.inbox \in Seq(Settled(sp))
<1> DEFINE q == Queued(bus)
           kept == bus.kept
           inbox == bus.inbox
<1>1. bus \in Bus /\ Entries(q, bus.result, spoiled)
  BY DEF ClientInv, ClientTypeOK, LeftInv, Conveys
<1>2. /\ kept \in Seq(Entry) /\ inbox \in Seq(Entry) /\ q = kept \o inbox /\ q \in Seq(Entry)
  BY <1>1, BusFields, QueuedType DEF Queued
<1> HIDE DEF q, kept, inbox
<1>3. MethodOf(request.op) = "initialize" => request.op = "initialize"
  BY DEF MethodOf
<1>4. \A i \in 1 .. Len(q) : q[i] \in Settled(sp)
  <2>1. \A i \in 1 .. Len(q) : q[i] \in Entry
    BY <1>2, ElementOfSeq
  <2> QED BY <1>1, <1>3, <2>1 DEF Entries, Settled
<1>5. kept \in Seq(Settled(sp)) /\ inbox \in Seq(Settled(sp))
  BY <1>2, <1>4, PiecesMake
<1> QED BY <1>5 DEF kept, inbox

LEMMA SettledByIdle ==
  ASSUME NEW b, NEW sp, Idle(b, sp)
  PROVE  b.kept \in Seq(Settled(sp)) /\ b.inbox \in Seq(Settled(sp))
<1>1. Harmless(sp) \subseteq Settled(sp)
  BY DEF Harmless, Settled
<1> QED BY <1>1, SeqOfMore DEF Idle

(* The reply that is waited for comes: the bus is idle.                    *)
LEMMA ReplyTaken ==
  ASSUME ClientInv, LeftInv, NEW i \in DOMAIN bus.wire, bus.wire[i].kind = "reply",
         NEW r \in Awaited(bus.held, bus.wire, i)
  PROVE  /\ bus.result # "none"
         /\ Idle([bus EXCEPT !.held = r.queue, !.wire = r.sock, !.result = "none"], spoiled)
<1> DEFINE q == Queued(bus)
           kept == bus.kept
           inbox == bus.inbox
           w == bus.wire
           b == [bus EXCEPT !.held = r.queue, !.wire = r.sock, !.result = "none"]
<1>1. /\ bus \in Bus /\ w \in Seq(Carried) /\ w \in Seq(Message)
      /\ bus.held \in Seq(Carried) /\ bus.held \in Seq(Message)
      /\ Entries(q, bus.result, spoiled) /\ Replies(w, bus.result)
  BY BusFields DEF ClientInv, ClientTypeOK, LeftInv, Conveys
<1>2. Len(w) \in Nat /\ i \in 1 .. Len(w)
  BY <1>1, LenProperties
<1>3. bus.result # "none" /\ \A j \in 1 .. Len(w) : w[j].kind = "reply" => j = i
  BY <1>1, <1>2 DEF Replies
<1>4. /\ kept \in Seq(Entry) /\ inbox \in Seq(Entry) /\ q = kept \o inbox /\ q \in Seq(Entry)
  BY <1>1, BusFields, QueuedType DEF Queued
<1>5. /\ r.queue \in Seq(Carried) /\ r.sock \in Seq(Carried)
      /\ r.queue \in Seq(Message) /\ r.sock \in Seq(Message)
  BY <1>1, AwaitedType
<1>6. r.sock \in Seq(Plain)
  <2>1. PICK n \in i .. Len(w) :
          r = [queue |-> bus.held \o SubSeq(w, 1, i - 1) \o SubSeq(w, i + 1, n),
               sock |-> SubSeq(w, n + 1, Len(w))]
    BY DEF Awaited
  <2>2. /\ Len(r.sock) = Len(w) - n
        /\ \A j \in 1 .. Len(w) - n : r.sock[j] = w[(n + 1) + j - 1]
    BY <1>2, <2>1
  <2>3. \A j \in 1 .. Len(r.sock) :
          (n + 1) + j - 1 \in 1 .. Len(w) /\ (n + 1) + j - 1 # i
    BY <1>2, <2>2
  <2>4. \A j \in 1 .. Len(r.sock) : r.sock[j].kind # "reply"
    BY <1>2, <1>3, <2>2, <2>3
  <2>5. \A j \in 1 .. Len(r.sock) : r.sock[j] \in Carried
    BY <1>5, ElementOfSeq
  <2>6. \A j \in 1 .. Len(r.sock) : r.sock[j] \in Plain
    BY <2>4, <2>5 DEF Plain
  <2> QED BY <1>5, <2>6, ElementsMake
<1>7. b \in Bus /\ b.result = "none" /\ b.held = r.queue /\ b.wire = r.sock
      /\ b.kept = kept /\ b.inbox = inbox
  BY <1>1, <1>5, ClientEndChanged DEF Bus
<1> HIDE DEF q, kept, inbox, b
<1>8. \A j \in 1 .. Len(q) : q[j] \in Harmless(spoiled)
  <2>1. \A j \in 1 .. Len(q) : q[j] \in Entry
    BY <1>4, ElementOfSeq
  <2> QED BY <1>1, <1>3, <2>1 DEF Entries, Harmless
<1>9. kept \in Seq(Harmless(spoiled)) /\ inbox \in Seq(Harmless(spoiled))
  BY <1>4, <1>8, PiecesMake
<1>10. Idle(b, spoiled)
  BY <1>5, <1>6, <1>7, <1>9 DEF Idle
<1> QED BY <1>3, <1>10 DEF b

(* A request leaves an idle end, and is waited for.                        *)
LEMMA AsksConveys ==
  ASSUME NEW h \in Handle, NEW op \in Call, NEW n \in Nat, NEW b,
         Idle(b, spoiled'), Asks(h, op, n, b)
  PROVE  /\ Conveys(bus, Queued(bus), spoiled)'
         /\ bus'.result = "none" /\ request' = [h |-> h, op |-> op]
<1> DEFINE e == Ent(MethodOf(op), h, n, "live")
           es == <<e>>
           kept == b.kept
           inbox == b.inbox
           S == Harmless(spoiled')
           q == kept \o inbox
<1>1. /\ e \in Entry /\ e.h = h /\ e.op = MethodOf(op) /\ e.answer = "live"
  BY DEF Ent, Entry, MethodOf, Method, Call
<1> HIDE DEF e
<1>2. es \in Seq(Entry) /\ Len(es) = 1 /\ es[1] = e
  BY <1>1
<1>3. request' = [h |-> h, op |-> op] /\ bus' = ToDaemon(b, es)
  BY DEF Asks, e
<1> HIDE DEF es
<1>4. /\ b \in Bus /\ b.result = "none" /\ b.wire \in Seq(Plain) /\ b.held \in Seq(Carried)
      /\ kept \in Seq(S) /\ inbox \in Seq(S)
  BY DEF Idle
<1>5. kept \in Seq(Entry) /\ inbox \in Seq(Entry)
  BY <1>4, BusFields
<1>6. /\ bus'.wire = b.wire /\ bus'.held = b.held /\ bus'.result = "none"
      /\ bus'.kept = kept /\ bus'.inbox = inbox \o es
  BY <1>3, <1>4 DEF ToDaemon, Bus
<1> HIDE DEF kept, inbox, S
<1>7. /\ q \in Seq(S) /\ q \in Seq(Entry) /\ (kept \o inbox) \o es = kept \o (inbox \o es)
  <2>1. q \in Seq(S)
    BY <1>4, ConcatProperties
  <2>2. q \in Seq(Entry)
    BY <1>5, ConcatProperties
  <2>3. (kept \o inbox) \o es = kept \o (inbox \o es)
    BY <1>2, <1>5, ConcatAssociative
  <2> QED BY <2>1, <2>2, <2>3
<1>8. Queued(bus') = q \o es
  BY <1>6, <1>7 DEF Queued
<1>9. \A i \in 1 .. Len(q) : q[i] \in S
  BY <1>7, ElementOfSeq
<1> HIDE DEF q
<1> DEFINE t == q \o es
<1>10. /\ Len(q) \in Nat /\ Len(t) = Len(q) + 1 /\ t[Len(q) + 1] = e
       /\ \A i \in 1 .. Len(q) : t[i] = q[i]
  <2>1. /\ Len(q) \in Nat /\ Len(t) = Len(q) + Len(es)
        /\ \A i \in 1 .. Len(q) + Len(es) :
             t[i] = IF i <= Len(q) THEN q[i] ELSE es[i - Len(q)]
    BY <1>2, <1>7, JoinedElements
  <2>2. (Len(q) + 1) - Len(q) = 1 /\ ~(Len(q) + 1 <= Len(q))
    BY <2>1
  <2> QED BY <1>2, <2>1, <2>2
<1>11. Queued(bus') = t
  BY <1>8
<1> HIDE DEF t
<1>12. \A i \in 1 .. Len(t) :
         \/ i = Len(t) /\ t[i] = e
         \/ i \in 1 .. Len(q) /\ i # Len(t) /\ t[i] \in S
  BY <1>9, <1>10
<1>13. request' # NoRequest
  BY <1>3, NoHandleAssumption DEF NoRequest
<1>14. \A i \in 1 .. Len(t) :
         /\ t[i].op = "initialize" /\ t[i].answer # "live" => t[i].h \in spoiled'
         /\ t[i].answer = "live" =>
              /\ request' # NoRequest /\ bus'.result = "none"
              /\ t[i].h = request'.h /\ t[i].op = MethodOf(request'.op)
              /\ \A j \in 1 .. Len(t) : t[j].answer = "live" => j = i
  BY <1>1, <1>3, <1>6, <1>12, <1>13 DEF S, Harmless
<1>15. Entries(Queued(bus), bus.result, spoiled)'
  BY <1>11, <1>14 DEF Entries, Queued
<1>16. Replies(bus.wire, bus.result)' /\ bus'.wire \in Seq(Carried)
  <2>1. \A i \in 1 .. Len(bus'.wire) : bus'.wire[i] \in Plain
    BY <1>4, <1>6, ElementOfSeq
  <2>2. bus'.wire \in Seq(Carried)
    BY <1>4, <1>6, SeqOfMore DEF Plain
  <2> QED BY <2>1, <2>2 DEF Replies, Plain
<1> QED BY <1>3, <1>4, <1>6, <1>13, <1>15, <1>16 DEF Conveys, Queued

(* A session whose handle asks nothing.                                    *)
Settles(h) == session[h] # "ABSENT" => Listed(h) /\ client[h].state # "CREATED"

LEMMA SettledWithoutRequest ==
  ASSUME LeftInv, request = NoRequest
  PROVE  \A h \in Handle \ spoiled : Settles(h)
<1>1. \A h \in Handle : request.h # h
  BY NoHandleAssumption DEF NoRequest
<1>2. request.op = "none"
  BY DEF NoRequest
<1> QED BY <1>1, <1>2 DEF LeftInv, Owns, Settles

LEMMA QuietLeaves ==
  ASSUME UNCHANGED session, Idle(bus', spoiled'), request' = NoRequest,
         \A h \in Handle \ spoiled' : Settles(h)'
  PROVE  LeftInv'
<1>1. Conveys(bus, Queued(bus), spoiled)'
  BY IdleConveys
<1>2. \A h \in Handle : request'.h # h
  BY NoHandleAssumption DEF NoRequest
<1>3. \A h \in Handle \ spoiled' : Owns(h, session[h], bus.result)'
  BY <1>2 DEF Owns, Settles
<1> QED BY <1>1, <1>3 DEF LeftInv, Asking

LEMMA AskingLeaves ==
  ASSUME UNCHANGED session, NEW h \in Handle, NEW op \in Call, NEW n \in Nat, NEW b,
         Idle(b, spoiled'), Asks(h, op, n, b), client'[h].life = "listed",
         \A g \in Handle \ spoiled' : Settles(g)'
  PROVE  LeftInv'
<1>1. /\ Conveys(bus, Queued(bus), spoiled)'
      /\ bus'.result = "none" /\ request' = [h |-> h, op |-> op]
  BY AsksConveys
<1>2. \A g \in Handle \ spoiled' : Owns(g, session[g], bus.result)'
  BY <1>1 DEF Owns, Settles
<1>3. Asking'
  BY <1>1 DEF Asking, Listed
<1> QED BY <1>1, <1>2, <1>3 DEF LeftInv

LEMMA ExitLeaves ==
  ASSUME ClientInv, LeftInv, UNCHANGED session, Exit
  PROVE  LeftInv'
<1>1. /\ client \in [Handle -> Client] /\ bus \in Bus /\ spoiled \subseteq spoiled'
      /\ request' = NoRequest /\ bus' = Closed(bus)
      /\ client' = [h \in Handle |-> IF Listed(h) \/ client[h].life = "freeing"
                                      THEN Freed ELSE client[h]]
      /\ spoiled' = spoiled \cup {h \in Handle : client'[h] # client[h]}
  BY DEF Exit, ClientInv, ClientTypeOK
<1>2. \A h \in Handle \ spoiled' : ~Listed(h) /\ client[h].life # "freeing"
  BY <1>1 DEF Listed, Freed, NewHandle
<1>3. request.op = "initialize" => request.h \in spoiled'
  <2>1. CASE request.op = "initialize"
    <3>1. request.h \in Handle /\ request # NoRequest
      BY <2>1, RequestFields DEF NoRequest
    <3>2. Listed(request.h)
      BY <2>1, <3>1 DEF LeftInv, Asking
    <3> QED BY <1>2, <3>1, <3>2
  <2> QED BY <2>1
<1>4. Idle(bus', spoiled')
  <2>1. bus.kept \in Seq(Settled(spoiled')) /\ bus.inbox \in Seq(Settled(spoiled'))
    BY <1>1, <1>3, SettledByLeft
  <2> QED BY <1>1, <2>1, ClosedIdle
<1>5. \A h \in Handle \ spoiled' : Settles(h)'
  <2>1. \A h \in Handle \ spoiled' : session[h] = "ABSENT"
    BY <1>1, <1>2 DEF LeftInv, Owns
  <2> QED BY <2>1 DEF Settles
<1> QED BY <1>1, <1>4, <1>5, QuietLeaves

LEMMA ApplicationLeaves ==
  ASSUME ClientInv, LeftInv, UNCHANGED session, Application
  PROVE  LeftInv'
<1> DEFINE Free == request = NoRequest /\ UNCHANGED spoiled
<1>1. client \in [Handle -> Client] /\ bus \in Bus
  BY DEF ClientInv, ClientTypeOK
<1>2. Free => Idle(bus, spoiled') /\ \A h \in Handle \ spoiled' : Settles(h)
  BY IdleWithoutRequest, SettledWithoutRequest
<1>3. ASSUME Free, request' = NoRequest, UNCHANGED bus,
             \A h \in Handle \ spoiled' : Settles(h) => Settles(h)'
      PROVE  LeftInv'
  BY <1>2, <1>3, QuietLeaves
<1>4. ASSUME NEW h \in Handle, Create(h)
      PROVE  LeftInv'
  <2>1. \A g \in Handle : Settles(g) => Settles(g)'
    BY <1>1, <1>4 DEF Create, Settles, Listed, NewHandle
  <2> QED BY <1>3, <1>4, <2>1 DEF Create
<1>5. ASSUME NEW h \in Handle, Prepare(h)
      PROVE  LeftInv'
  <2>1. \A g \in Handle : Settles(g) => Settles(g)'
    BY <1>5 DEF Prepare, Settles, Listed
  <2> QED BY <1>3, <1>5, <2>1 DEF Prepare, MayCall
<1>6. ASSUME NEW h \in Handle, NEW registered \in BOOLEAN, SetCallbacks(h, registered)
      PROVE  LeftInv'
  <2>1. \A g \in Handle : Settles(g) => Settles(g)'
    BY <1>1, <1>6 DEF SetCallbacks, Settles, Listed, Client
  <2> QED BY <1>3, <1>6, <2>1 DEF SetCallbacks, MayCall
<1>7. ASSUME NEW h \in Handle, DestroyCreated(h)
      PROVE  LeftInv'
  <2>1. Free /\ request' = NoRequest /\ (UNCHANGED bus \/ bus' = Closed(bus))
    BY <1>7 DEF DestroyCreated, MayCall
  <2>2. \A g \in Handle : Settles(g) => Settles(g)'
    BY <1>1, <1>7 DEF DestroyCreated, Settles, Listed, Freed, NewHandle
  <2>3. Idle(bus', spoiled')
    BY <1>1, <1>2, <2>1, SettledByIdle, ClosedIdle
  <2> QED BY <1>2, <2>1, <2>2, <2>3, QuietLeaves
<1>8. ASSUME NEW h \in Handle, DestroyInCallback(h)
      PROVE  LeftInv'
  <2>1. /\ Free /\ client[h].state = "CREATED" /\ UNCHANGED bus
        /\ request' = [h |-> h, op |-> "destroy"]
        /\ client' = [client EXCEPT ![h].life = "freeing"]
    BY <1>8 DEF DestroyInCallback, MayCall
  <2>2. \A g \in Handle \ spoiled' : session[g] # "ABSENT" => g # h /\ client'[g] = client[g]
    BY <1>1, <1>2, <2>1 DEF Settles
  <2>3. Conveys(bus, Queued(bus), spoiled)'
    BY <1>2, <2>1, IdleConveys
  <2>4. Asking'
    BY <1>1, <2>1 DEF Asking, Client
  <2>5. \A g \in Handle \ spoiled' : Owns(g, session[g], bus.result)'
    BY <1>2, <2>1, <2>2 DEF Owns, Settles, Listed
  <2> QED BY <2>3, <2>4, <2>5 DEF LeftInv
<1>9. ASSUME NEW h \in Handle, NEW op \in Call, Calls(h, op)
      PROVE  LeftInv'
  <2>1. /\ Free /\ UNCHANGED client /\ Listed(h) /\ Asks(h, op, NoUtt, bus) /\ NoUtt \in Nat
    BY <1>9 DEF Calls, MayCall, NoUtt
  <2>2. client'[h].life = "listed" /\ \A g \in Handle \ spoiled' : Settles(g)'
    BY <1>2, <2>1 DEF Settles, Listed
  <2> QED BY <1>2, <2>1, <2>2, AskingLeaves
<1>10. ASSUME NEW h \in Handle, AddText(h)
       PROVE  LeftInv'
  <2>1. /\ Free /\ client' = [client EXCEPT ![h].lastId = @ + 1] /\ Listed(h)
        /\ Asks(h, "add", client[h].lastId + 1, bus)
    BY <1>10 DEF AddText, MayCall
  <2>2. client[h].lastId + 1 \in Nat /\ "add" \in Call
    BY <1>1, ClientChanged DEF Call
  <2>3. client'[h].life = "listed" /\ \A g \in Handle \ spoiled' : Settles(g)'
    BY <1>1, <1>2, <2>1 DEF Settles, Listed, Client
  <2> QED BY <1>2, <2>1, <2>2, <2>3, AskingLeaves
<1> QED BY <1>4, <1>5, <1>6, <1>7, <1>8, <1>9, <1>10, ExitLeaves DEF Application

(* A call goes on: what the daemon said, or that it said nothing, decides  *)
(* whether the handle of it has a session.                                 *)
Decided(h, ok) ==
  session[h] # "ABSENT" =>
    /\ Listed(h)
    /\ ~(request.h = h /\ request.op \in {"unprepare", "destroy"})
    /\ client[h].state # "CREATED" \/ (request = [h |-> h, op |-> "initialize"] /\ ok)

LEMMA RepliedLeaves ==
  ASSUME ClientInv, Asking, UNCHANGED session, NEW ok \in BOOLEAN, NEW b,
         Idle(b, spoiled'), Replied(ok, b),
         \A h \in Handle \ spoiled' : Decided(h, ok)
  PROVE  LeftInv'
<1>1. client \in [Handle -> Client] /\ b \in Bus
  BY DEF ClientInv, ClientTypeOK, Idle
<1>2. CASE HelloReplied(ok, b)
  <2>1. request.h \in Handle /\ request.op = "hello" /\ request # NoRequest /\ UNCHANGED client
    BY <1>2, RequestFields DEF HelloReplied, NoRequest
  <2>2. \A h \in Handle \ spoiled' : Settles(h)'
    BY <2>1 DEF Settles, Decided, Listed
  <2>3. CASE ok
    <3>1. client'[request.h].life = "listed" /\ NoUtt \in Nat /\ "initialize" \in Call
      BY <2>1 DEF Asking, Listed, NoUtt, Call
    <3>2. Asks(request.h, "initialize", NoUtt, b)
      BY <1>2, <2>3 DEF HelloReplied
    <3> QED BY <2>1, <2>2, <3>1, <3>2, AskingLeaves
  <2>4. CASE ~ok
    <3>1. request' = NoRequest /\ bus' = b
      BY <1>2, <2>4 DEF HelloReplied
    <3> QED BY <2>2, <3>1, QuietLeaves
  <2> QED BY <2>3, <2>4
<1>3. CASE InitializeReplied(ok, b)
  <2>1. /\ request' = NoRequest /\ bus' = b /\ request.op = "initialize"
        /\ \/ ok /\ client' = [client EXCEPT ![request.h].state = "READY"]
           \/ ~ok /\ client' = [client EXCEPT ![request.h].utt = NoUtt]
    BY <1>3 DEF InitializeReplied
  <2>2. \A h \in Handle \ spoiled' : Settles(h)'
    BY <1>1, <2>1 DEF Settles, Decided, Listed, Client
  <2> QED BY <2>1, <2>2, QuietLeaves
<1>4. CASE UnprepareReplied(ok, b)
  <2>1. /\ request' = NoRequest /\ bus' = b /\ request.op = "unprepare"
        /\ client' = [client EXCEPT ![request.h].state = "CREATED"]
    BY <1>4 DEF UnprepareReplied
  <2>2. \A h \in Handle \ spoiled' : Settles(h)'
    BY <1>1, <2>1 DEF Settles, Decided, Listed, Client
  <2> QED BY <2>1, <2>2, QuietLeaves
<1>5. CASE DestroyReplied(ok, b) /\ caller = request.h
  <2>1. /\ client' = [client EXCEPT ![request.h].life = "freeing"]
        /\ bus' = b /\ UNCHANGED request /\ request.op = "destroy"
    BY <1>5 DEF DestroyReplied
  <2>2. request.h \in Handle
    BY <2>1, RequestFields
  <2>3. Conveys(bus, Queued(bus), spoiled)'
    BY <2>1, IdleConveys
  <2>4. Asking'
    BY <1>1, <2>1, <2>2 DEF Asking, Client
  <2>5. \A h \in Handle \ spoiled' : Owns(h, session[h], bus.result)'
    BY <1>1, <2>1 DEF Owns, Decided, Listed, Client
  <2> QED BY <2>3, <2>4, <2>5 DEF LeftInv
<1>6. CASE DestroyReplied(ok, b) /\ caller # request.h
  <2>1. /\ client' = [client EXCEPT ![request.h] = Freed] /\ request.op = "destroy"
        /\ request' = NoRequest /\ (bus' = b \/ bus' = Closed(b))
    BY <1>6 DEF DestroyReplied
  <2>2. Idle(bus', spoiled')
    BY <1>1, <2>1, SettledByIdle, ClosedIdle
  <2>3. \A h \in Handle \ spoiled' : Settles(h)'
    BY <1>1, <2>1 DEF Settles, Decided, Listed
  <2> QED BY <2>1, <2>2, <2>3, QuietLeaves
<1>7. CASE StateReplied(ok, b) \/ OtherReplied(ok, b)
  <2>1. /\ request' = NoRequest /\ bus' = b
        /\ request.op \in {"play", "stop", "pause", "add", "query"}
        /\ \/ UNCHANGED client
           \/ /\ request.op \in {"play", "stop", "pause"}
              /\ client' = [client EXCEPT ![request.h].state = StateAfter[request.op]]
    BY <1>7 DEF StateReplied, OtherReplied
  <2>2. \A h \in Handle \ spoiled' : Settles(h)'
    BY <1>1, <2>1 DEF Settles, Decided, Listed, Client, StateAfter
  <2> QED BY <2>1, <2>2, QuietLeaves
<1> QED BY <1>2, <1>3, <1>4, <1>5, <1>6, <1>7 DEF Replied

LEMMA ReturnLeaves ==
  ASSUME ClientInv, LeftInv, UNCHANGED session, Return
  PROVE  LeftInv'
<1>1. PICK i \in DOMAIN bus.wire :
        /\ bus.wire[i].kind = "reply"
        /\ \E r \in Awaited(bus.held, bus.wire, i) :
             Replied(bus.result = "ok",
                     [bus EXCEPT !.held = r.queue, !.wire = r.sock, !.result = "none"])
  BY DEF Return
<1>2. PICK r \in Awaited(bus.held, bus.wire, i) :
        Replied(bus.result = "ok",
                [bus EXCEPT !.held = r.queue, !.wire = r.sock, !.result = "none"])
  BY <1>1
<1> DEFINE b == [bus EXCEPT !.held = r.queue, !.wire = r.sock, !.result = "none"]
           ok == bus.result = "ok"
<1>3. bus.result # "none" /\ Idle(b, spoiled)
  BY <1>1, ReplyTaken
<1>4. Replied(ok, b) /\ ok \in BOOLEAN
  BY <1>2
<1> HIDE DEF b
<1>5. UNCHANGED spoiled /\ Asking
  BY DEF Return, LeftInv
<1>6. \A h \in Handle \ spoiled' : Decided(h, ok)
  BY <1>3, <1>5 DEF LeftInv, Owns, Decided
<1> HIDE DEF ok
<1> QED BY <1>3, <1>4, <1>5, <1>6, RepliedLeaves

LEMMA TimeOutLeaves ==
  ASSUME ClientInv, LeftInv, UNCHANGED session, TimeOut
  PROVE  LeftInv'
<1>1. /\ Replied(FALSE, GivenUp(bus)) /\ spoiled' = spoiled \cup {request.h} /\ Asking
      /\ bus \in Bus /\ bus.held \in Seq(Carried) /\ bus.wire \in Seq(Carried)
  BY DEF TimeOut, LeftInv, Conveys, ClientInv, ClientTypeOK
<1>2. bus.kept \in Seq(Settled(spoiled')) /\ bus.inbox \in Seq(Settled(spoiled'))
  BY <1>1, SettledByLeft
<1> DEFINE b == GivenUp(bus)
           no == FALSE
<1>3. Idle(b, spoiled')
  BY <1>1, <1>2, GivenUpIdle
<1>4. Replied(no, b) /\ no \in BOOLEAN
  BY <1>1
<1>5. \A h \in Handle \ spoiled' : Decided(h, no)
  BY <1>1 DEF LeftInv, Owns, Decided
<1> HIDE DEF b, no
<1> QED BY <1>1, <1>3, <1>4, <1>5, RepliedLeaves

LEMMA AnswersHarmless ==
  ASSUME NEW sp
  PROVE  /\ \A m \in Message : AnswerTo(m) \in Seq(Harmless(sp))
         /\ \A q \in Seq(Message) : ErrorFor(q) \in Seq(Harmless(sp))
<1>1. \A op \in {"yes", "no", "stale"} :
        <<Ent(op, NoHandle, NoUtt, "none")>> \in Seq(Harmless(sp))
  <2>1. \A op \in {"yes", "no", "stale"} : Ent(op, NoHandle, NoUtt, "none") \in Harmless(sp)
    BY DEF Ent, Entry, NoUtt, Harmless
  <2> QED BY <2>1, SingleType
<1>2. <<>> \in Seq(Harmless(sp))
  BY EmptySeq
<1> QED BY <1>1, <1>2 DEF AnswerTo, ErrorFor

LEMMA ListenerLeaves ==
  ASSUME ClientInv, LeftInv, UNCHANGED session, Listener
  PROVE  LeftInv'
<1>1. PICK r \in Taken(bus.held, bus.wire) :
       /\ bus' = ToDaemon([bus EXCEPT !.held = r.queue, !.wire = r.sock],
                          ErrorFor(r.lost) \o
                          IF r.got = <<>> THEN <<>> ELSE AnswerTo(r.got[1]))
       /\ IF r.got = <<>>
            THEN UNCHANGED <<client, timers, news>>
            ELSE \/ HandleState(r.got[1]) \/ HandleUtterance(r.got[1])
                 \/ HandleOther(r.got[1])
  BY DEF Listener
<1> DEFINE answers == IF r.got = <<>> THEN <<>> ELSE AnswerTo(r.got[1])
           read == [bus EXCEPT !.held = r.queue, !.wire = r.sock]
<1>2. /\ request = NoRequest /\ request' = NoRequest /\ UNCHANGED spoiled
      /\ client \in [Handle -> Client]
  BY DEF Listener, Looping, ClientInv, ClientTypeOK
<1>3. Idle(bus, spoiled) /\ \A h \in Handle \ spoiled : Settles(h)
  BY <1>2, IdleWithoutRequest, SettledWithoutRequest
<1>4. /\ bus.wire \in Seq(Plain) /\ bus.wire \in Seq(Carried) /\ bus.wire \in Seq(Message)
      /\ bus.held \in Seq(Carried) /\ bus.held \in Seq(Message) /\ bus \in Bus
  BY <1>3, SeqOfMore, BusFields DEF Idle, Plain
<1>5. /\ r.queue \in Seq(Carried)
      /\ r.got # <<>> => r.got[1] \in Carried
  BY <1>4, TakenType
<1>6. /\ r.lost \in Seq(Message) /\ r.queue \in Seq(Message) /\ r.sock \in Seq(Message)
      /\ r.got # <<>> => r.got[1] \in Message
  BY <1>4, TakenType
<1>7. r.sock \in Seq(Plain)
  <2>1. CASE bus.held # <<>>
    BY <1>4, <2>1 DEF Taken
  <2>2. CASE bus.held = <<>>
    <3>1. PICK n \in 1 .. Len(bus.wire) :
            r = [lost |-> <<>>, got |-> First(bus.wire),
                 queue |-> SubSeq(bus.wire, 2, n),
                 sock |-> SubSeq(bus.wire, n + 1, Len(bus.wire))]
      BY <2>2 DEF Taken
    <3>2. n + 1 \in Nat \ {0} /\ Len(bus.wire) \in 0 .. Len(bus.wire)
      BY <1>4, LenProperties
    <3>3. SubSeq(bus.wire, n + 1, Len(bus.wire)) \in Seq(Plain)
      BY <1>4, <3>2, PieceType
    <3> QED BY <3>1, <3>3
  <2> QED BY <2>1, <2>2
<1>8. Idle(read, spoiled)
  <2>1. read \in Bus
    BY <1>4, <1>6, ClientEndChanged
  <2>2. /\ read.held = r.queue /\ read.wire = r.sock /\ read.result = bus.result
        /\ read.kept = bus.kept /\ read.inbox = bus.inbox
    BY <1>4 DEF Bus
  <2> HIDE DEF read
  <2> QED BY <1>3, <1>5, <1>7, <2>1, <2>2 DEF Idle
<1> DEFINE es == ErrorFor(r.lost) \o answers
<1>9. es \in Seq(Harmless(spoiled))
  <2>1. answers \in Seq(Harmless(spoiled)) /\ ErrorFor(r.lost) \in Seq(Harmless(spoiled))
    BY <1>6, AnswersHarmless, EmptySeq
  <2> HIDE DEF answers
  <2> QED BY <2>1, ConcatProperties
<1>10. bus' = ToDaemon(read, es)
  BY <1>1
<1> HIDE DEF read, es
<1>11. Idle(bus', spoiled')
  BY <1>2, <1>8, <1>9, <1>10, IdleTold
<1>12. \A h \in Handle : Settles(h) => Settles(h)'
  <2>1. CASE UNCHANGED client
    BY <2>1 DEF Settles, Listed
  <2>2. CASE r.got # <<>> /\ HandleState(r.got[1])
    <3>1. r.got[1].kind = "state" /\ r.got[1].state # "CREATED"
      BY <1>5, <2>2 DEF HandleState, Carried
    <3> QED BY <1>2, <2>2, <3>1 DEF HandleState, Settles, Listed, Client
  <2>3. CASE r.got # <<>> /\ HandleUtterance(r.got[1])
    BY <1>2, <2>3 DEF HandleUtterance, Settles, Listed, Client
  <2> QED BY <1>1, <2>1, <2>2, <2>3 DEF HandleOther
<1> QED BY <1>2, <1>3, <1>11, <1>12, QuietLeaves

LEMMA MainLoopLeaves ==
  ASSUME ClientInv, LeftInv, UNCHANGED session, MainLoop
  PROVE  LeftInv'
<1>1. request = NoRequest => Idle(bus, spoiled) /\ \A h \in Handle \ spoiled : Settles(h)
  BY IdleWithoutRequest, SettledWithoutRequest
<1>2. ASSUME request = NoRequest, UNCHANGED <<client, request, bus, spoiled>>
      PROVE  LeftInv'
  <2>1. \A h \in Handle \ spoiled' : Settles(h)'
    BY <1>1, <1>2 DEF Settles, Listed
  <2>2. Idle(bus', spoiled') /\ request' = NoRequest
    BY <1>1, <1>2
  <2> QED BY <2>1, <2>2, QuietLeaves
<1>3. ASSUME NEW h \in Handle, ConnectDaemon(h)
      PROVE  LeftInv'
  <2>1. CASE Listed(h)
    <3>1. /\ Asks(h, "hello", NoUtt, bus) /\ UNCHANGED <<client, spoiled>>
          /\ request = NoRequest /\ "hello" \in Call /\ NoUtt \in Nat
      BY <1>3, <2>1 DEF ConnectDaemon, Looping, Call, NoUtt
    <3>2. client'[h].life = "listed" /\ \A g \in Handle \ spoiled' : Settles(g)'
      BY <1>1, <2>1, <3>1 DEF Settles, Listed
    <3>3. Idle(bus, spoiled')
      BY <1>1, <3>1
    <3> QED BY <3>1, <3>2, <3>3, AskingLeaves
  <2>2. CASE ~Listed(h)
    BY <1>2, <1>3, <2>2 DEF ConnectDaemon, Looping
  <2> QED BY <2>1, <2>2
<1>4. ASSUME NEW h \in Handle, NEW k \in Notice, FireNotice(h, k)
      PROVE  LeftInv'
  BY <1>2, <1>4 DEF FireNotice, Looping
<1>5. CASE CallbackReturns
  BY <1>2, <1>5 DEF CallbackReturns
<1> QED BY <1>3, <1>4, <1>5, ReturnLeaves, TimeOutLeaves, ListenerLeaves DEF MainLoop

-------------------------------------------------------------------------------

LEMMA LeftStarts == Init => LeftInv
<1> SUFFICES ASSUME Init PROVE LeftInv
  OBVIOUS
<1>1. /\ bus = [wire |-> <<>>, held |-> <<>>, inbox |-> <<>>, kept |-> <<>>, result |-> "none"]
      /\ request = NoRequest /\ \A h \in Handle : session[h] = "ABSENT"
  BY DEF Init, ClientInit
<1>2. <<>> \in Seq(Carried) /\ <<>> \in Seq(Entry) /\ <<>> \o <<>> = <<>> /\ Len(<<>>) = 0
  <2>1. <<>> \in Seq(Carried) /\ <<>> \in Seq(Entry) /\ Len(<<>>) = 0
    BY EmptySeq
  <2> QED BY <2>1, ConcatEmptySeq
<1>3. Queued(bus) = <<>>
  BY <1>1, <1>2 DEF Queued
<1>4. Conveys(bus, <<>>, spoiled)
  BY <1>1, <1>2 DEF Conveys, Entries, Replies
<1> QED BY <1>1, <1>3, <1>4 DEF LeftInv, Asking, Owns

LEMMA LeftKept == TypeInv /\ LeftInv /\ [Next]_vars => LeftInv'
<1> SUFFICES ASSUME TypeInv, LeftInv, [Next]_vars PROVE LeftInv'
  OBVIOUS
<1>1. CASE App
  <2>1. UNCHANGED session /\ (Application \/ MainLoop)
    BY <1>1 DEF App, daemonVars
  <2> QED BY <2>1, TypeFields, ApplicationLeaves, MainLoopLeaves
<1>2. CASE Daemon
  BY <1>2, DaemonListenerLeaves, StartSweepLeaves, HelloAnsweredLeaves,
     HelloTimesOutLeaves, SendInterruptLeaves, AnnounceLeaves DEF Daemon, Sweeps
<1>3. CASE \E op \in Others : OtherAsks(op)
  BY <1>3, OtherAsksLeaves
<1>4. CASE UNCHANGED vars
  BY <1>4 DEF vars, LeftInv, Conveys, Entries, Replies, Queued, Asking, Owns, Listed
<1> QED BY <1>1, <1>2, <1>3, <1>4 DEF Next

(* A handle that tts_unprepare or tts_destroy took from the daemon has no  *)
(* session there: the finalize was answered before the call went on, and    *)
(* no initialize that nobody waits for is still on its way, for any number  *)
(* of handles and messages on the bus.                                      *)
THEOREM NothingStaysBehind == Spec => []NothingLeftBehind
<1>1. TypeInv /\ LeftInv => NothingLeftBehind
  BY DEF LeftInv, Owns, NothingLeftBehind, Registered, Listed
<1> QED BY <1>1, TypeStarts, TypeKept, LeftStarts, LeftKept, PTL DEF Spec

-------------------------------------------------------------------------------
(* The sweep waits for one answer.  What the daemon asked and what it is    *)
(* answered: at most one of both, and nothing while it does not wait.      *)

Heard(b) == b.held \o b.wire
Hello == {m \in Message : m.kind = "hello"}
Answer == {e \in Entry : e.op \in {"yes", "no"}}
Denial == {e \in Answer : e.op = "no"}

(* g: the handle that the daemon waits for.                                *)
One(b, g) ==
  /\ Single(Heard(b), Hello) /\ Lacks(Heard(b), {m \in Hello : m.h # g})
  /\ Single(Queued(b), Answer) /\ Lacks(b.kept, Answer)
  /\ Lacks(Heard(b), Hello) \/ Lacks(Queued(b), Answer)
  /\ g = NoHandle => Lacks(Heard(b), Hello) /\ Lacks(Queued(b), Answer)

(* The hello of a handle whose application is free is the next message it   *)
(* takes, or has been answered, and not with no.                           *)
Fresh(b, req) ==
  /\ Lacks(Queued(b), Denial)
  /\ \/ req = NoRequest /\ b.wire # <<>> /\ b.wire[1] \in Hello
     \/ ~Lacks(Queued(b), Answer)

(* Nobody asks for a handle that was never created.                        *)
Unborn == {e \in Entry : e.h \in Handle /\ client[e.h].life = "unborn"}

SweepInv ==
  /\ One(bus, greet)
  /\ greet # NoHandle /\ ~stalled /\ Listed(greet) /\ Registered(greet)
       => Fresh(bus, request)
  /\ Lacks(Queued(bus), Unborn)
  /\ \A h \in Handle : client[h].life = "unborn" => session[h] = "ABSENT"

(* From b to c no hello comes, and no answer comes or goes.                *)
Fewer(b, c) ==
  /\ \A M \in SUBSET Hello : /\ Lacks(Heard(b), M) => Lacks(Heard(c), M)
                             /\ Single(Heard(b), M) => Single(Heard(c), M)
  /\ \A M \in {Answer, Denial} : Lacks(Queued(b), M) <=> Lacks(Queued(c), M)
  /\ Single(Queued(b), Answer) => Single(Queued(c), Answer)
  /\ Lacks(b.kept, Answer) => Lacks(c.kept, Answer)
  /\ Lacks(Queued(b), Unborn) => Lacks(Queued(c), Unborn)

(* So what the daemon asked stays the one thing it asked.                  *)
LEMMA FewerOne ==
  ASSUME NEW b, NEW c, NEW g, One(b, g), Fewer(b, c)
  PROVE  One(c, g)
<1>1. Hello \in SUBSET Hello /\ {m \in Hello : m.h # g} \in SUBSET Hello
  OBVIOUS
<1> QED BY <1>1 DEF One, Fewer

(* One such change after another.                                          *)
LEMMA FewerFewer ==
  ASSUME NEW b, NEW c, NEW d, Fewer(b, c), Fewer(c, d)
  PROVE  Fewer(b, d)
BY DEF Fewer

(* Only the end of the client changes, or only the end of the daemon.      *)
LEMMA FewerSame ==
  ASSUME NEW b, NEW c, c.kept = b.kept, c.inbox = b.inbox,
         \A M \in SUBSET Hello : /\ Lacks(Heard(b), M) => Lacks(Heard(c), M)
                                 /\ Single(Heard(b), M) => Single(Heard(c), M)
  PROVE  Fewer(b, c)
BY DEF Fewer, Queued

(* What is heard are messages.                                             *)
LEMMA HeardType ==
  ASSUME NEW b \in Bus
  PROVE  Heard(b) \in Seq(Message)
BY BusFields, ConcatProperties DEF Heard

(* Entries that are no answers join the daemon's queue.                    *)
LEMMA FewerAsked ==
  ASSUME NEW b \in Bus, NEW es \in Seq(Entry), Lacks(es, Answer), Lacks(es, Unborn)
  PROVE  Fewer(b, ToDaemon(b, es))
<1> DEFINE c == ToDaemon(b, es)
           q == Queued(b)
<1>1. /\ c.held = b.held /\ c.wire = b.wire /\ c.kept = b.kept
      /\ c.inbox = b.inbox \o es
  BY DEF ToDaemon, Bus
<1>2. q \in Seq(Entry) /\ Queued(c) = q \o es
  <2> DEFINE kept == b.kept
             inbox == b.inbox
  <2>1. kept \in Seq(Entry) /\ inbox \in Seq(Entry)
    BY BusFields
  <2> HIDE DEF kept, inbox
  <2>2. (kept \o inbox) \o es = kept \o (inbox \o es)
    BY <2>1, ConcatAssociative
  <2> QED BY <1>1, <2>2, QueuedType DEF Queued, kept, inbox
<1> HIDE DEF c, q
<1>3. Lacks(es, Denial)
  BY DEF Lacks, Denial
<1>4. /\ \A M \in {Answer, Denial} : Lacks(q, M) <=> Lacks(q \o es, M)
      /\ Single(q, Answer) => Single(q \o es, Answer)
      /\ Lacks(q, Unborn) => Lacks(q \o es, Unborn)
  BY <1>2, <1>3, JoinedMarks
<1> QED BY <1>1, <1>2, <1>4 DEF Fewer, Heard, q, c

(* A method call, and what others ask.                                     *)
LEMMA FewerEntry ==
  ASSUME NEW b \in Bus, NEW op \in Method \cup {"stale", "interrupt", "engine"},
         NEW h \in Handle \cup {NoHandle}, h \in Handle => client[h].life # "unborn",
         NEW n \in Nat, NEW a \in {"live", "late", "none"}
  PROVE  Fewer(b, ToDaemon(b, <<Ent(op, h, n, a)>>))
<1> DEFINE e == Ent(op, h, n, a)
<1>1. e \in Entry /\ e.op = op /\ e.h = h
  BY EntType DEF Ent
<1>2. e \notin Answer /\ e \notin Unborn
  BY <1>1 DEF Answer, Unborn, Method
<1>3. <<e>> \in Seq(Entry)
  BY <1>1
<1> HIDE DEF e
<1>4. Lacks(<<e>>, Answer) /\ Lacks(<<e>>, Unborn)
  BY <1>2, ShortMarks
<1>5. Fewer(b, ToDaemon(b, <<e>>))
  BY <1>3, <1>4, FewerAsked
<1> QED BY <1>5 DEF e

(* A request of the application leaves; an unanswered hello is stalled.    *)
LEMMA FewerAsks ==
  ASSUME NEW b \in Bus, NEW h \in Handle, client[h].life # "unborn", NEW op \in Call,
         NEW n \in Nat, Asks(h, op, n, b)
  PROVE  Fewer(b, bus') /\ (stalled \/ Asked(bus) <=> stalled')
<1>1. MethodOf(op) \in Method
  BY DEF MethodOf, Call, Method
<1> QED BY <1>1, FewerEntry DEF Asks

(* An entry stays what it is when nobody waits for it any more.            *)
LEMMA NoLongerMarks ==
  ASSUME NEW q \in Seq(Entry), NEW from, NEW to \in {"live", "late", "none"}
  PROVE  LET s == NoLonger(q, from, to) IN
         /\ s \in Seq(Entry)
         /\ \A M \in {Answer, Denial, Unborn} : Lacks(q, M) <=> Lacks(s, M)
         /\ Single(q, Answer) => Single(s, Answer)
<1> DEFINE s == NoLonger(q, from, to)
<1>1. s \in Seq(Entry)
  BY NoLongerType
<1>2. Len(q) \in Nat /\ DOMAIN q = 1 .. Len(q) /\ Len(s) = Len(q)
  BY LenProperties DEF NoLonger
<1>3. \A i \in 1 .. Len(q) : q[i] \in Entry /\ s[i] \in Entry
  BY <1>1, <1>2, ElementOfSeq
<1>4. \A i \in 1 .. Len(q) : s[i].op = q[i].op /\ s[i].h = q[i].h
  BY <1>2, <1>3 DEF NoLonger, Entry
<1> HIDE DEF s
<1>5. \A M \in {Answer, Denial, Unborn} : \A i \in 1 .. Len(q) : s[i] \in M <=> q[i] \in M
  BY <1>3, <1>4 DEF Answer, Denial, Unborn
<1> QED BY <1>1, <1>2, <1>5 DEF Lacks, Single, s

(* Both queues of the daemon, with the entries that nobody waits for.      *)
LEMMA NoLongerQueued ==
  ASSUME NEW b \in Bus, NEW c, NEW from, NEW to \in {"live", "late", "none"},
         c.kept = NoLonger(b.kept, from, to), c.inbox = NoLonger(b.inbox, from, to)
  PROVE  /\ Queued(c) \in Seq(Entry)
         /\ \A M \in {Answer, Denial, Unborn} : Lacks(Queued(b), M) <=> Lacks(Queued(c), M)
         /\ Single(Queued(b), Answer) => Single(Queued(c), Answer)
         /\ Lacks(b.kept, Answer) => Lacks(c.kept, Answer)
<1> DEFINE k == b.kept
           i == b.inbox
           l == NoLonger(k, from, to)
           j == NoLonger(i, from, to)
<1>1. k \in Seq(Entry) /\ i \in Seq(Entry)
  BY BusFields
<1> HIDE DEF k, i
<1>2. /\ l \in Seq(Entry) /\ j \in Seq(Entry)
      /\ \A M \in {Answer, Denial, Unborn} : /\ Lacks(k, M) <=> Lacks(l, M)
                                             /\ Lacks(i, M) <=> Lacks(j, M)
      /\ Single(k, Answer) => Single(l, Answer)
      /\ Single(i, Answer) => Single(j, Answer)
  BY <1>1, NoLongerMarks
<1> HIDE DEF l, j
<1>3. \A M \in {Answer, Denial, Unborn} : Lacks(k \o i, M) <=> Lacks(l \o j, M)
  BY <1>1, <1>2, JoinedMarks
<1>4. Single(k \o i, Answer) => Single(l \o j, Answer)
  <2>1. Single(k \o i, Answer) =>
          Single(k, Answer) /\ Single(i, Answer) /\ (Lacks(k, Answer) \/ Lacks(i, Answer))
    BY <1>1, JoinedSingle
  <2> QED BY <1>2, <2>1, JoinedMarks
<1>5. l \o j \in Seq(Entry)
  BY <1>2, ConcatProperties
<1> QED BY <1>2, <1>3, <1>4, <1>5 DEF Queued, k, i, l, j

(* The client stops waiting.                                               *)
LEMMA FewerGivenUp ==
  ASSUME NEW b \in Bus
  PROVE  Fewer(b, GivenUp(b))
<1> DEFINE c == GivenUp(b)
<1>1. /\ c.wire = <<>> /\ c.held = Heard(b)
      /\ c.inbox = NoLonger(b.inbox, {"live"}, "late")
      /\ c.kept = NoLonger(b.kept, {"live"}, "late")
  BY DEF GivenUp, Heard
<1> HIDE DEF c
<1>2. Heard(c) = Heard(b)
  BY <1>1, HeardType, ConcatEmptySeq DEF Heard
<1>3. /\ \A M \in {Answer, Denial, Unborn} : Lacks(Queued(b), M) <=> Lacks(Queued(c), M)
      /\ Single(Queued(b), Answer) => Single(Queued(c), Answer)
      /\ Lacks(b.kept, Answer) => Lacks(c.kept, Answer)
  BY <1>1, NoLongerQueued
<1> QED BY <1>2, <1>3 DEF Fewer, c

(* The client takes the reply that it waits for.                           *)
LEMMA FewerReturned ==
  ASSUME NEW b \in Bus, NEW i \in DOMAIN b.wire, NEW r \in Awaited(b.held, b.wire, i),
         NEW c, c = [b EXCEPT !.held = r.queue, !.wire = r.sock, !.result = "none"]
  PROVE  c \in Bus /\ Fewer(b, c)
<1> DEFINE h == b.held
           w == b.wire
<1>1. h \in Seq(Message) /\ w \in Seq(Message) /\ i \in 1 .. Len(w)
  BY BusFields, LenProperties
<1>2. r.queue \in Seq(Message) /\ r.sock \in Seq(Message)
  BY <1>1, AwaitedType DEF h, w
<1>3. Without(h \o w, Len(h) + i, r.queue \o r.sock)
  <2>1. r \in Awaited(h, w, i)
    OBVIOUS
  <2> HIDE DEF h, w
  <2> QED BY <1>1, <2>1, AwaitedRest
<1>4. /\ c \in Bus /\ c.held = r.queue /\ c.wire = r.sock
      /\ c.kept = b.kept /\ c.inbox = b.inbox
  BY <1>2, ClientEndChanged DEF Bus
<1>5. Without(Heard(b), Len(h) + i, Heard(c))
  BY <1>3, <1>4 DEF Heard
<1>6. \A M \in SUBSET Hello : /\ Lacks(Heard(b), M) => Lacks(Heard(c), M)
                              /\ Single(Heard(b), M) => Single(Heard(c), M)
  BY <1>5, WithoutMarks
<1> QED BY <1>4, <1>6, FewerSame

(* Every way to ask is a hello in Heard.                                   *)
LEMMA AskedHears ==
  ASSUME NEW b \in Bus
  PROVE  Asked(b) <=> ~Lacks(Heard(b), Hello)
<1> DEFINE h == b.held
           w == b.wire
<1>1. h \in Seq(Message) /\ w \in Seq(Message)
  BY BusFields
<1> HIDE DEF h, w
<1>2. /\ DOMAIN h = 1 .. Len(h) /\ DOMAIN w = 1 .. Len(w)
      /\ \A i \in 1 .. Len(h) : h[i] \in Message
      /\ \A i \in 1 .. Len(w) : w[i] \in Message
  BY <1>1, LenProperties, ElementOfSeq
<1>3. Lacks(h \o w, Hello) <=> Lacks(h, Hello) /\ Lacks(w, Hello)
  BY <1>1, JoinedMarks
<1>4. (\E q \in {w, h} : \E i \in DOMAIN q : q[i].kind = "hello")
        <=> ~(Lacks(h, Hello) /\ Lacks(w, Hello))
  BY <1>2 DEF Lacks, Hello
<1> QED BY <1>3, <1>4 DEF Asked, Heard, h, w

(* The connection is closed: the bus answers what was asked.               *)
LEMMA ClosedOne ==
  ASSUME NEW b \in Bus, NEW g, One(b, g), Lacks(Queued(b), Unborn)
  PROVE  One(Closed(b), g) /\ Lacks(Queued(Closed(b)), Unborn)
<1> DEFINE c == Closed(b)
           kept == NoLonger(b.kept, {"live", "late"}, "none")
           inbox == NoLonger(b.inbox, {"live", "late"}, "none")
           d == [kept |-> kept, inbox |-> inbox]
           e == Ent("no", NoHandle, NoUtt, "none")
           answer == IF Asked(b) THEN <<e>> ELSE <<>>
<1>1. /\ c.wire = <<>> /\ c.held = <<>> /\ c.kept = kept /\ c.inbox = inbox \o answer
  BY DEF Closed
<1>2. /\ Queued(d) \in Seq(Entry)
      /\ \A M \in {Answer, Denial, Unborn} : Lacks(Queued(b), M) <=> Lacks(Queued(d), M)
      /\ Single(Queued(b), Answer) => Single(Queued(d), Answer)
      /\ Lacks(b.kept, Answer) => Lacks(kept, Answer)
  BY NoLongerQueued
<1>3. kept \in Seq(Entry) /\ inbox \in Seq(Entry)
  BY BusFields, NoLongerType
<1>4. e \in Entry /\ e \notin Unborn
  BY NoHandleAssumption DEF Ent, Entry, NoUtt, Unborn
<1> HIDE DEF kept, inbox, e
<1>5. answer \in Seq(Entry) /\ Lacks(answer, Unborn) /\ Single(answer, Answer)
  <2>1. <<e>> \in Seq(Entry) /\ Lacks(<<e>>, Unborn) /\ Single(<<e>>, Answer)
    BY <1>4, ShortMarks, SingleType
  <2>2. <<>> \in Seq(Entry) /\ Lacks(<<>>, Unborn) /\ Single(<<>>, Answer)
    BY ShortMarks, EmptySeq
  <2> QED BY <2>1, <2>2
<1>6. Asked(b) => Lacks(Queued(d), Answer) /\ g # NoHandle
  BY <1>2, AskedHears DEF One
<1>7. ~Asked(b) => answer = <<>>
  OBVIOUS
<1> HIDE DEF answer
<1>8. Queued(c) = Queued(d) \o answer
  BY <1>1, <1>3, <1>5, ConcatAssociative DEF Queued
<1> DEFINE q == Queued(d)
<1>9. q \in Seq(Entry) /\ Queued(c) = q \o answer
  BY <1>2, <1>8
<1> HIDE DEF q, c
<1>10. Lacks(q, Unborn) => Lacks(q \o answer, Unborn)
  BY <1>5, <1>9, JoinedMarks
<1>11. Single(q \o answer, Answer) /\ (g = NoHandle => Lacks(q \o answer, Answer))
  <2>1. CASE Asked(b)
    BY <1>5, <1>6, <1>9, <2>1, JoinedMarks DEF q
  <2>2. CASE ~Asked(b)
    <3>1. q \o answer = q
      BY <1>7, <1>9, <2>2, ConcatEmptySeq
    <3> QED BY <1>2, <3>1 DEF One, q
  <2> QED BY <2>1, <2>2
<1>12. Heard(c) = <<>>
  BY <1>1, EmptySeq, ConcatEmptySeq DEF Heard
<1>13. \A M : Lacks(Heard(c), M) /\ Single(Heard(c), M)
  BY <1>12, ShortMarks
<1> QED BY <1>1, <1>2, <1>9, <1>10, <1>11, <1>13 DEF One, q, c

(* The application.  A handle is listed when it is created, and leaves.    *)
Ages ==
  \A h \in Handle : \/ client'[h].life \in {client[h].life, "freeing", "gone"}
                    \/ client[h].life = "unborn"

(* Nobody becomes unborn, and a listed handle with a session was listed.   *)
LEMMA AgesUnborn ==
  ASSUME SweepInv, UNCHANGED session, Ages
  PROVE  /\ \A q : Lacks(q, Unborn) => Lacks(q, Unborn')
         /\ \A h \in Handle : client'[h].life = "unborn" => session'[h] = "ABSENT"
         /\ \A h \in Handle : Registered(h)' /\ Listed(h)' => Registered(h) /\ Listed(h)
<1>1. \A h \in Handle : client'[h].life = "unborn" => client[h].life = "unborn"
  BY DEF Ages
<1>2. \A e : e \in Unborn' => e \in Unborn
  BY <1>1 DEF Unborn
<1>3. \A h \in Handle : client[h].life = "unborn" => session[h] = "ABSENT"
  BY DEF SweepInv
<1>4. \A h \in Handle : Registered(h)' /\ Listed(h)' => Registered(h) /\ Listed(h)
  BY <1>3 DEF Ages, Registered, Listed
<1>5. \A q : Lacks(q, Unborn) => Lacks(q, Unborn')
  BY <1>2 DEF Lacks
<1> QED BY <1>1, <1>3, <1>4, <1>5

(* What a step of the application has to show: as long as the daemon is    *)
(* not to find it blocked, the hello stays first on the wire.              *)
LEMMA AppSpares ==
  ASSUME TypeInv, SweepInv, UNCHANGED daemonVars, Ages, Fewer(bus, bus'),
         stalled => stalled',
         \/ request # NoRequest \/ stalled' \/ ~Asked(bus)
         \/ request' = NoRequest /\ bus'.wire = bus.wire
  PROVE  SweepInv'
<1>1. greet' = greet /\ session' = session
  BY DEF daemonVars
<1>2. One(bus', greet)
  BY FewerOne DEF SweepInv
<1>3. Lacks(Queued(bus'), Unborn')
  BY <1>1, AgesUnborn DEF SweepInv, Fewer
<1>4. ASSUME greet # NoHandle, ~stalled', Listed(greet)', Registered(greet)'
      PROVE  Fresh(bus', request')
  <2>1. Fresh(bus, request)
    <3>1. greet \in Handle
      BY <1>1, <1>4, TypeFields
    <3>2. Registered(greet)' /\ Listed(greet)'
      BY <1>1, <1>4 DEF Registered, Listed
    <3>3. Registered(greet) /\ Listed(greet)
      BY <1>1, <3>1, <3>2, AgesUnborn DEF Registered, Listed
    <3>4. greet # NoHandle /\ ~stalled
      BY <1>4
    <3> QED BY <3>3, <3>4 DEF SweepInv
  <2>2. Lacks(Queued(bus'), Denial)
    BY <2>1 DEF Fresh, Fewer
  <2>3. CASE ~Lacks(Queued(bus), Answer)
    BY <2>2, <2>3 DEF Fresh, Fewer
  <2>4. CASE request = NoRequest /\ bus.wire # <<>> /\ bus.wire[1] \in Hello
    <3>1. bus.wire \in Seq(Message)
      BY TypeFields
    <3>2. 1 \in DOMAIN bus.wire
      BY <2>4, <3>1, LenProperties, EmptySeq
    <3>3. Asked(bus)
      BY <2>4, <3>2 DEF Asked, Hello
    <3> QED BY <1>4, <2>2, <2>4, <3>3 DEF Fresh
  <2> QED BY <2>1, <2>3, <2>4 DEF Fresh
<1>5. \A h \in Handle : client'[h].life = "unborn" => session'[h] = "ABSENT"
  BY <1>1, AgesUnborn
<1> QED BY <1>1, <1>2, <1>3, <1>4, <1>5 DEF SweepInv

(* The last handle is gone, and the connection with it.                    *)
LEMMA ClosedSpares ==
  ASSUME TypeInv, SweepInv, UNCHANGED daemonVars, Ages,
         NEW b \in Bus, Fewer(bus, b), bus' = Closed(b),
         \A h \in Handle : client'[h].life # "listed"
  PROVE  SweepInv'
<1>1. greet' = greet /\ session' = session /\ greet \in Handle \cup {NoHandle}
  BY TypeFields DEF daemonVars
<1>2. One(b, greet) /\ Lacks(Queued(b), Unborn)
  BY FewerOne DEF SweepInv, Fewer
<1>3. One(bus', greet') /\ Lacks(Queued(bus'), Unborn')
  BY <1>1, <1>2, ClosedOne, AgesUnborn
<1>4. greet' # NoHandle => ~Listed(greet)'
  BY <1>1 DEF Listed
<1>5. \A h \in Handle : client'[h].life = "unborn" => session'[h] = "ABSENT"
  BY <1>1, AgesUnborn
<1> QED BY <1>3, <1>4, <1>5 DEF SweepInv

(* Most of what an application does sends nothing and does not block.      *)
LEMMA FewerNothing ==
  ASSUME NEW b
  PROVE  Fewer(b, b)
BY DEF Fewer

(* One handle is created, changed or freed.                                *)
LEMMA AgesWithOne ==
  ASSUME client \in [Handle -> Client], NEW h \in Handle,
         \/ UNCHANGED client
         \/ \E c \in Client : /\ client' = [client EXCEPT ![h] = c]
                              /\ \/ c.life \in {client[h].life, "freeing", "gone"}
                                 \/ client[h].life = "unborn"
  PROVE  Ages
BY DEF Ages

(* A step that does not touch the connection.                              *)
LEMMA QuietSpares ==
  ASSUME TypeInv, SweepInv, UNCHANGED daemonVars, Ages,
         UNCHANGED <<bus, request, stalled>>
  PROVE  SweepInv'
BY FewerNothing, AppSpares

(* A request leaves while the process has nothing to answer, or stalls.    *)
LEMMA AsksSpares ==
  ASSUME TypeInv, SweepInv, UNCHANGED daemonVars, Ages,
         NEW h \in Handle, Listed(h), NEW op \in Call, NEW n \in Nat,
         Asks(h, op, n, bus)
  PROVE  SweepInv'
<1>1. bus \in Bus /\ stalled \in BOOLEAN
  BY TypeFields
<1>2. client[h].life # "unborn"
  BY DEF Listed
<1>3. Fewer(bus, bus') /\ (stalled \/ Asked(bus) <=> stalled')
  BY <1>1, <1>2, FewerAsks
<1> QED BY <1>3, AppSpares

(* tts_create                                                              *)
LEMMA CreateSpares ==
  ASSUME TypeInv, SweepInv, UNCHANGED daemonVars, NEW h \in Handle, Create(h)
  PROVE  SweepInv'
<1>1. client \in [Handle -> Client] /\ NewHandle \in Client
  BY TypeFields, HandlesType DEF ClientInv, ClientTypeOK
<1>2. Ages
  BY <1>1, AgesWithOne DEF Create
<1> QED BY <1>2, QuietSpares DEF Create

(* tts_set_*_cb                                                            *)
LEMMA SetCallbacksSpares ==
  ASSUME TypeInv, SweepInv, UNCHANGED daemonVars, NEW h \in Handle,
         NEW r \in BOOLEAN, SetCallbacks(h, r)
  PROVE  SweepInv'
<1>1. client \in [Handle -> Client]
  BY TypeFields DEF ClientInv, ClientTypeOK
<1>2. client' = [client EXCEPT ![h].cb = r]
  BY DEF SetCallbacks
<1>3. Ages
  BY <1>1, <1>2 DEF Ages, Client
<1> QED BY <1>3, QuietSpares DEF SetCallbacks

(* tts_prepare                                                             *)
LEMMA PrepareSpares ==
  ASSUME TypeInv, SweepInv, UNCHANGED daemonVars, NEW h \in Handle, Prepare(h)
  PROVE  SweepInv'
<1>1. Ages
  BY DEF Prepare, Ages
<1> QED BY <1>1, QuietSpares DEF Prepare

(* Freed, with the connection or without it; or waiting for its callback.  *)
LEMMA DestroySpares ==
  ASSUME TypeInv, SweepInv, UNCHANGED daemonVars, NEW h \in Handle,
         DestroyCreated(h) \/ DestroyInCallback(h)
  PROVE  SweepInv'
<1>1. client \in [Handle -> Client] /\ Freed \in Client /\ Freed.life = "gone"
  BY TypeFields, HandlesType DEF ClientInv, ClientTypeOK, Freed, NewHandle
<1>2. bus \in Bus
  BY TypeFields
<1>3. CASE DestroyCreated(h)
  <2>1. client' = [client EXCEPT ![h] = Freed]
    BY <1>3 DEF DestroyCreated
  <2>2. Ages
    BY <1>1, <2>1 DEF Ages
  <2>3. CASE \E g \in Handle \ {h} : Listed(g)
    BY <1>3, <2>2, <2>3, QuietSpares DEF DestroyCreated
  <2>4. CASE ~\E g \in Handle \ {h} : Listed(g)
    <3>1. \A g \in Handle : client'[g].life # "listed"
      BY <1>1, <2>1, <2>4 DEF Listed
    <3>2. bus' = Closed(bus)
      BY <1>3, <2>4 DEF DestroyCreated
    <3> QED BY <1>2, <2>2, <3>1, <3>2, FewerNothing, ClosedSpares
  <2> QED BY <2>3, <2>4
<1>4. CASE DestroyInCallback(h)
  <2>1. client' = [client EXCEPT ![h].life = "freeing"] /\ bus' = bus
        /\ stalled' = (stalled \/ Asked(bus))
    BY <1>4 DEF DestroyInCallback
  <2>2. Ages
    BY <1>1, <2>1 DEF Ages, Client
  <2> QED BY <2>1, <2>2, FewerNothing, AppSpares
<1> QED BY <1>3, <1>4

(* The calls that ask the daemon.                                          *)
LEMMA CallsSpare ==
  ASSUME TypeInv, SweepInv, UNCHANGED daemonVars, NEW h \in Handle,
         (\E op \in Call : Calls(h, op)) \/ AddText(h)
  PROVE  SweepInv'
<1>1. client \in [Handle -> Client]
  BY TypeFields DEF ClientInv, ClientTypeOK
<1>2. ASSUME NEW op \in Call, Calls(h, op)
      PROVE  SweepInv'
  <2>1. Ages
    BY <1>2 DEF Calls, Ages
  <2> QED BY <1>2, <2>1, AsksSpares DEF Calls, MayCall, NoUtt
<1>3. CASE AddText(h)
  <2>1. client[h].lastId + 1 \in Nat
    BY <1>1 DEF Client
  <2>2. client' = [client EXCEPT ![h].lastId = @ + 1]
    BY <1>3 DEF AddText
  <2>3. Ages
    BY <1>1, <2>2 DEF Ages, Client
  <2> QED BY <1>3, <2>1, <2>3, AsksSpares DEF AddText, MayCall, Call
<1> QED BY <1>2, <1>3

(* The process ends, and its connection with it.                           *)
LEMMA ExitSpares ==
  ASSUME TypeInv, SweepInv, UNCHANGED daemonVars, Exit
  PROVE  SweepInv'
<1>1. bus \in Bus /\ Freed.life = "gone"
  BY TypeFields DEF Freed, NewHandle
<1>2. client' = [h \in Handle |-> IF Listed(h) \/ client[h].life = "freeing"
                                    THEN Freed ELSE client[h]]
      /\ bus' = Closed(bus)
  BY DEF Exit
<1>3. Ages /\ \A h \in Handle : client'[h].life # "listed"
  BY <1>1, <1>2 DEF Ages, Listed
<1> QED BY <1>1, <1>2, <1>3, FewerNothing, ClosedSpares

(* Any call of the application.                                            *)
LEMMA ApplicationSpares ==
  ASSUME TypeInv, SweepInv, UNCHANGED daemonVars, Application
  PROVE  SweepInv'
BY CreateSpares, SetCallbacksSpares, PrepareSpares, DestroySpares, CallsSpare,
   ExitSpares DEF Application

(* A call goes on: nothing, the next request, or the end of the connection. *)
LEMMA RepliedSpares ==
  ASSUME TypeInv, Asking, SweepInv, UNCHANGED daemonVars, request # NoRequest,
         NEW b \in Bus, Fewer(bus, b), NEW ok, Replied(ok, b)
  PROVE  SweepInv'
<1> DEFINE h == request.h
<1>1. /\ client \in [Handle -> Client] /\ stalled \in BOOLEAN
      /\ request \in [h: Handle, op: Call] /\ h \in Handle
  BY TypeFields DEF ClientInv, ClientTypeOK
<1>2. client[h].life \in {"listed", "freeing"}
  BY DEF Asking, Listed
<1> HIDE DEF h
<1>3. ASSUME UNCHANGED stalled, bus' = b, Ages
      PROVE  SweepInv'
    BY <1>3, AppSpares
<1>4. CASE HelloReplied(ok, b)
  <2>1. Ages
    BY <1>4 DEF HelloReplied, Ages
  <2>2. CASE ok
    <3>1. Asks(h, "initialize", NoUtt, b)
      BY <1>4, <2>2 DEF HelloReplied, h
    <3>2. Fewer(b, bus') /\ (stalled \/ Asked(bus) <=> stalled')
      <4>1. client[h].life # "unborn" /\ "initialize" \in Call /\ NoUtt \in Nat
        BY <1>2 DEF Call, NoUtt
      <4> QED BY <1>1, <3>1, <4>1, FewerAsks
    <3>3. Fewer(bus, bus')
      BY <3>2, FewerFewer
    <3> QED BY <2>1, <3>2, <3>3, AppSpares
  <2>3. CASE ~ok
    BY <1>3, <1>4, <2>1, <2>3 DEF HelloReplied
  <2> QED BY <2>2, <2>3
<1>5. CASE InitializeReplied(ok, b)
  <2>1. \/ client' = [client EXCEPT ![h].state = "READY"]
        \/ client' = [client EXCEPT ![h].utt = NoUtt]
    BY <1>5 DEF InitializeReplied, h
  <2>2. Ages
    BY <1>1, <2>1 DEF Ages, Client
  <2> QED BY <1>3, <1>5, <2>2 DEF InitializeReplied
<1>6. CASE UnprepareReplied(ok, b)
  <2>1. client' = [client EXCEPT ![h].state = "CREATED"]
    BY <1>6 DEF UnprepareReplied, h
  <2>2. Ages
    BY <1>1, <2>1 DEF Ages, Client
  <2> QED BY <1>3, <1>6, <2>2 DEF UnprepareReplied
<1>7. CASE DestroyReplied(ok, b)
  <2>1. CASE caller = h
    <3>1. client' = [client EXCEPT ![h].life = "freeing"] /\ bus' = b
      BY <1>7, <2>1 DEF DestroyReplied, h
    <3>2. Ages
      BY <1>1, <3>1 DEF Ages, Client
    <3> QED BY <1>3, <1>7, <3>1, <3>2 DEF DestroyReplied
  <2>2. CASE caller # h
    <3>1. /\ client' = [client EXCEPT ![h] = Freed]
          /\ bus' = IF \E g \in Handle \ {h} : Listed(g) THEN b ELSE Closed(b)
      BY <1>7, <2>2 DEF DestroyReplied, h
    <3>2. Freed.life = "gone"
      BY DEF Freed, NewHandle
    <3>3. Ages
      BY <1>1, <3>1, <3>2 DEF Ages
    <3>4. CASE \E g \in Handle \ {h} : Listed(g)
      BY <1>3, <1>7, <3>1, <3>3, <3>4 DEF DestroyReplied
    <3>5. CASE ~\E g \in Handle \ {h} : Listed(g)
      <4>1. \A g \in Handle : client'[g].life # "listed"
        BY <1>1, <3>1, <3>2, <3>5 DEF Listed
      <4> QED BY <3>1, <3>3, <3>5, <4>1, ClosedSpares
    <3> QED BY <3>4, <3>5
  <2> QED BY <2>1, <2>2
<1>8. CASE StateReplied(ok, b)
  <2>1. \/ client' = client
        \/ client' = [client EXCEPT ![h].state = StateAfter[request.op]]
    BY <1>8 DEF StateReplied, h
  <2>2. Ages
    BY <1>1, <2>1 DEF Ages, Client
  <2> QED BY <1>3, <1>8, <2>2 DEF StateReplied
<1>9. CASE OtherReplied(ok, b)
  <2>1. Ages
    BY <1>9 DEF OtherReplied, Ages
  <2> QED BY <1>3, <1>9, <2>1 DEF OtherReplied
<1> QED BY <1>4, <1>5, <1>6, <1>7, <1>8, <1>9 DEF Replied

(* The blocking call ends, with its reply or without.                      *)
LEMMA WaitsSpare ==
  ASSUME TypeInv, Asking, SweepInv, UNCHANGED daemonVars, Return \/ TimeOut
  PROVE  SweepInv'
<1>1. bus \in Bus
  BY TypeFields
<1>2. CASE Return
  <2>1. PICK i \in DOMAIN bus.wire : \E r \in Awaited(bus.held, bus.wire, i) :
          Replied(bus.result = "ok",
                  [bus EXCEPT !.held = r.queue, !.wire = r.sock, !.result = "none"])
    BY <1>2 DEF Return
  <2>2. PICK r \in Awaited(bus.held, bus.wire, i) :
          Replied(bus.result = "ok",
                  [bus EXCEPT !.held = r.queue, !.wire = r.sock, !.result = "none"])
    BY <2>1
  <2> DEFINE c == [bus EXCEPT !.held = r.queue, !.wire = r.sock, !.result = "none"]
  <2>3. c \in Bus /\ Fewer(bus, c)
    BY <1>1, FewerReturned
  <2>4. request # NoRequest
    BY <1>2 DEF Return, Waiting
  <2>5. Replied(bus.result = "ok", c)
    BY <2>2
  <2> HIDE DEF c
  <2> QED BY <2>3, <2>4, <2>5, RepliedSpares
<1>3. CASE TimeOut
  <2>1. request # NoRequest /\ Replied(FALSE, GivenUp(bus))
    BY <1>3 DEF TimeOut, Waiting
  <2> QED BY <1>1, <2>1, GivenUpType, FewerGivenUp, RepliedSpares
<1> QED BY <1>2, <1>3

(* __tts_connect_daemon                                                    *)
LEMMA ConnectDaemonSpares ==
  ASSUME TypeInv, SweepInv, UNCHANGED daemonVars, NEW h \in Handle, ConnectDaemon(h)
  PROVE  SweepInv'
<1>1. Ages
  BY DEF ConnectDaemon, Ages
<1>2. CASE Listed(h)
  <2>1. Asks(h, "hello", NoUtt, bus) /\ "hello" \in Call /\ NoUtt \in Nat
    BY <1>2 DEF ConnectDaemon, Call, NoUtt
  <2> QED BY <1>1, <1>2, <2>1, AsksSpares
<1>3. CASE ~Listed(h)
  BY <1>1, <1>3, QuietSpares DEF ConnectDaemon
<1> QED BY <1>2, <1>3

(* Callbacks.                                                              *)
LEMMA NoticesSpare ==
  ASSUME TypeInv, SweepInv, UNCHANGED daemonVars,
         CallbackReturns \/ \E h \in Handle : \E k \in Notice : FireNotice(h, k)
  PROVE  SweepInv'
<1>1. UNCHANGED <<client, request, bus, stalled>>
  BY DEF CallbackReturns, FireNotice
<1>2. Ages
  BY <1>1 DEF Ages
<1> QED BY <1>1, <1>2, QuietSpares

(* What the application sends for a message that it took, or lost.         *)
LEMMA AnswerMarks ==
  ASSUME NEW m \in Message
  PROVE  /\ AnswerTo(m) \in Seq(Entry) /\ Lacks(AnswerTo(m), Unborn)
         /\ Single(AnswerTo(m), Answer)
         /\ m \notin Hello => Lacks(AnswerTo(m), Answer)
         /\ m \in Hello /\ Listed(m.h) =>
              ~Lacks(AnswerTo(m), Answer) /\ Lacks(AnswerTo(m), Denial)
<1> DEFINE e(op) == Ent(op, NoHandle, NoUtt, "none")
<1>1. \A op \in {"yes", "no", "stale"} :
        /\ e(op) \in Entry /\ e(op).op = op /\ e(op) \notin Unborn
        /\ <<e(op)>> \in Seq(Entry)
  <2> TAKE op \in {"yes", "no", "stale"}
  <2>1. e(op) \in Entry /\ e(op).op = op /\ e(op).h = NoHandle
    BY EntType DEF Ent, NoUtt
  <2> QED BY <2>1, SingleType, NoHandleAssumption DEF Unborn
<1>2. /\ e("yes") \in Answer /\ e("yes") \notin Denial
      /\ e("no") \in Answer /\ e("stale") \notin Answer
  BY <1>1 DEF Answer, Denial
<1> HIDE DEF e
<1>3. <<>> \in Seq(Entry)
  BY EmptySeq
<1>4. CASE m \in Hello
  <2>1. AnswerTo(m) = <<e(IF Listed(m.h) THEN "yes" ELSE "no")>>
    BY <1>4 DEF AnswerTo, Hello, e
  <2> QED BY <1>1, <1>2, <1>4, <2>1, ShortMarks
<1>5. CASE m \notin Hello
  <2>1. AnswerTo(m) = <<e("stale")>> \/ AnswerTo(m) = <<>>
    BY <1>5 DEF AnswerTo, Hello, e
  <2> QED BY <1>1, <1>2, <1>3, <1>5, <2>1, ShortMarks
<1> QED BY <1>4, <1>5

(* What the dispatcher answers for a message that is lost.                 *)
LEMMA ErrorMarks ==
  /\ ErrorFor(<<>>) = <<>>
  /\ \A m \in Message :
       /\ ErrorFor(<<m>>) \in Seq(Entry) /\ Lacks(ErrorFor(<<m>>), Unborn)
       /\ Single(ErrorFor(<<m>>), Answer)
       /\ m \notin Hello => Lacks(ErrorFor(<<m>>), Answer)
<1>1. ErrorFor(<<>>) = <<>>
  BY DEF ErrorFor
<1>2. ASSUME NEW m \in Message
      PROVE  /\ ErrorFor(<<m>>) \in Seq(Entry) /\ Lacks(ErrorFor(<<m>>), Unborn)
             /\ Single(ErrorFor(<<m>>), Answer)
             /\ m \notin Hello => Lacks(ErrorFor(<<m>>), Answer)
  <2> DEFINE op == IF m.kind = "hello" THEN "no" ELSE "stale"
             e == Ent(op, NoHandle, NoUtt, "none")
  <2>1. ErrorFor(<<m>>) = <<e>> \/ ErrorFor(<<m>>) = <<>>
    BY DEF ErrorFor
  <2>2. e \in Entry /\ e.op = op /\ e.h = NoHandle
    BY EntType DEF Ent, NoUtt
  <2>3. <<e>> \in Seq(Entry) /\ <<>> \in Seq(Entry)
    BY <2>2, SingleType, EmptySeq
  <2>4. e \notin Unborn /\ (m \notin Hello => e \notin Answer)
    BY <2>2, NoHandleAssumption DEF Unborn, Answer, Hello
  <2> HIDE DEF e
  <2> QED BY <2>1, <2>3, <2>4, ShortMarks
<1> QED BY <1>1, <1>2

(* What listener_event_callback of the client sends, and what it does to   *)
(* the messages that are heard.                                            *)
Said(r) == ErrorFor(r.lost) \o
           IF r.got = <<>> THEN <<>> ELSE AnswerTo(r.got[1])

LEMMA ListenerMarks ==
  ASSUME NEW held \in Seq(Message), NEW wire \in Seq(Message), wire # <<>>,
         NEW r \in Taken(held, wire), Single(held \o wire, Hello)
  PROVE  /\ Said(r) \in Seq(Entry) /\ Lacks(Said(r), Unborn)
         /\ Single(Said(r), Answer)
         /\ \A M \in SUBSET Hello :
              /\ Lacks(held \o wire, M) => Lacks(r.queue \o r.sock, M)
              /\ Single(held \o wire, M) => Single(r.queue \o r.sock, M)
         /\ ~Lacks(Said(r), Answer) =>
              ~Lacks(held \o wire, Hello) /\ Lacks(r.queue \o r.sock, Hello)
<1> SUFFICES ASSUME NEW q, q = held \o wire, NEW t, t = r.queue \o r.sock,
                    NEW es, es = Said(r), Single(q, Hello)
             PROVE  /\ es \in Seq(Entry) /\ Lacks(es, Unborn) /\ Single(es, Answer)
                    /\ \A M \in SUBSET Hello : /\ Lacks(q, M) => Lacks(t, M)
                                               /\ Single(q, M) => Single(t, M)
                    /\ ~Lacks(es, Answer) => ~Lacks(q, Hello) /\ Lacks(t, Hello)
  OBVIOUS
<1> DEFINE error == ErrorFor(r.lost)
           answer == IF r.got = <<>> THEN <<>> ELSE AnswerTo(r.got[1])
<1>1. q \in Seq(Message)
  BY ConcatProperties
<1>2. /\ q # <<>>
      /\ \/ r.lost = <<>> /\ r.got = <<Head(q)>> /\ t = Tail(q)
         \/ r.lost = <<Head(q)>> /\ r.got = <<>> /\ t = Tail(q)
         \/ /\ r.lost = <<Head(q)>> /\ Tail(q) # <<>>
            /\ r.got = <<Head(Tail(q))>> /\ t = Tail(Tail(q))
  BY TakenFirst
<1>3. Head(q) \in Message /\ Tail(q) \in Seq(Message)
  BY <1>1, <1>2, HeadTailProperties
<1>4. Tail(q) # <<>> => Head(Tail(q)) \in Message /\ Tail(Tail(q)) \in Seq(Message)
  BY <1>3, HeadTailProperties
<1> DEFINE x == Head(q)
           s == Tail(q)
           y == Head(s)
<1>5. \A M : /\ Lacks(q, M) => x \notin M /\ Lacks(s, M)
             /\ Single(q, M) => Single(s, M) /\ (x \in M => Lacks(s, M))
  BY <1>1, <1>2, TailMarks
<1>6. s # <<>> => \A M : /\ Lacks(s, M) => y \notin M /\ Lacks(Tail(s), M)
                         /\ Single(s, M) => Single(Tail(s), M) /\ (y \in M => Lacks(Tail(s), M))
  BY <1>3, TailMarks
<1>7. /\ <<>> \in Seq(Entry) /\ <<>> \o <<>> = <<>>
      /\ Lacks(<<>>, Unborn) /\ Lacks(<<>>, Answer) /\ Single(<<>>, Answer)
      /\ \A p \in Seq(Entry) : p \o <<>> = p /\ <<>> \o p = p
  BY EmptySeq, ShortMarks, ConcatEmptySeq
<1>8. es = error \o answer
  BY DEF Said
<1> HIDE DEF x, s, y
<1>9. CASE r.lost = <<>> /\ r.got = <<x>> /\ t = s
  <2>1. error = <<>> /\ answer = AnswerTo(x)
    BY <1>9, ErrorMarks
  <2>2. x \in Message /\ AnswerTo(x) \in Seq(Entry)
    BY <1>3, AnswerMarks DEF x
  <2>3. es = AnswerTo(x)
    BY <1>7, <1>8, <2>1, <2>2
  <2> QED BY <1>5, <1>9, <2>2, <2>3, AnswerMarks
<1>10. CASE r.lost = <<x>> /\ r.got = <<>> /\ t = s
  <2>1. error = ErrorFor(<<x>>) /\ answer = <<>>
    BY <1>10
  <2>2. x \in Message /\ ErrorFor(<<x>>) \in Seq(Entry)
    BY <1>3, ErrorMarks DEF x
  <2>3. es = ErrorFor(<<x>>)
    BY <1>7, <1>8, <2>1, <2>2
  <2> QED BY <1>5, <1>10, <2>2, <2>3, ErrorMarks
<1>11. CASE r.lost = <<x>> /\ s # <<>> /\ r.got = <<y>> /\ t = Tail(s)
  <2>1. error = ErrorFor(<<x>>) /\ answer = AnswerTo(y)
    BY <1>11
  <2>2. /\ x \in Message /\ y \in Message
        /\ error \in Seq(Entry) /\ Lacks(error, Unborn) /\ Single(error, Answer)
        /\ x \notin Hello => Lacks(error, Answer)
        /\ answer \in Seq(Entry) /\ Lacks(answer, Unborn) /\ Single(answer, Answer)
        /\ y \notin Hello => Lacks(answer, Answer)
    BY <1>3, <1>4, <1>11, <2>1, ErrorMarks, AnswerMarks DEF x, s, y
  <2> HIDE DEF error, answer
  <2> DEFINE both == error \o answer
  <2>3. both \in Seq(Entry) /\ \A M : Lacks(both, M) <=> Lacks(error, M) /\ Lacks(answer, M)
    <3>1. error \in Seq(Entry) /\ answer \in Seq(Entry)
      BY <2>2
    <3> QED BY <3>1, JoinedMarks, ConcatProperties
  <2> HIDE DEF both
  <2>4. Single(s, Hello) /\ (x \in Hello => Lacks(s, Hello))
        /\ (y \in Hello => Lacks(Tail(s), Hello))
        /\ (Lacks(s, Hello) => y \notin Hello /\ Lacks(Tail(s), Hello))
    BY <1>5, <1>6, <1>11
  <2>5. Lacks(error, Answer) \/ Lacks(answer, Answer)
    BY <2>2, <2>4
  <2>6. Single(es, Answer)
    BY <1>8, <2>2, <2>5, JoinedMarks
  <2>7. ~Lacks(es, Answer) => x \in Hello \/ y \in Hello
    BY <1>8, <2>2, <2>3 DEF both
  <2> QED BY <1>5, <1>6, <1>11, <1>8, <2>2, <2>3, <2>4, <2>6, <2>7 DEF both
<1> QED BY <1>2, <1>9, <1>10, <1>11 DEF x, s, y

(* The hello that is first on the wire is answered by yes, or stays there. *)
LEMMA ListenerFresh ==
  ASSUME NEW held \in Seq(Message), NEW wire \in Seq(Message), wire # <<>>,
         wire[1] \in Hello, Listed(wire[1].h),
         NEW r \in Taken(held, wire), Single(held \o wire, Hello)
  PROVE  \/ r.sock = wire /\ Lacks(Said(r), Answer)
         \/ ~Lacks(Said(r), Answer) /\ Lacks(Said(r), Denial)
<1> DEFINE es == Said(r)
           answer == IF r.got = <<>> THEN <<>> ELSE AnswerTo(r.got[1])
<1>1. 1 \in 1 .. Len(wire)
  BY LenProperties, EmptySeq
<1>2. CASE held # <<>>
  <2>1. r.sock = wire
    BY <1>2 DEF Taken
  <2>2. ~Lacks(r.queue \o r.sock, Hello)
    <3>1. ~Lacks(wire, Hello)
      BY <1>1 DEF Lacks
    <3>2. r.queue \in Seq(Message) /\ r.sock \in Seq(Message)
      BY TakenType
    <3> DEFINE p == r.queue
               s == r.sock
    <3>3. s = wire /\ p \in Seq(Message) /\ s \in Seq(Message)
      BY <2>1, <3>2
    <3> HIDE DEF p, s
    <3>4. ~Lacks(p \o s, Hello)
      BY <3>1, <3>3, JoinedMarks
    <3> QED BY <3>4 DEF p, s
  <2>3. Lacks(es, Answer)
    BY <2>2, ListenerMarks
  <2> QED BY <2>1, <2>3
<1>3. CASE held = <<>>
  <2>1. r.lost = <<>> /\ r.got = <<wire[1]>>
    BY <1>3, HeadTailProperties DEF Taken, First
  <2>2. wire[1] \in Message
    BY <1>1, ElementOfSeq
  <2>3. ErrorFor(r.lost) = <<>> /\ answer = AnswerTo(wire[1])
    BY <2>1, ErrorMarks
  <2>4. AnswerTo(wire[1]) \in Seq(Entry)
    BY <2>2, AnswerMarks
  <2>5. es = AnswerTo(wire[1])
    BY <2>3, <2>4, ConcatEmptySeq DEF Said
  <2> QED BY <2>2, <2>5, AnswerMarks
<1> QED BY <1>2, <1>3

(* listener_event_callback of the client.                                  *)
LEMMA ListenerSpares ==
  ASSUME TypeInv, SweepInv, UNCHANGED daemonVars, Listener
  PROVE  SweepInv'
<1>1. /\ bus \in Bus /\ bus.wire \in Seq(Message) /\ bus.held \in Seq(Message)
      /\ greet \in Handle \cup {NoHandle} /\ client \in [Handle -> Client]
      /\ bus.kept \in Seq(Entry) /\ bus.inbox \in Seq(Entry)
  BY TypeFields DEF ClientInv, ClientTypeOK
<1>2. PICK r \in Taken(bus.held, bus.wire) :
        /\ bus' = ToDaemon([bus EXCEPT !.held = r.queue, !.wire = r.sock],
                           Said(r))
        /\ IF r.got = <<>>
             THEN UNCHANGED <<client, timers, news>>
             ELSE \/ HandleState(r.got[1]) \/ HandleUtterance(r.got[1])
                  \/ HandleOther(r.got[1])
  BY DEF Listener, Said
<1>3. bus.wire # <<>> /\ request = NoRequest /\ request' = request /\ stalled' = stalled
      /\ greet' = greet /\ session' = session
  BY DEF Listener, Looping, daemonVars
<1>4. Ages
  <2>1. \A m : HandleState(m) \/ HandleUtterance(m) \/ HandleOther(m) =>
          \/ client' = client
          \/ client' = [client EXCEPT ![m.h].state = m.state]
          \/ client' = [client EXCEPT ![m.h].utt = m.utt]
    BY DEF HandleState, HandleUtterance, HandleOther
  <2>2. \E m : \/ client' = client
               \/ client' = [client EXCEPT ![m.h].state = m.state]
               \/ client' = [client EXCEPT ![m.h].utt = m.utt]
    BY <1>2, <2>1
  <2> QED BY <1>1, <2>2 DEF Ages, Client
<1> DEFINE q == bus.held \o bus.wire
           t == r.queue \o r.sock
           es == Said(r)
           p == Queued(bus)
<1>5. r.queue \in Seq(Message) /\ r.sock \in Seq(Message)
  BY <1>1, TakenType
<1>6. /\ bus'.held = r.queue /\ bus'.wire = r.sock /\ bus'.kept = bus.kept
      /\ bus'.inbox = bus.inbox \o es /\ Heard(bus') = t
  BY <1>1, <1>2 DEF ToDaemon, Heard, Bus
<1>7. Single(q, Hello) /\ q = Heard(bus)
  BY DEF SweepInv, One, Heard
<1>8. /\ es \in Seq(Entry) /\ Lacks(es, Unborn) /\ Single(es, Answer)
      /\ \A M \in SUBSET Hello : /\ Lacks(q, M) => Lacks(t, M)
                                 /\ Single(q, M) => Single(t, M)
      /\ ~Lacks(es, Answer) => ~Lacks(q, Hello) /\ Lacks(t, Hello)
  BY <1>1, <1>3, <1>7, ListenerMarks
<1>9. ASSUME bus.wire[1] \in Hello, Listed(bus.wire[1].h)
      PROVE  \/ r.sock = bus.wire /\ Lacks(es, Answer)
             \/ ~Lacks(es, Answer) /\ Lacks(es, Denial)
  BY <1>1, <1>3, <1>7, <1>9, ListenerFresh
<1> HIDE DEF t, es, p, q
<1>10. p \in Seq(Entry) /\ Queued(bus') = p \o es
  <2> DEFINE kept == bus.kept
             inbox == bus.inbox
  <2>1. kept \in Seq(Entry) /\ inbox \in Seq(Entry)
    BY <1>1
  <2> HIDE DEF kept, inbox
  <2>2. (kept \o inbox) \o es = kept \o (inbox \o es)
    BY <1>8, <2>1, ConcatAssociative
  <2> QED BY <1>1, <1>6, <2>2, QueuedType DEF Queued, kept, inbox, p
<1> DEFINE s == p \o es
<1>11. /\ \A M : Lacks(s, M) <=> Lacks(p, M) /\ Lacks(es, M)
       /\ Lacks(p, Answer) /\ Single(es, Answer) => Single(s, Answer)
       /\ Single(p, Answer) /\ Lacks(es, Answer) => Single(s, Answer)
  BY <1>8, <1>10, JoinedMarks
<1> HIDE DEF s
<1>12. /\ Single(q, Hello) /\ Lacks(q, {m \in Hello : m.h # greet})
       /\ Single(p, Answer) /\ Lacks(bus.kept, Answer) /\ Lacks(p, Unborn)
       /\ Lacks(q, Hello) \/ Lacks(p, Answer)
       /\ greet = NoHandle => Lacks(q, Hello) /\ Lacks(p, Answer)
  BY <1>7 DEF SweepInv, One, p
<1>13. One(bus', greet)
  <2>1. Single(t, Hello) /\ Lacks(t, {m \in Hello : m.h # greet})
    BY <1>8, <1>12
  <2>2. Single(s, Answer) /\ (Lacks(t, Hello) \/ Lacks(s, Answer))
    BY <1>8, <1>11, <1>12
  <2>3. greet = NoHandle => Lacks(t, Hello) /\ Lacks(s, Answer)
    BY <1>8, <1>11, <1>12
  <2> QED BY <1>6, <1>10, <1>12, <2>1, <2>2, <2>3 DEF One, s
<1>14. Lacks(Queued(bus'), Unborn')
  BY <1>3, <1>4, <1>8, <1>10, <1>11, <1>12, AgesUnborn DEF s
<1>15. \A h \in Handle : client'[h].life = "unborn" => session'[h] = "ABSENT"
  BY <1>3, <1>4, AgesUnborn
<1>16. ASSUME greet # NoHandle, ~stalled, Listed(greet)', Registered(greet)'
       PROVE  Fresh(bus', request')
  <2>1. greet \in Handle
    BY <1>1, <1>16
  <2>2. Listed(greet) /\ Registered(greet)
    BY <1>3, <1>4, <1>16, <2>1, AgesUnborn DEF Registered, Listed
  <2>3. Fresh(bus, request)
    BY <1>16, <2>2 DEF SweepInv
  <2>4. Lacks(p, Denial)
    BY <2>3 DEF Fresh, p
  <2>5. CASE ~Lacks(p, Answer)
    <3>1. Lacks(es, Answer)
      BY <1>8, <1>12, <2>5
    <3>2. Lacks(es, Denial)
      BY <3>1 DEF Lacks, Denial
    <3>3. ~Lacks(s, Answer) /\ Lacks(s, Denial)
      BY <1>11, <2>4, <2>5, <3>2
    <3> QED BY <1>10, <3>3 DEF Fresh, s
  <2>6. CASE bus.wire[1] \in Hello
    <3>1. bus.wire[1].h = greet
      <4> DEFINE w == bus.wire
                 d == bus.held
                 M == {m \in Hello : m.h # greet}
      <4>1. w \in Seq(Message) /\ d \in Seq(Message) /\ w # <<>> /\ Lacks(d \o w, M)
        BY <1>1, <1>3, <1>7, <1>12 DEF q
      <4> HIDE DEF w, d, M
      <4>2. Lacks(w, M) /\ 1 \in 1 .. Len(w)
        BY <4>1, JoinedMarks, LenProperties, EmptySeq
      <4>3. w[1] \notin M
        BY <4>2 DEF Lacks
      <4> QED BY <2>6, <4>3 DEF M, w
    <3>2. \/ r.sock = bus.wire /\ Lacks(es, Answer)
          \/ ~Lacks(es, Answer) /\ Lacks(es, Denial)
      BY <1>9, <2>2, <2>6, <3>1
    <3>3. Lacks(es, Answer) => Lacks(es, Denial)
      BY DEF Lacks, Denial
    <3>4. Lacks(s, Denial)
      BY <1>11, <2>4, <3>2, <3>3
    <3>5. CASE ~Lacks(es, Answer)
      BY <1>10, <1>11, <3>4, <3>5 DEF Fresh, s
    <3>6. CASE r.sock = bus.wire
      BY <1>3, <1>6, <1>10, <2>6, <3>4, <3>6 DEF Fresh, s
    <3> QED BY <3>2, <3>5, <3>6
  <2> QED BY <2>3, <2>5, <2>6 DEF Fresh, p
<1> QED BY <1>3, <1>13, <1>14, <1>15, <1>16 DEF SweepInv

(* Any turn of the main loop.                                              *)
LEMMA MainLoopSpares ==
  ASSUME TypeInv, Asking, SweepInv, UNCHANGED daemonVars, MainLoop
  PROVE  SweepInv'
BY ConnectDaemonSpares, NoticesSpare, WaitsSpare, ListenerSpares DEF MainLoop

-------------------------------------------------------------------------------
(* The daemon.  It waits for nobody: no hello is under way, and no answer. *)
Calm(b) == Lacks(Heard(b), Hello) /\ Lacks(Queued(b), Answer)

(* Waiting for nobody is the same as nothing under way.                    *)
LEMMA CalmOne ==
  ASSUME NEW b \in Bus
  PROVE  /\ One(b, NoHandle) => Calm(b)
         /\ Calm(b) => Lacks(b.kept, Answer) /\ \A g : One(b, g)
<1> DEFINE kept == b.kept
           inbox == b.inbox
<1>1. kept \in Seq(Entry) /\ inbox \in Seq(Entry)
  BY BusFields
<1> HIDE DEF kept, inbox
<1>2. Lacks(kept \o inbox, Answer) => Lacks(kept, Answer)
  BY <1>1, JoinedMarks
<1>3. Calm(b) => Lacks(b.kept, Answer)
  BY <1>2 DEF Calm, Queued, kept, inbox
<1>4. ASSUME Calm(b), NEW g
      PROVE  One(b, g)
  <2>1. Single(Heard(b), Hello) /\ Single(Queued(b), Answer)
        /\ Lacks(Heard(b), {m \in Hello : m.h # g})
    BY <1>4 DEF Calm, Lacks, Single
  <2> QED BY <1>3, <1>4, <2>1 DEF One, Calm
<1>5. One(b, NoHandle) => Calm(b)
  BY DEF One, Calm
<1> QED BY <1>3, <1>4, <1>5

(* What a step of the daemon has to show that waits for nobody after it.   *)
LEMMA CalmSpares ==
  ASSUME bus' \in Bus, Calm(bus'), greet' = NoHandle, UNCHANGED client,
         Lacks(Queued(bus'), Unborn),
         \A h \in Handle : client[h].life = "unborn" => session'[h] = "ABSENT"
  PROVE  SweepInv'
<1>1. Unborn' = Unborn
  BY DEF Unborn
<1>2. One(bus', greet')
  BY CalmOne
<1> QED BY <1>1, <1>2 DEF SweepInv

(* The next hello, or the end of the sweep.                                *)
LEMMA GreetsSpares ==
  ASSUME TypeInv, NEW those \in SUBSET Handle, NEW b \in Bus, Calm(b),
         Lacks(Queued(b), Unborn), Greets(those, b), UNCHANGED <<client, request>>,
         \A h \in Handle : client[h].life = "unborn" => session'[h] = "ABSENT"
  PROVE  SweepInv'
<1>1. CASE those = {}
  <2>1. greet' = NoHandle /\ bus' = b
    BY <1>1 DEF Greets
  <2> QED BY <2>1, CalmSpares
<1>2. CASE those # {}
  <2>1. PICK h \in those :
          /\ greet' = h
          /\ bus' = IF Connected
                      THEN ToClient(b, <<Msg("hello", h, "CREATED", NoUtt)>>)
                      ELSE ToDaemon(b, <<Ent("no", NoHandle, NoUtt, "none")>>)
          /\ stalled' = (request # NoRequest \/ b.wire # <<>>)
    BY <1>2 DEF Greets
  <2>2. Unborn' = Unborn /\ h # NoHandle /\ h \in Handle
    BY NoHandleAssumption DEF Unborn
  <2>3. Lacks(b.kept, Answer) /\ Lacks(Heard(b), Hello) /\ Lacks(Queued(b), Answer)
    BY CalmOne DEF Calm
  <2>4. CASE Connected
    <3> DEFINE m == Msg("hello", h, "CREATED", NoUtt)
               hello == <<m>>
               held == b.held
               wire == b.wire
               q == Heard(b)
    <3>1. m \in Message /\ m \in Hello /\ m.h = h
      BY <2>2, MsgType DEF Msg, State, Hello, NoUtt
    <3>2. /\ hello \in Seq(Message) /\ Single(hello, Hello)
          /\ Lacks(hello, {n \in Hello : n.h # h}) /\ hello[1] = m
      BY <3>1, SingleType, ShortMarks
    <3>3. /\ bus'.wire = wire \o hello /\ bus'.held = held
          /\ bus'.kept = b.kept /\ bus'.inbox = b.inbox
      BY <2>1, <2>4 DEF ToClient, Bus
    <3>4. wire \in Seq(Message) /\ held \in Seq(Message) /\ q \in Seq(Message)
      BY BusFields, HeardType
    <3>5. q = held \o wire
      BY DEF Heard
    <3> HIDE DEF m, hello, held, wire, q
    <3>6. Heard(bus') = q \o hello
      BY <3>2, <3>3, <3>4, <3>5, ConcatAssociative DEF Heard
    <3>7. Lacks(q, Hello) /\ Lacks(q, {n \in Hello : n.h # h})
      BY <2>3 DEF Lacks, q
    <3>8. Single(q \o hello, Hello) /\ Lacks(q \o hello, {n \in Hello : n.h # h})
      BY <3>2, <3>4, <3>7, JoinedMarks
    <3>9. Lacks(Queued(bus'), Answer) /\ Lacks(Queued(bus'), Unborn)
          /\ Lacks(bus'.kept, Answer)
      BY <2>3, <3>3 DEF Queued
    <3>10. One(bus', greet')
      <4>1. Single(Queued(bus'), Answer)
        BY <3>9 DEF Lacks, Single
      <4> QED BY <2>1, <2>2, <3>6, <3>8, <3>9, <4>1 DEF One
    <3>11. ~stalled' => Fresh(bus', request')
      <4> SUFFICES ASSUME ~stalled' PROVE Fresh(bus', request')
        OBVIOUS
      <4>1. request' = NoRequest /\ wire = <<>>
        BY <2>1 DEF wire
      <4>2. bus'.wire = hello
        BY <3>2, <3>3, <4>1, ConcatEmptySeq
      <4>3. bus'.wire # <<>> /\ bus'.wire[1] \in Hello
        BY <3>1, <3>2, <4>2 DEF hello
      <4>4. Lacks(Queued(bus'), Denial)
        BY <3>9 DEF Lacks, Denial
      <4> QED BY <4>1, <4>3, <4>4 DEF Fresh
    <3> QED BY <2>2, <3>9, <3>10, <3>11 DEF SweepInv
  <2>5. CASE ~Connected
    <3> DEFINE e == Ent("no", NoHandle, NoUtt, "none")
               answer == <<e>>
               kept == b.kept
               inbox == b.inbox
               q == Queued(b)
    <3>1. e \in Entry /\ e \notin Unborn
      BY EntType, NoHandleAssumption DEF Ent, NoUtt, Unborn
    <3>2. answer \in Seq(Entry) /\ Single(answer, Answer) /\ Lacks(answer, Unborn)
      BY <3>1, SingleType, ShortMarks
    <3>3. /\ bus'.inbox = inbox \o answer /\ bus'.kept = kept
          /\ bus'.held = b.held /\ bus'.wire = b.wire
      BY <2>1, <2>5 DEF ToDaemon, Bus
    <3>4. inbox \in Seq(Entry) /\ kept \in Seq(Entry) /\ q \in Seq(Entry)
      BY BusFields, QueuedType
    <3>5. q = kept \o inbox
      BY DEF Queued
    <3>6. Lacks(q, Answer) /\ Lacks(q, Unborn) /\ Lacks(kept, Answer)
      BY <2>3
    <3> HIDE DEF answer, kept, inbox, q
    <3>7. Queued(bus') = q \o answer
      BY <3>2, <3>3, <3>4, <3>5, ConcatAssociative DEF Queued
    <3>8. Single(q \o answer, Answer) /\ Lacks(q \o answer, Unborn)
      BY <3>2, <3>4, <3>6, JoinedMarks
    <3>9. Heard(bus') = Heard(b)
      BY <3>3 DEF Heard
    <3>10. One(bus', greet')
      <4>1. Single(Heard(b), Hello) /\ Lacks(Heard(b), {n \in Hello : n.h # h})
        BY <2>3 DEF Lacks, Single
      <4> QED BY <2>1, <2>2, <2>3, <3>3, <3>6, <3>7, <3>8, <3>9, <4>1 DEF One
    <3>11. ~Listed(greet)'
      BY <2>1, <2>2, <2>5 DEF Connected, Listed
    <3> QED BY <2>2, <3>7, <3>8, <3>10, <3>11 DEF SweepInv
  <2> QED BY <2>4, <2>5
<1> QED BY <1>1, <1>2

(* The sweep begins while the daemon waits for nobody.                     *)
LEMMA StartSweepSpares ==
  ASSUME TypeInv, SweepInv, StartSweep
  PROVE  SweepInv'
<1> DEFINE those == {h \in Handle : Registered(h)}
<1>1. /\ greet = NoHandle /\ Greets(those, bus) /\ those \in SUBSET Handle
      /\ UNCHANGED <<client, request, session>>
  BY DEF StartSweep, InLoop, appVars, sessionVars
<1>2. bus \in Bus /\ Calm(bus) /\ Lacks(Queued(bus), Unborn)
  BY <1>1, TypeFields, CalmOne DEF SweepInv
<1> HIDE DEF those
<1>3. \A h \in Handle : client[h].life = "unborn" => session'[h] = "ABSENT"
  BY <1>1 DEF SweepInv
<1> QED BY <1>1, <1>2, <1>3, GreetsSpares

(* A session that ends, or stays, was not made for an unborn handle.       *)
LEMMA DropsUnborn ==
  ASSUME TypeInv, SweepInv, Drops(greet, "ABSENT") \/ UNCHANGED sessionVars
  PROVE  \A h \in Handle : client[h].life = "unborn" => session'[h] = "ABSENT"
<1>1. session \in [Handle -> {"ABSENT", "READY", "PLAYING", "PAUSED"}]
  BY DEF TypeInv, TypeOK
<1>2. session' = session \/ session' = [session EXCEPT ![greet] = "ABSENT"]
  BY DEF Drops, sessionVars
<1> QED BY <1>1, <1>2 DEF SweepInv

(* The one answer is taken: nothing is under way before the next hello.    *)
LEMMA HelloAnsweredSpares ==
  ASSUME TypeInv, SweepInv, HelloAnswered
  PROVE  SweepInv'
<1>1. PICK i \in DOMAIN bus.inbox :
        /\ bus.inbox[i].op \in {"yes", "no"}
        /\ Drops(greet, "ABSENT") \/ UNCHANGED sessionVars
        /\ \E r \in Awaited(bus.kept, bus.inbox, i) :
             Greets(sweep, [bus EXCEPT !.kept = r.queue, !.inbox = r.sock])
  BY DEF HelloAnswered
<1>2. PICK r \in Awaited(bus.kept, bus.inbox, i) :
        Greets(sweep, [bus EXCEPT !.kept = r.queue, !.inbox = r.sock])
  BY <1>1
<1> DEFINE c == [bus EXCEPT !.kept = r.queue, !.inbox = r.sock]
           kept == bus.kept
           inbox == bus.inbox
           q == kept \o inbox
           k == Len(kept) + i
           t == r.queue \o r.sock
<1>3. kept \in Seq(Entry) /\ inbox \in Seq(Entry) /\ bus \in Bus /\ sweep \in SUBSET Handle
  BY TypeFields
<1>4. i \in 1 .. Len(inbox) /\ r.queue \in Seq(Entry) /\ r.sock \in Seq(Entry)
  BY <1>3, LenProperties, AwaitedType
<1>5. c \in Bus /\ c.kept = r.queue /\ c.inbox = r.sock /\ Heard(c) = Heard(bus)
  BY <1>3, <1>4, DaemonEndChanged DEF Bus, Heard
<1>6. r \in Awaited(kept, inbox, i) /\ inbox[i].op \in {"yes", "no"} /\ q = Queued(bus)
  BY <1>1 DEF Queued
<1> HIDE DEF c, kept, inbox, k, t
<1>7. Without(q, k, t)
  BY <1>3, <1>4, <1>6, AwaitedRest DEF k, t
<1>8. k \in 1 .. Len(q) /\ q[k] \in Answer
  <2>1. q[k] = inbox[i]
    <3>1. /\ Len(kept) \in Nat /\ Len(inbox) \in Nat /\ i \in 1 .. Len(inbox)
          /\ Len(q) = Len(kept) + Len(inbox)
          /\ \A j \in 1 .. Len(kept) + Len(inbox) :
               q[j] = IF j <= Len(kept) THEN kept[j] ELSE inbox[j - Len(kept)]
      BY <1>3, <1>4, LenProperties, ConcatProperties
    <3> HIDE DEF q
    <3>2. k \in 1 .. Len(kept) + Len(inbox) /\ ~(k <= Len(kept)) /\ k - Len(kept) = i
      BY <3>1 DEF k
    <3> QED BY <3>1, <3>2
  <2>2. inbox[i] \in Answer
    BY <1>3, <1>4, <1>6, ElementOfSeq DEF Answer
  <2> QED BY <1>7, <2>1, <2>2 DEF Without
<1> HIDE DEF q
<1>9. /\ Single(q, Answer) /\ Lacks(q, Unborn)
      /\ Lacks(Heard(bus), Hello) \/ Lacks(q, Answer)
  BY <1>6 DEF SweepInv, One
<1>10. Lacks(t, Answer) /\ Lacks(t, Unborn) /\ Lacks(Heard(bus), Hello)
  <2>1. ~Lacks(q, Answer)
    BY <1>8 DEF Lacks
  <2> QED BY <1>7, <1>8, <1>9, <2>1, WithoutMarks
<1>11. Calm(c) /\ Lacks(Queued(c), Unborn)
  BY <1>5, <1>10 DEF Calm, Queued, t
<1>12. UNCHANGED <<client, request>>
  BY DEF HelloAnswered, appVars
<1>13. Greets(sweep, c)
  BY <1>2 DEF c
<1>14. \A h \in Handle : client[h].life = "unborn" => session'[h] = "ABSENT"
  BY <1>1, DropsUnborn
<1> QED BY <1>3, <1>5, <1>11, <1>12, <1>13, <1>14, GreetsSpares

(* A hello that is void is no hello.                                       *)
LEMMA VoidedLacks ==
  ASSUME NEW q \in Seq(Message)
  PROVE  Voided(q) \in Seq(Message) /\ Lacks(Voided(q), Hello)
<1> DEFINE s == Voided(q)
<1>1. s \in Seq(Message) /\ Len(s) = Len(q) /\ DOMAIN q = 1 .. Len(q)
  BY VoidedType, LenProperties DEF Voided
<1>2. \A i \in 1 .. Len(q) : q[i] \in Message
  BY ElementOfSeq
<1>3. \A i \in 1 .. Len(q) : s[i].kind # "hello"
  BY <1>1, <1>2 DEF Voided, Message
<1> HIDE DEF s
<1> QED BY <1>1, <1>3 DEF Lacks, Hello, s

(* No answer came: what was asked is void before the next hello.           *)
LEMMA HelloTimesOutSpares ==
  ASSUME TypeInv, SweepInv, HelloTimesOut
  PROVE  SweepInv'
<1> DEFINE kept == bus.kept
           inbox == bus.inbox
           wire == Voided(bus.wire)
           held == Voided(bus.held)
           c == [bus EXCEPT !.wire = Voided(bus.wire), !.held = Voided(bus.held),
                            !.kept = @ \o bus.inbox, !.inbox = <<>>]
           q == kept \o inbox
<1>1. /\ kept \in Seq(Entry) /\ inbox \in Seq(Entry) /\ bus \in Bus
      /\ bus.wire \in Seq(Message) /\ bus.held \in Seq(Message)
      /\ sweep \in SUBSET Handle
  BY TypeFields
<1>2. /\ wire \in Seq(Message) /\ held \in Seq(Message)
      /\ Lacks(wire, Hello) /\ Lacks(held, Hello)
  BY <1>1, VoidedLacks
<1>3. q \in Seq(Entry) /\ <<>> \in Seq(Entry) /\ q \o <<>> = q
  BY <1>1, ConcatProperties, EmptySeq, ConcatEmptySeq
<1>4. /\ c.wire = wire /\ c.held = held /\ c.kept = q /\ c.inbox = <<>>
      /\ c \in Bus
  BY <1>1, <1>2, <1>3 DEF Bus
<1>5. Greets(sweep, c) /\ Drops(greet, "ABSENT") /\ UNCHANGED <<client, request>>
  BY DEF HelloTimesOut, appVars
<1>6. \A i \in DOMAIN inbox : inbox[i].op \notin {"yes", "no"}
  BY DEF HelloTimesOut
<1>7. q = Queued(bus)
  BY DEF Queued
<1> HIDE DEF kept, inbox, wire, held, c
<1>8. Lacks(inbox, Answer)
  BY <1>1, <1>6, LenProperties DEF Lacks, Answer
<1>9. Lacks(kept, Answer)
  BY DEF SweepInv, One, kept
<1>10. Lacks(q, Answer)
  BY <1>1, <1>8, <1>9, JoinedMarks
<1> HIDE DEF q
<1>11. Lacks(q, Unborn)
  BY <1>7 DEF SweepInv
<1>12. Lacks(Heard(c), Hello)
  BY <1>2, <1>4, JoinedMarks DEF Heard
<1>13. Calm(c) /\ Lacks(Queued(c), Unborn)
  BY <1>3, <1>4, <1>10, <1>11, <1>12 DEF Calm, Queued
<1>14. \A h \in Handle : client[h].life = "unborn" => session'[h] = "ABSENT"
  BY <1>5, DropsUnborn
<1> QED BY <1>1, <1>4, <1>5, <1>13, <1>14, GreetsSpares

(* What the daemon tells a client, and what it replies, is no hello.       *)
Tells(b, c) ==
  /\ c \in Bus /\ c.kept = b.kept /\ c.inbox = b.inbox
  /\ Lacks(Heard(b), Hello) => Lacks(Heard(c), Hello)

LEMMA ToClientTells ==
  ASSUME NEW b \in Bus, NEW ms \in Seq(Message), Lacks(ms, Hello)
  PROVE  Tells(b, Sent(b, ms))
<1> DEFINE c == ToClient(b, ms)
           held == b.held
           wire == b.wire
           q == Heard(b)
<1>1. /\ c \in Bus /\ c.wire = wire \o ms /\ c.held = held
      /\ c.kept = b.kept /\ c.inbox = b.inbox
  BY ToClientType DEF ToClient, Bus
<1>2. held \in Seq(Message) /\ wire \in Seq(Message) /\ q \in Seq(Message)
      /\ q = held \o wire
  BY BusFields, HeardType DEF Heard
<1> HIDE DEF c, held, wire, q
<1>3. Heard(c) = q \o ms
  BY <1>1, <1>2, ConcatAssociative DEF Heard
<1>4. Lacks(q, Hello) => Lacks(q \o ms, Hello)
  BY <1>2, JoinedMarks
<1>5. Tells(b, c)
  BY <1>1, <1>3, <1>4 DEF Tells, q
<1> QED BY <1>5 DEF Sent, Tells, c

(* A notification is no hello.                                             *)
LEMMA UsualTells ==
  ASSUME NEW b \in Bus, NEW ms \in Seq(Usual)
  PROVE  /\ ms \in Seq(Message) /\ Lacks(ms, Hello)
         /\ Tells(b, Sent(b, ms))
<1>1. ms \in Seq(Message)
  BY SeqOfMore DEF Usual, Plain, Carried
<1>2. \A i \in 1 .. Len(ms) : ms[i] \in Usual
  BY ElementOfSeq
<1>3. Lacks(ms, Hello)
  BY <1>2 DEF Lacks, Hello, Usual
<1> QED BY <1>1, <1>3, ToClientTells

(* Nor is a reply.                                                         *)
LEMMA AnsweredTells ==
  ASSUME NEW e \in Entry, NEW b \in Bus, NEW ms \in Seq(Usual), NEW ok \in BOOLEAN
  PROVE  Tells(b, Answered(e, b, ms, ok))
<1> DEFINE reply == ReplyTo(e)
           d == Sent(b, ms \o reply)
           c == Answered(e, b, ms, ok)
<1>1. reply \in Seq(Message) /\ Lacks(reply, Hello)
  <2>1. \A k \in {"reply", "late"} :
          LET m == Msg(k, e.h, "CREATED", NoUtt) IN m \in Message /\ m \notin Hello
    BY MsgType DEF Entry, State, NoUtt, Msg, Hello
  <2>2. \A m \in Message : m \notin Hello => <<m>> \in Seq(Message) /\ Lacks(<<m>>, Hello)
    BY SingleType, ShortMarks
  <2>3. <<>> \in Seq(Message) /\ Lacks(<<>>, Hello)
    BY EmptySeq, ShortMarks
  <2> QED BY <2>1, <2>2, <2>3 DEF ReplyTo
<1>2. ms \in Seq(Message) /\ Lacks(ms, Hello)
  BY UsualTells
<1> HIDE DEF reply
<1>3. ms \o reply \in Seq(Message) /\ Lacks(ms \o reply, Hello)
  BY <1>1, <1>2, JoinedMarks, ConcatProperties
<1>4. Tells(b, d)
  BY <1>3, ToClientTells
<1>5. /\ c.kept = d.kept /\ c.inbox = d.inbox /\ c.wire = d.wire /\ c.held = d.held
      /\ c \in Bus
  <2>1. d \in Bus /\ c \in {d, [d EXCEPT !.result = "ok"], [d EXCEPT !.result = "failed"]}
    BY <1>4 DEF Answered, Tells, reply
  <2> HIDE DEF c, d
  <2> QED BY <2>1 DEF Bus
<1> HIDE DEF c, d
<1>6. Tells(b, c)
  BY <1>4, <1>5 DEF Tells, Heard
<1> QED BY <1>6 DEF c

(* The timers and the player tell a client while the daemon waits for      *)
(* nobody.                                                                 *)
LEMMA TellingSpares ==
  ASSUME TypeInv, SweepInv, InLoop, UNCHANGED <<client, session, greet>>,
         bus' = bus \/ \E ms \in Seq(Usual) : bus' = Sent(bus, ms)
  PROVE  SweepInv'
<1>1. bus \in Bus /\ greet = NoHandle /\ Calm(bus)
  BY TypeFields, CalmOne DEF InLoop, SweepInv
<1>2. Tells(bus, bus')
  BY <1>1, UsualTells DEF Tells
<1>3. bus' \in Bus /\ Calm(bus') /\ Lacks(Queued(bus'), Unborn)
  BY <1>1, <1>2 DEF Tells, Calm, Queued, SweepInv
<1> QED BY <1>1, <1>3, CalmSpares DEF SweepInv

(* listener_event_callback of the daemon: it runs while nobody is asked.   *)
LEMMA DaemonListenerSpares ==
  ASSUME TypeInv, SweepInv, DaemonListener
  PROVE  SweepInv'
<1>1. PICK r \in Taken(bus.kept, bus.inbox) :
        LET b == AfterLoss(r.lost, [bus EXCEPT !.kept = r.queue, !.inbox = r.sock])
        IN IF r.got = <<>> THEN bus' = b /\ UNCHANGED sessionVars
                           ELSE Serve(r.got[1], b)
  BY DEF DaemonListener
<1> DEFINE q == Queued(bus)
           read == [bus EXCEPT !.kept = r.queue, !.inbox = r.sock]
           t == r.queue \o r.sock
           b == AfterLoss(r.lost, read)
<1>2. /\ bus \in Bus /\ bus.kept \in Seq(Entry) /\ bus.inbox \in Seq(Entry)
      /\ SessionTypeOK /\ q \in Seq(Entry) /\ bus.inbox # <<>> /\ greet = NoHandle
      /\ greet' = NoHandle /\ client' = client /\ q = bus.kept \o bus.inbox
  BY TypeFields, QueuedType DEF DaemonListener, InLoop, appVars, Queued
<1>3. /\ r.queue \in Seq(Entry) /\ r.sock \in Seq(Entry)
      /\ r.lost # <<>> => r.lost[1] \in Entry
      /\ r.got # <<>> => r.got[1] \in Entry
  BY <1>2, TakenType
<1>4. /\ read \in Bus /\ read.kept = r.queue /\ read.inbox = r.sock
      /\ Heard(read) = Heard(bus)
  BY <1>2, <1>3, DaemonEndChanged DEF Bus, Heard
<1>5. Lacks(Heard(bus), Hello) /\ Lacks(q, Answer) /\ Lacks(q, Unborn)
  BY <1>2, CalmOne DEF Calm, SweepInv
<1>6. /\ q # <<>>
      /\ \/ r.lost = <<>> /\ r.got = <<Head(q)>> /\ t = Tail(q)
         \/ r.lost = <<Head(q)>> /\ r.got = <<>> /\ t = Tail(q)
         \/ /\ r.lost = <<Head(q)>> /\ Tail(q) # <<>>
            /\ r.got = <<Head(Tail(q))>> /\ t = Tail(Tail(q))
  BY <1>2, TakenFirst
<1> HIDE DEF q, read, t, b
<1>7. \A M : Lacks(q, M) => Head(q) \notin M /\ Lacks(Tail(q), M)
  BY <1>2, <1>6, TailMarks
<1>8. Tail(q) # <<>> => \A M : Lacks(Tail(q), M) =>
        Head(Tail(q)) \notin M /\ Lacks(Tail(Tail(q)), M)
  <2>1. Tail(q) \in Seq(Entry)
    BY <1>2, <1>6, HeadTailProperties
  <2> QED BY <2>1, TailMarks
<1>9. /\ Lacks(t, Answer) /\ Lacks(t, Unborn)
      /\ r.got # <<>> => r.got[1] \notin Unborn
  <2>1. Lacks(Tail(q), Answer) /\ Lacks(Tail(q), Unborn) /\ Head(q) \notin Unborn
    BY <1>5, <1>7
  <2>2. Tail(q) # <<>> =>
          /\ Lacks(Tail(Tail(q)), Answer) /\ Lacks(Tail(Tail(q)), Unborn)
          /\ Head(Tail(q)) \notin Unborn
    BY <1>8, <2>1
  <2> DEFINE x == Head(q)
             s == Tail(q)
             y == Head(s)
             u == Tail(s)
  <2> HIDE DEF x, s, y, u
  <2>3. CASE r.lost = <<>> /\ r.got = <<x>> /\ t = s
    BY <2>1, <2>3 DEF x, s
  <2>4. CASE r.lost = <<x>> /\ r.got = <<>> /\ t = s
    BY <2>1, <2>4 DEF s
  <2>5. CASE r.lost = <<x>> /\ s # <<>> /\ r.got = <<y>> /\ t = u
    BY <2>2, <2>5 DEF s, y, u
  <2> QED BY <1>6, <2>3, <2>4, <2>5 DEF x, s, y, u
<1>10. Tells(read, b)
  <2>1. Tells(read, read)
    BY <1>4 DEF Tells
  <2>2. ASSUME r.lost # <<>>
        PROVE  Tells(read, Answered(r.lost[1], read, <<>>, FALSE))
    <3> DEFINE none == <<>>
               no == FALSE
    <3>1. none \in Seq(Usual) /\ no \in BOOLEAN /\ r.lost[1] \in Entry
      BY <1>3, <2>2, EmptySeq
    <3> HIDE DEF none, no
    <3>2. Tells(read, Answered(r.lost[1], read, none, no))
      BY <1>4, <3>1, AnsweredTells
    <3> QED BY <3>2 DEF none, no
  <2> QED BY <2>1, <2>2 DEF b, AfterLoss
<1>11. b \in Bus
  BY <1>10 DEF Tells
<1>12. IF r.got = <<>> THEN bus' = b /\ UNCHANGED sessionVars ELSE Serve(r.got[1], b)
  BY <1>1 DEF b, read
<1>13. Tells(b, bus')
  <2>1. CASE r.got = <<>>
    BY <1>11, <1>12, <2>1 DEF Tells
  <2>2. CASE r.got # <<>>
    <3>1. \/ bus' = b \/ \E ms \in Seq(Usual) : bus' = Sent(b, ms)
          \/ \E ms \in Seq(Usual), ok \in BOOLEAN : bus' = Answered(r.got[1], b, ms, ok)
      BY <1>3, <1>11, <1>12, <2>2, ServedBus
    <3>2. Tells(b, b)
      BY <1>11 DEF Tells
    <3> QED BY <1>3, <1>11, <2>2, <3>1, <3>2, UsualTells, AnsweredTells
  <2> QED BY <2>1, <2>2
<1>14. bus' \in Bus /\ Queued(bus') = t /\ Lacks(Heard(bus'), Hello)
  BY <1>4, <1>5, <1>10, <1>13 DEF Tells, Queued, t
<1>15. \A h \in Handle : client[h].life = "unborn" => session'[h] = "ABSENT"
  <2> SUFFICES ASSUME NEW h \in Handle, client[h].life = "unborn",
                      session'[h] # "ABSENT"
               PROVE  FALSE
    OBVIOUS
  <2>1. session[h] = "ABSENT"
    BY DEF SweepInv
  <2>2. r.got # <<>> /\ r.got[1].h = h
    <3>1. CASE r.got = <<>>
      BY <1>12, <2>1, <3>1 DEF sessionVars
    <3>2. CASE r.got # <<>>
      BY <1>2, <1>3, <1>12, <2>1, <3>2, ServedSessions
    <3> QED BY <3>1, <3>2
  <2> QED BY <1>3, <1>9, <2>2 DEF Unborn
<1> QED BY <1>2, <1>9, <1>14, <1>15, CalmSpares DEF Calm

(* What other applications ask.                                            *)
LEMMA OtherAsksSpares ==
  ASSUME TypeInv, SweepInv, NEW op \in Others, OtherAsks(op)
  PROVE  SweepInv'
<1>1. /\ UNCHANGED <<appVars, stalled, daemonVars>>
      /\ bus' = ToDaemon(bus, <<Ent(op, NoHandle, NoUtt, "none")>>)
  BY DEF OtherAsks
<1>2. Fewer(bus, bus') /\ bus'.wire = bus.wire
  <2>1. NoUtt \in Nat /\ bus \in Bus /\ NoHandle \notin Handle
        /\ op \in Method \cup {"stale", "interrupt", "engine"}
    BY TypeFields, NoHandleAssumption, OthersAssumption DEF NoUtt
  <2>2. bus'.wire = bus.wire
    BY <1>1, <2>1 DEF ToDaemon, Bus
  <2> QED BY <1>1, <2>1, <2>2, FewerEntry
<1>3. Ages
  BY <1>1 DEF appVars, Ages
<1> QED BY <1>1, <1>2, <1>3, AppSpares DEF appVars

LEMMA SweepStarts == Init => SweepInv
<1> SUFFICES ASSUME Init PROVE SweepInv
  OBVIOUS
<1>1. /\ greet = NoHandle
      /\ bus.wire = <<>> /\ bus.held = <<>> /\ bus.kept = <<>> /\ bus.inbox = <<>>
      /\ \A h \in Handle : session[h] = "ABSENT"
  BY DEF Init, ClientInit
<1>2. Heard(bus) = <<>> /\ Queued(bus) = <<>>
  BY <1>1 DEF Heard, Queued
<1>3. Calm(bus) /\ Lacks(Queued(bus), Unborn)
  BY <1>2, ShortMarks DEF Calm
<1>4. bus \in Bus
  BY TypeStarts, TypeFields
<1> QED BY <1>1, <1>3, <1>4, CalmOne DEF SweepInv

LEMMA SweepKept ==
  TypeInv /\ LeftInv /\ SweepInv /\ [Next]_vars => SweepInv'
<1> SUFFICES ASSUME TypeInv, LeftInv, SweepInv, [Next]_vars PROVE SweepInv'
  OBVIOUS
<1>1. CASE App
  BY <1>1, ApplicationSpares, MainLoopSpares DEF App, LeftInv
<1>2. CASE Daemon
  <2>1. ASSUME NEW h \in Handle, SendInterrupt(h) \/ Announce(h)
        PROVE  SweepInv'
    <3>1. InLoop /\ UNCHANGED <<client, session, greet>>
      BY <2>1 DEF SendInterrupt, Announce, appVars
    <3>2. bus' = bus \/ \E ms \in Seq(Usual) : bus' = Sent(bus, ms)
      BY <2>1, SendInterruptBus, AnnounceBus
    <3> QED BY <3>1, <3>2, TellingSpares
  <2> QED BY <1>2, <2>1, DaemonListenerSpares, StartSweepSpares, HelloAnsweredSpares,
          HelloTimesOutSpares DEF Daemon, Sweeps
<1>3. CASE \E op \in Others : OtherAsks(op)
  BY <1>3, OtherAsksSpares
<1>4. CASE UNCHANGED vars
  <2>1. UNCHANGED <<bus, greet, stalled, client, session, request>>
    BY <1>4 DEF vars
  <2>2. Unborn' = Unborn
    BY <2>1 DEF Unborn
  <2> QED BY <2>1, <2>2 DEF SweepInv, Listed, Registered
<1> QED BY <1>1, <1>2, <1>3, <1>4 DEF Next

(* The step that ends the session of a handle while the daemon waits for   *)
(* its answer: a no, or a time-out with the hello not on the wire or the   *)
(* application blocked.                                                    *)
LEMMA SweepStep ==
  ASSUME TypeInv, SweepInv, [Next]_vars, NEW h \in Handle, Listed(h), greet = h,
         Registered(h), session'[h] = "ABSENT"
  PROVE  stalled
<1>1. session' # session /\ greet # NoHandle
  BY NoHandleAssumption DEF Registered
<1>2. HelloAnswered \/ HelloTimesOut
  BY <1>1 DEF Next, vars, App, daemonVars, Daemon, Sweeps, DaemonListener, InLoop,
     StartSweep, SendInterrupt, Announce, OtherAsks
<1>3. bus.inbox \in Seq(Entry) /\ bus.kept \in Seq(Entry) /\ bus.wire \in Seq(Message)
  BY TypeFields
<1> SUFFICES ASSUME ~stalled PROVE FALSE
  OBVIOUS
<1>4. Fresh(bus, request) /\ Lacks(bus.kept, Answer)
  BY <1>1 DEF SweepInv, One
<1> DEFINE kept == bus.kept
           inbox == bus.inbox
<1>5. kept \in Seq(Entry) /\ inbox \in Seq(Entry) /\ Lacks(kept, Answer)
      /\ Lacks(kept \o inbox, Denial)
      /\ \/ request = NoRequest /\ bus.wire # <<>> /\ bus.wire[1] \in Hello
         \/ ~Lacks(kept \o inbox, Answer)
  BY <1>3, <1>4 DEF Fresh, Queued
<1>6. /\ HelloAnswered => \E i \in DOMAIN inbox : /\ inbox[i].op \in {"yes", "no"}
                                                  /\ inbox[i].op = "no" \/ session' = session
      /\ HelloTimesOut => /\ \A i \in DOMAIN inbox : inbox[i].op \notin {"yes", "no"}
                          /\ request # NoRequest \/ ~OnWire
  BY DEF HelloAnswered, HelloTimesOut, sessionVars
<1> HIDE DEF kept, inbox
<1>7. Lacks(inbox, Denial) /\ DOMAIN inbox = 1 .. Len(inbox)
      /\ \A i \in 1 .. Len(inbox) : inbox[i] \in Entry
  BY <1>5, JoinedMarks, LenProperties, ElementOfSeq
<1>8. ~HelloAnswered
  BY <1>1, <1>6, <1>7 DEF Lacks, Denial, Answer
<1>9. ~HelloTimesOut
  <2> SUFFICES ASSUME HelloTimesOut PROVE FALSE
    OBVIOUS
  <2>1. Lacks(inbox, Answer)
    BY <1>6, <1>7 DEF Lacks, Answer
  <2>2. Lacks(kept \o inbox, Answer)
    BY <1>5, <2>1, JoinedMarks
  <2>3. request = NoRequest /\ bus.wire # <<>> /\ bus.wire[1] \in Hello
    BY <1>5, <2>2
  <2>4. 1 \in DOMAIN bus.wire
    BY <1>3, <2>3, LenProperties, EmptySeq
  <2>5. OnWire
    BY <2>3, <2>4 DEF OnWire, Hello
  <2> QED BY <1>6, <2>3, <2>5
<1> QED BY <1>2, <1>8, <1>9

(* ttsd_cleanup_client throws a living handle out only when its process    *)
(* was blocked in a request of its own, or had other messages to take      *)
(* first: whatever is lost, late or on its way besides, the one hello that *)
(* is unanswered is answered yes, for any number of handles and messages.  *)
THEOREM SweepSparesResponsive == Spec => SweepSparesTheResponsive
<1>1. TypeInv /\ SweepInv /\ [Next]_vars =>
        [\A h \in Handle : Listed(h) /\ greet = h /\ Registered(h)
                             /\ session'[h] = "ABSENT" => stalled]_vars
  BY SweepStep
<1> QED BY <1>1, TypeStarts, TypeKept, LeftStarts, LeftKept, SweepStarts, SweepKept,
        PTL DEF Spec, SweepSparesTheResponsive
===============================================================================
