------------------------------ MODULE DBusQueue --------------------------------
(***************************************************************************)
(* How tts-daemon and the client library take messages from a connection:  *)
(* their listeners and their blocking calls are alike at both ends of the  *)
(* bus.  sock is what the socket delivers, queue what libdbus has read and *)
(* still holds.  Operators only.                                           *)
(*                                                                         *)
(* External: libdbus.  A blocking call leaves what it reads beside its     *)
(* reply in the connection.  dbus_connection_read_write_dispatch consumes  *)
(* the first message that is there already, answering a method call with   *)
(* an error; only when none is there does it read.  The loop calls the     *)
(* listener when the socket is readable, whatever the connection holds.    *)
(***************************************************************************)
EXTENDS Naturals, Sequences

First(q) == IF q = <<>> THEN <<>> ELSE <<Head(q)>>
Rest(q) == IF q = <<>> THEN <<>> ELSE Tail(q)

(* listener_event_callback: one message is lost when some were held, and    *)
(* one is handled; what a read brings beyond it is held.                    *)
Taken(queue, sock) ==
  IF queue # <<>>
    THEN {[lost |-> First(queue), got |-> First(Rest(queue)),
           queue |-> Rest(Rest(queue)), sock |-> sock]}
    ELSE {[lost |-> <<>>, got |-> First(sock), queue |-> SubSeq(sock, 2, n),
           sock |-> SubSeq(sock, n + 1, Len(sock))] : n \in 1 .. Len(sock)}

(* dbus_connection_send_with_reply_and_block finds its reply at place i.    *)
Awaited(queue, sock, i) ==
  {[queue |-> queue \o SubSeq(sock, 1, i - 1) \o SubSeq(sock, i + 1, n),
    sock |-> SubSeq(sock, n + 1, Len(sock))] : n \in i .. Len(sock)}
===============================================================================
