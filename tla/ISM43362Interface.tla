------------------------- MODULE ISM43362Interface -------------------------
(***************************************************************************)
(* ISM43362Interface's table of sockets, between the threads of the        *)
(* application, which open, use and close socket handles, and the reader   *)
(* thread, socket_check_read, which polls the Wi-Fi module for them and    *)
(* calls their callbacks.  Every function holds _mutex from its beginning  *)
(* to its end and is one step here; the reader takes it anew for each      *)
(* socket.  Callers follow mbed's Socket classes: a handle's callback is   *)
(* attached after socket_open and detached before socket_close.            *)
(***************************************************************************)
EXTENDS ISM43362

CONSTANTS Handles,    \* the socket objects of an application
          Udp,        \* those of datagram sockets; the others are TCP's
          PacketSize, \* bytes of a packet
          MaxInbox    \* bound: packets that wait in the module per socket

ASSUME InterfaceAssumption ==
  /\ Udp \subseteq Handles
  /\ None \notin Handles
  /\ PacketSize \in Nat \ {0} /\ MaxInbox \in Nat \ {0}

VARIABLES
  wifi,      \* the driver's and the module's state, see ISM43362
  ids,       \* _ids: the sockets in use
  obj,       \* _socket_obj: the handle of each connected socket, or None
  cbs,       \* _cbs: the handle whose callback is attached, or None
  sock,      \* per handle, its struct ISM43362_socket, or Closed
  attached,  \* the handles that their owners attached and did not detach
  blocked,   \* the handles whose owner awaits the callback: its last recv
             \*   would have blocked, and it was not called since
  dropped,   \* history: some sendto freed its socket and failed to reconnect
  sender     \* history: per datagram handle, who sent what is unread; None if
             \*   nothing is, or if it was read astray or before the handle was
             \*   connected to another peer

table == <<ids, obj, cbs, sock, attached>>
ivars == <<wifi, table, blocked, dropped, sender>>

Closed == [id |-> None, connected |-> FALSE, addr |-> None, size |-> 0]

Opened == {h \in Handles : sock[h] # Closed}

Id(h) == sock[h].id

SocketTypeOK ==
  /\ wifi \in Modules
  /\ ids \in [Ids -> BOOLEAN]
  /\ obj \in [Ids -> Handles \union {None}]
  /\ cbs \in [Ids -> Handles \union {None}]
  /\ sock \in [Handles -> [id : Ids \union {None}, connected : BOOLEAN,
                           addr : Peers \union {None}, size : 0 .. PacketSize]]
  /\ attached \subseteq Opened
  /\ blocked \subseteq Opened
  /\ dropped \in BOOLEAN
  /\ sender \in [Udp -> Peers \union {None}]

InterfaceInit ==
  /\ wifi \in NewModules
  /\ ids = [id \in Ids |-> FALSE]
  /\ obj = [id \in Ids |-> None]
  /\ cbs = [id \in Ids |-> None]
  /\ sock = [h \in Handles |-> Closed]
  /\ attached = {} /\ blocked = {}
  /\ dropped = FALSE
  /\ sender = [h \in Udp |-> None]

----------------------------------------------------------------------------
(* The application's threads. *)

(* Mutant of Unused: a socket is in use once it is connected. *)
Unconnected(id) == obj[id] = None

Unused(id) == ~ids[id]

(* The first unused socket. *)
socket_open(h) ==
  /\ h \notin Opened
  /\ \E id \in Ids :
       /\ Unused(id) /\ \A other \in Ids : other < id => ~Unused(other)
       /\ ids' = [ids EXCEPT ![id] = TRUE]
       /\ sock' = [sock EXCEPT ![h] = [Closed EXCEPT !.id = id]]
  /\ UNCHANGED <<wifi, obj, cbs, attached, blocked, dropped, sender>>

socket_attach(h) ==
  /\ h \in Opened \ attached
  /\ cbs' = [cbs EXCEPT ![Id(h)] = h]
  /\ attached' = attached \union {h}
  /\ UNCHANGED <<wifi, ids, obj, sock, blocked, dropped, sender>>

(* socket_attach with no callback. *)
socket_detach(h) ==
  /\ h \in attached
  /\ cbs' = [cbs EXCEPT ![Id(h)] = None]
  /\ attached' = attached \ {h}
  /\ UNCHANGED <<wifi, ids, obj, sock, blocked, dropped, sender>>

(* The sender of what handle h has unread is now s, if h is a datagram's.  *)
Attributed(h, s) == sender' = [u \in Udp |-> IF u = h THEN s ELSE sender[u]]

(* Mutant of socket_close: _socket_obj keeps the deleted handle. *)
socket_close_keeping_obj(h) ==
  /\ h \in Opened \ attached
  /\ \E o \in close(wifi, Id(h)) : wifi' = o.m
  /\ ids' = [ids EXCEPT ![Id(h)] = FALSE]
  /\ sock' = [sock EXCEPT ![h] = Closed]
  /\ blocked' = blocked \ {h}
  /\ Attributed(h, None)
  /\ UNCHANGED <<obj, cbs, attached, dropped>>

(* Whether or not the module confirms it, the handle is gone. *)
socket_close(h) ==
  /\ h \in Opened \ attached
  /\ \E o \in close(wifi, Id(h)) : wifi' = o.m
  /\ ids' = [ids EXCEPT ![Id(h)] = FALSE]
  /\ obj' = [obj EXCEPT ![Id(h)] = None]
  /\ sock' = [sock EXCEPT ![h] = Closed]
  /\ blocked' = blocked \ {h}
  /\ Attributed(h, None)
  /\ UNCHANGED <<cbs, attached, dropped>>

(* Mutant of Connects: socket_sendto does not store the new address. *)
ConnectsUnaddressed(h, o, i, b, addr) ==
  /\ ids' = [i EXCEPT ![Id(h)] = o.ok \/ @]
  /\ obj' = IF o.ok THEN [b EXCEPT ![Id(h)] = h] ELSE b
  /\ sock' = [sock EXCEPT ![h].connected = o.ok]

(* socket_connect_nolock, from the table <<i, b>> of ids and _socket_obj.  *)
Connects(h, o, i, b, addr) ==
  /\ ids' = [i EXCEPT ![Id(h)] = o.ok \/ @]
  /\ obj' = IF o.ok THEN [b EXCEPT ![Id(h)] = h] ELSE b
  /\ sock' = [sock EXCEPT ![h].connected = o.ok,
                          ![h].addr = IF o.ok THEN addr ELSE @]

(* A TCP socket keeps no address. *)
socket_connect(h, peer) ==
  /\ h \in attached \ Udp /\ ~sock[h].connected
  /\ \E o \in open(wifi, Id(h), peer) :
       wifi' = o.m /\ Connects(h, o, ids, obj, None)
  /\ UNCHANGED <<cbs, attached, blocked, dropped, sender>>

socket_send(h) ==
  /\ h \in attached \ Udp
  /\ \E o \in send(wifi, Id(h)) : wifi' = o.m
  /\ UNCHANGED <<table, blocked, dropped, sender>>

(* socket_sendto to the address of the last. *)
socket_sendto_again(h, peer) ==
  /\ h \in attached \intersect Udp
  /\ sock[h].connected /\ sock[h].addr = peer
  /\ \E o \in send(wifi, Id(h)) : wifi' = o.m
  /\ UNCHANGED <<table, blocked, dropped, sender>>

(* socket_sendto to another: the socket, if connected, is closed and freed *)
(* in the table, then connected anew; then the data are sent.              *)
socket_sendto_anew(h, peer) ==
  LET id == Id(h)
      frees == sock[h].connected
      closing == IF frees THEN close(wifi, id) ELSE { Done(wifi) }
      freeIds == IF frees THEN [ids EXCEPT ![id] = FALSE] ELSE ids
      freeObj == IF frees THEN [obj EXCEPT ![id] = None] ELSE obj
  IN  /\ h \in attached \intersect Udp
      /\ ~(sock[h].connected /\ sock[h].addr = peer)
      /\ \E c \in closing :
           \/ /\ ~c.ok
              /\ wifi' = c.m
              /\ UNCHANGED <<table, dropped, sender>>
           \/ /\ c.ok
              /\ \E o \in open(c.m, id, peer) :
                   /\ Connects(h, o, freeIds, freeObj, peer)
                   /\ \E q \in Then({ o }, LAMBDA n : send(n, id)) : wifi' = q.m
                   /\ dropped' = (dropped \/ (frees /\ ~o.ok))
                   /\ Attributed(h, IF o.ok /\ sender[h] # peer THEN None ELSE sender[h])
              /\ UNCHANGED <<cbs, attached>>
      /\ UNCHANGED blocked

(* What check_recv_status leaves of the handle's struct: data, or an error *)
(* that marks the connection lost.                                         *)
AfterRead(s, o) ==
  IF ~o.ok THEN [s EXCEPT !.connected = FALSE]
  ELSE IF o.got # None THEN [s EXCEPT !.size = PacketSize]
  ELSE s

(* Who sent what h has unread after a read with outcome o. *)
SenderAfter(h, o) ==
  IF sock'[h].size = 0 \/ (o.got # None /\ o.m.astray) THEN None
  ELSE IF o.got # None THEN o.got
  ELSE sender[h]

(* Mutant of Left: a read always takes all the bytes it asks for. *)
LeftOver(size, n) == size - n

(* The bytes of read_data that a read of up to n leaves. *)
Left(size, n) == IF size > n THEN size - n ELSE 0

(* socket_recv of up to n bytes: from read_data, or from the module if it  *)
(* is empty.  Nothing to read would block, and so would a datagram socket  *)
(* that is not connected; a lost connection does not.                      *)
socket_recv(h, n) ==
  /\ h \in attached
  /\ \E o \in IF sock[h].connected /\ sock[h].size = 0
              THEN check_recv_status(wifi, Id(h)) ELSE { Got(Done(wifi), None) } :
       LET s == AfterRead(sock[h], o)
           blocks == IF sock[h].connected THEN o.ok /\ s.size = 0 ELSE h \in Udp
       IN  /\ wifi' = o.m
           /\ sock' = [sock EXCEPT ![h] = IF s.connected THEN [s EXCEPT !.size = Left(@, n)]
                                          ELSE s]
           /\ blocked' = IF blocks THEN blocked \union {h} ELSE blocked \ {h}
           /\ Attributed(h, SenderAfter(h, o))
  /\ UNCHANGED <<ids, obj, cbs, attached, dropped>>

(* The sender that socket_recvfrom, which is socket_recv for the bytes,    *)
(* reports for them: mbed's datagram sockets let one thread in at a time.  *)
Reported(h) == sock[h].addr

----------------------------------------------------------------------------
(* The reader thread and the module. *)

(* Mutant of socket_check_read: what was read is not announced. *)
socket_check_read_silent(id) ==
  LET h == obj[id]
  IN  /\ h # None
      /\ sock[h].connected /\ sock[h].size = 0 /\ cbs[id] # None
      /\ \E o \in check_recv_status(wifi, id) :
           /\ wifi' = o.m
           /\ sock' = [sock EXCEPT ![h] = AfterRead(@, o)]
           /\ Attributed(h, SenderAfter(h, o))
           /\ UNCHANGED blocked
      /\ UNCHANGED <<ids, obj, cbs, attached, dropped>>

(* One socket's turn in the reader's loop: a connected socket without      *)
(* unread data and with a callback is read, and its callback called, the   *)
(* mutex held, if there are data or the connection is lost.                *)
socket_check_read(id) ==
  LET h == obj[id]
  IN  /\ h # None
      /\ sock[h].connected /\ sock[h].size = 0 /\ cbs[id] # None
      /\ \E o \in check_recv_status(wifi, id) :
           /\ wifi' = o.m
           /\ sock' = [sock EXCEPT ![h] = AfterRead(@, o)]
           /\ blocked' = IF o.ok /\ o.got = None THEN blocked ELSE blocked \ {cbs[id]}
           /\ Attributed(h, SenderAfter(h, o))
      /\ UNCHANGED <<ids, obj, cbs, attached, dropped>>

Arrive(id) ==
  /\ wifi.client[id] # None
  /\ Len(wifi.inbox[id]) < MaxInbox
  /\ wifi' = Arrived(wifi, id)
  /\ UNCHANGED <<table, blocked, dropped, sender>>

Application(h) ==
  \/ socket_open(h) \/ socket_attach(h) \/ socket_detach(h) \/ socket_close(h)
  \/ socket_send(h)
  \/ \E peer \in Peers : \/ socket_connect(h, peer)
                         \/ socket_sendto_again(h, peer)
                         \/ socket_sendto_anew(h, peer)
  \/ \E n \in 1 .. PacketSize : socket_recv(h, n)

InterfaceNext ==
  \/ \E h \in Handles : Application(h)
  \/ \E id \in Ids : socket_check_read(id) \/ Arrive(id)

(* The reader thread takes its turns; it sleeps 50 ms between its rounds,  *)
(* in which the mutex is free for the others.                              *)
InterfaceSpec ==
  InterfaceInit /\ [][InterfaceNext]_ivars /\ \A id \in Ids : WF_ivars(socket_check_read(id))

----------------------------------------------------------------------------

(* The pointers that the reader thread follows, to the structs and through *)
(* the callbacks' data, are to handles that are open, and attached, and    *)
(* are theirs: whichever exchange with the module fails, it never touches  *)
(* a deleted one.                                                          *)
NoDangling ==
  \A id \in Ids :
    /\ obj[id] # None => obj[id] \in Opened /\ Id(obj[id]) = id
    /\ cbs[id] # None => cbs[id] \in attached /\ Id(cbs[id]) = id

SharedIds == \E g, h \in Opened : g # h /\ Id(g) = Id(h)

(* socket_open gives every handle a socket of its own, unless a            *)
(* socket_sendto freed its socket and then failed to connect it anew: the  *)
(* handle keeps the id, which the next socket_open may give away.          *)
SharedOnlyIfDropped == SharedIds => dropped

(* An operation goes to the handle's own socket unless the last P0 command *)
(* failed: _active_id is then wrong.                                       *)
AstrayOnlyIfUnconfirmed == wifi.astray => wifi.unconfirmed

(* The bytes a datagram handle reads are from the peer that                *)
(* socket_recvfrom reports, unless socket_sendto connected it to another   *)
(* before they were read, which keeps them, or an id is shared.            *)
DatagramsAreFromPeer ==
  \A h \in Udp : sock[h].connected /\ sender[h] # None
                => sender[h] = Reported(h) \/ dropped

(* A packet for h waits in the module, or in read_data. *)
HasData(h) == h \in attached /\ (wifi.inbox[Id(h)] # <<>> \/ sock[h].size > 0)

(* No lost wake-up: an owner who awaits its callback while a packet is in  *)
(* the module for it, or in read_data, is called, whatever is lost on the  *)
(* way, as long as the table and _active_id are right.                     *)
DataIsAnnounced ==
  \A h \in Handles :
    h \in blocked /\ sock[h].connected /\ HasData(h)
      ~> h \notin blocked \/ ~HasData(h) \/ dropped \/ wifi.unconfirmed
=============================================================================
