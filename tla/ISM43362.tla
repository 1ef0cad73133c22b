------------------------------ MODULE ISM43362 ------------------------------
(***************************************************************************)
(* The Wi-Fi module's sockets as class ISM43362 drives them, with AT       *)
(* commands.  The module has a selected socket, changed by the command P0, *)
(* to which the other commands apply; the driver remembers in _active_id   *)
(* the one it selected last.  Every command may fail, before the module    *)
(* has executed it or after, but no answer is taken for another command's  *)
(* (that is the transport's to keep).  An operation maps the state of      *)
(* driver and module to the set of its outcomes, [m, ok] or [m, ok, got].  *)
(***************************************************************************)
EXTENDS Integers, Sequences

CONSTANTS Ids,     \* the module's sockets, 0 .. ISM43362_SOCKET_COUNT - 1
          Peers,   \* addresses
          None

ASSUME ModuleAssumption == None \notin Ids \union Peers

Modules ==
  [active : Ids \union {None},             \* _active_id
   selected : Ids,                         \* the module's selected socket
   client : [Ids -> Peers \union {None}],  \* the peer of each started client
   inbox : [Ids -> Seq(Peers)],            \* packets received, by sender
   unconfirmed : BOOLEAN,                  \* history: the last P0 failed
   astray : BOOLEAN]                       \* history: the last operation went
                                           \*   to another socket than its own

(* _active_id is 0xFF at first, which is no socket's. *)
NewModules ==
  { [active |-> None, selected |-> id, client |-> [i \in Ids |-> None],
     inbox |-> [i \in Ids |-> <<>>], unconfirmed |-> FALSE, astray |-> FALSE] : id \in Ids }

Done(m) == [m |-> m, ok |-> TRUE]
Failed(m) == [m |-> m, ok |-> FALSE]

(* The operation goes on with F unless the outcome so far is a failure.    *)
Then(outcomes, F(_)) ==
  { o \in outcomes : ~o.ok } \union UNION { F(o.m) : o \in { p \in outcomes : p.ok } }

(* P0=id: _active_id is set before the command is confirmed. *)
Select(m, id) ==
  { Done([m EXCEPT !.active = id, !.selected = id, !.unconfirmed = FALSE, !.astray = FALSE]) }
  \union
  { Failed([m EXCEPT !.active = id, !.selected = s, !.unconfirmed = TRUE, !.astray = FALSE])
      : s \in {m.selected, id} }

(* Mutant of Activate: the P0 command is left out. *)
ActivateNever(m, id) ==
  { Done([m EXCEPT !.active = id, !.astray = m.selected # id]) }

(* The socket is only selected if another is the active one. *)
Activate(m, id) ==
  IF m.active = id THEN { Done([m EXCEPT !.astray = m.selected # id]) } ELSE Select(m, id)

WithClient(m, peer) ==
  [m EXCEPT !.client[m.selected] = peer, !.inbox[m.selected] = <<>>]

(* open: P0, the parameters, P6=1 starts the client; then R1 and R2, which *)
(* may fail too.                                                           *)
open(m, id, peer) ==
  Then(Select(m, id),
       LAMBDA n : { Failed(n), Failed(WithClient(n, peer)), Done(WithClient(n, peer)) })

(* close: P0, then P6=0 stops the client. *)
close(m, id) ==
  Then(Select(m, id),
       LAMBDA n : { Failed(n), Failed(WithClient(n, None)), Done(WithClient(n, None)) })

(* send: S3 and the data, which a socket without a client refuses. *)
send(m, id) ==
  Then(Activate(m, id),
       LAMBDA n : { Failed(n) } \union IF n.client[n.selected] # None THEN { Done(n) } ELSE {})

Got(o, packet) == [m |-> o.m, ok |-> o.ok, got |-> packet]

(* check_recv_status: R0 reads a packet, or nothing; an error, which may   *)
(* lose the packet, is no proof that the connection is lost.               *)
check_recv_status(m, id) ==
  UNION { IF ~o.ok THEN { Got(o, None) }
          ELSE LET box == o.m.inbox[o.m.selected]
                   read == [o.m EXCEPT !.inbox[o.m.selected] = Tail(@)]
               IN  { Got(Failed(o.m), None) } \union
                   IF box = <<>> THEN { Got(o, None) }
                   ELSE { Got(Done(read), Head(box)), Got(Failed(read), None) }
          : o \in Activate(m, id) }

(* A packet arrives from the peer of a started client. *)
Arrived(m, id) == [m EXCEPT !.inbox[id] = Append(@, m.client[id])]
=============================================================================
