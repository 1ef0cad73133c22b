---------------------- MODULE ISM43362InterfaceProofs ----------------------
(***************************************************************************)
(* Proofs about the driver's operations and the socket table, for any      *)
(* number of sockets, handles and peers, and whichever commands the module *)
(* fails: the reader thread follows no dangling pointer, ids are shared    *)
(* only after a sendto that failed half-way, operations go astray only     *)
(* after a P0 that failed, and datagrams are from the peer that recvfrom   *)
(* reports.                                                                *)
(***************************************************************************)
EXTENDS ISM43362Interface, TLAPS

(* The driver's operations: every one leaves a state in which _active_id   *)
(* is right unless the last P0 failed, and mixes no peers' packets in a    *)
(* socket.                                                                 *)

(* A confirmed _active_id is the module's selected socket, so an operation *)
(* that relies on it does not go astray.                                   *)
Selection(m) ==
  /\ m \in Modules
  /\ m.unconfirmed \/ m.active \in {None, m.selected}
  /\ m.astray => m.unconfirmed

LEMMA NewSelection ==
  ASSUME NEW m \in NewModules
  PROVE  Selection(m)
  <1>1. <<>> \in Seq(Peers)
    OBVIOUS
  <1>2. PICK id \in Ids :
          m = [active |-> None, selected |-> id, client |-> [i \in Ids |-> None],
               inbox |-> [i \in Ids |-> <<>>], unconfirmed |-> FALSE, astray |-> FALSE]
    BY DEF NewModules
  <1>3. [i \in Ids |-> <<>>] \in [Ids -> Seq(Peers)]
    BY <1>1, Zenon
  <1>4. [i \in Ids |-> None] \in [Ids -> Peers \union {None}]
    OBVIOUS
  <1> QED
    BY <1>2, <1>3, <1>4 DEF Selection, Modules

(* P0 is the only command that changes what is selected. *)
LEMMA SelectKeeps ==
  ASSUME NEW m, Selection(m), NEW id \in Ids, NEW o \in Select(m, id)
  PROVE  Selection(o.m)
  <1>1. CASE o = Done([m EXCEPT !.active = id, !.selected = id, !.unconfirmed = FALSE,
                                !.astray = FALSE])
    BY <1>1 DEF Done, Selection, Modules
  <1>2. ASSUME NEW s \in {m.selected, id},
               o = Failed([m EXCEPT !.active = id, !.selected = s, !.unconfirmed = TRUE,
                                    !.astray = FALSE])
        PROVE  Selection(o.m)
    BY <1>2 DEF Failed, Selection, Modules
  <1> QED
    BY <1>1, <1>2 DEF Select

(* An operation goes astray if P0 is left out and _active_id is wrong. *)
LEMMA ActivateKeeps ==
  ASSUME NEW m, Selection(m), NEW id \in Ids, NEW o \in Activate(m, id)
  PROVE  Selection(o.m)
  <1>1. CASE m.active = id
    <2>1. o.m = [m EXCEPT !.astray = m.selected # id]
      BY <1>1 DEF Activate, Done
    <2>2. (m.selected # id) \in BOOLEAN /\ (m.selected # id => m.unconfirmed)
      BY <1>1, ModuleAssumption DEF Selection
    <2> DEFINE b == m.selected # id
    <2> HIDE DEF b
    <2>3. [m EXCEPT !.astray = b] \in Modules
      BY <2>2 DEF b, Selection, Modules
    <2> QED
      BY <2>1, <2>2, <2>3 DEF b, Selection, Modules
  <1>2. CASE m.active # id
    BY <1>2, SelectKeeps DEF Activate
  <1> QED
    BY <1>1, <1>2

(* P6 starts or stops the selected socket's client and empties its inbox.  *)
LEMMA ClientKeeps ==
  ASSUME NEW m, Selection(m), NEW peer \in Peers \union {None}
  PROVE  Selection(WithClient(m, peer))
  <1>1. /\ [m.client EXCEPT ![m.selected] = peer] \in [Ids -> Peers \union {None}]
        /\ [m.inbox EXCEPT ![m.selected] = <<>>] \in [Ids -> Seq(Peers)]
    BY DEF Selection, Modules
  <1>2. WithClient(m, peer) =
          [m EXCEPT !.client = [m.client EXCEPT ![m.selected] = peer],
                    !.inbox = [m.inbox EXCEPT ![m.selected] = <<>>]]
    BY DEF WithClient, Selection, Modules
  <1> QED
    BY <1>1, <1>2 DEF Selection, Modules

LEMMA openKeeps ==
  ASSUME NEW m, Selection(m), NEW id \in Ids, NEW peer \in Peers,
         NEW o \in open(m, id, peer)
  PROVE  Selection(o.m)
  <1>1. \A p \in Select(m, id) : Selection(p.m)
    BY SelectKeeps
  <1>2. \A n : Selection(n) => Selection(WithClient(n, peer))
    BY ClientKeeps
  <1>3. \/ o \in Select(m, id)
        \/ \E p \in Select(m, id) : o \in { Failed(p.m), Failed(WithClient(p.m, peer)),
                                            Done(WithClient(p.m, peer)) }
    BY DEF open, Then
  <1> QED
    BY <1>1, <1>2, <1>3 DEF Done, Failed

LEMMA closeKeeps ==
  ASSUME NEW m, Selection(m), NEW id \in Ids, NEW o \in close(m, id)
  PROVE  Selection(o.m)
  <1>1. \A p \in Select(m, id) : Selection(p.m)
    BY SelectKeeps
  <1>2. \A n : Selection(n) => Selection(WithClient(n, None))
    BY ClientKeeps
  <1>3. \/ o \in Select(m, id)
        \/ \E p \in Select(m, id) : o \in { Failed(p.m), Failed(WithClient(p.m, None)),
                                            Done(WithClient(p.m, None)) }
    BY DEF close, Then
  <1> QED
    BY <1>1, <1>2, <1>3 DEF Done, Failed

LEMMA sendKeeps ==
  ASSUME NEW m, Selection(m), NEW id \in Ids, NEW o \in send(m, id)
  PROVE  Selection(o.m)
  <1>1. \A p \in Activate(m, id) : Selection(p.m)
    BY ActivateKeeps
  <1>2. \/ o \in Activate(m, id)
        \/ \E p \in Activate(m, id) : o \in {Failed(p.m), Done(p.m)}
    BY DEF send, Then
  <1> QED
    BY <1>1, <1>2 DEF Done, Failed

LEMMA checkKeeps ==
  ASSUME NEW m, Selection(m), NEW id \in Ids, NEW o \in check_recv_status(m, id)
  PROVE  Selection(o.m)
  <1>1. PICK p \in Activate(m, id) :
          \/ o.m = p.m
          \/ /\ p.m.inbox[p.m.selected] # <<>>
             /\ o.m = [p.m EXCEPT !.inbox[p.m.selected] = Tail(@)]
    <2> DEFINE boxOf(q) == q.m.inbox[q.m.selected]
               readOf(q) == [q.m EXCEPT !.inbox[q.m.selected] = Tail(@)]
    <2>1. PICK p \in Activate(m, id) :
            o \in IF ~p.ok THEN { Got(p, None) }
                 ELSE { Got(Failed(p.m), None) } \union
                      IF boxOf(p) = <<>> THEN { Got(p, None) }
                      ELSE { Got(Done(readOf(p)), Head(boxOf(p))), Got(Failed(readOf(p)), None) }
      BY Zenon DEF check_recv_status
    <2> HIDE DEF boxOf, readOf
    <2>2. o.m = p.m \/ (boxOf(p) # <<>> /\ o.m = readOf(p))
      BY <2>1 DEF Got, Done, Failed
    <2> QED
      BY <2>2, Zenon DEF boxOf, readOf
  <1>2. Selection(p.m)
    BY ActivateKeeps
  <1> DEFINE n == p.m
             box == n.inbox[n.selected]
  <1>3. ASSUME box # <<>> PROVE Selection([n EXCEPT !.inbox[n.selected] = Tail(@)])
    <2>1. Tail(box) \in Seq(Peers)
      BY <1>2, <1>3 DEF Selection, Modules
    <2>2. [n.inbox EXCEPT ![n.selected] = Tail(@)] \in [Ids -> Seq(Peers)]
      BY <1>2, <2>1 DEF Selection, Modules
    <2>3. [n EXCEPT !.inbox[n.selected] = Tail(@)]
            = [n EXCEPT !.inbox = [n.inbox EXCEPT ![n.selected] = Tail(@)]]
      BY <1>2 DEF Selection, Modules
    <2> QED
      BY <1>2, <2>2, <2>3 DEF Selection, Modules
  <1> QED
    BY <1>1, <1>2, <1>3

LEMMA ArrivedKeeps ==
  ASSUME NEW m, Selection(m), NEW id \in Ids, m.client[id] # None
  PROVE  Selection(Arrived(m, id))
  <1>1. Append(m.inbox[id], m.client[id]) \in Seq(Peers)
    BY DEF Selection, Modules
  <1>2. [m.inbox EXCEPT ![id] = Append(@, m.client[id])] \in [Ids -> Seq(Peers)]
    BY <1>1 DEF Selection, Modules
  <1>3. Arrived(m, id) = [m EXCEPT !.inbox = [m.inbox EXCEPT ![id] = Append(@, m.client[id])]]
    BY DEF Arrived, Selection, Modules
  <1> QED
    BY <1>2, <1>3 DEF Selection, Modules

----------------------------------------------------------------------------

(* Socket id has packets of peer a only, and gets no other's. *)
From(m, id, a) ==
  /\ m.client[id] \in {None, a}
  /\ \A k \in 1 .. Len(m.inbox[id]) : m.inbox[id][k] = a

(* What P0 does to no socket's client and packets. *)
LEMMA SelectFrom ==
  ASSUME NEW m, Selection(m), NEW id \in Ids
  PROVE  /\ \A o \in Select(m, id) : /\ o.m.client = m.client /\ o.m.inbox = m.inbox
                                     /\ o.ok => o.m.selected = id
         /\ \A o \in Activate(m, id) :
              /\ o.m.client = m.client /\ o.m.inbox = m.inbox
              /\ o.ok => o.m.selected = id \/ o.m.astray
  <1>1. ASSUME NEW o \in Select(m, id)
        PROVE  /\ o.m.client = m.client /\ o.m.inbox = m.inbox
               /\ o.ok => o.m.selected = id
    <2>1. CASE o = Done([m EXCEPT !.active = id, !.selected = id, !.unconfirmed = FALSE,
                                  !.astray = FALSE])
      BY <2>1 DEF Done, Selection, Modules
    <2>2. ASSUME NEW s \in {m.selected, id},
                 o = Failed([m EXCEPT !.active = id, !.selected = s, !.unconfirmed = TRUE,
                                      !.astray = FALSE])
          PROVE  o.m.client = m.client /\ o.m.inbox = m.inbox /\ ~o.ok
      BY <2>2 DEF Failed, Selection, Modules
    <2> QED
      BY <2>1, <2>2 DEF Select
  <1>2. ASSUME NEW o \in Activate(m, id)
        PROVE  /\ o.m.client = m.client /\ o.m.inbox = m.inbox
               /\ o.ok => o.m.selected = id \/ o.m.astray
    <2>1. CASE m.active = id
      <3> DEFINE b == m.selected # id
      <3>1. o.m = [m EXCEPT !.astray = b]
        BY <2>1 DEF Activate, Done
      <3>2. o.m.client = m.client /\ o.m.inbox = m.inbox /\ o.m.selected = m.selected
        BY <3>1 DEF Selection, Modules
      <3>3. o.m.astray = b
        <4> HIDE DEF b
        <4> QED
          BY <3>1 DEF Selection, Modules
      <3> QED
        BY <3>2, <3>3
    <2>2. CASE m.active # id
      BY <2>2, <1>1 DEF Activate
    <2> QED
      BY <2>1, <2>2
  <1> QED
    BY <1>1, <1>2

(* Starting a client empties its inbox. *)
LEMMA ClientFrom ==
  ASSUME NEW m, Selection(m), NEW peer \in Peers \union {None}
  PROVE  /\ From(WithClient(m, peer), m.selected, peer)
         /\ \A a : From(WithClient(m, None), m.selected, a)
         /\ \A j \in Ids \ {m.selected} : \A a : From(m, j, a) => From(WithClient(m, peer), j, a)
  BY DEF WithClient, From, Selection, Modules

(* open leaves every other socket alone, and its own to the new peer. *)
LEMMA openFrom ==
  ASSUME NEW m, Selection(m), NEW id \in Ids, NEW peer \in Peers,
         NEW o \in open(m, id, peer)
  PROVE  /\ o.ok => From(o.m, id, peer)
         /\ \A j \in Ids \ {id} : \A a : From(m, j, a) => From(o.m, j, a)
  <1>1. CASE o \in { p \in Select(m, id) : ~p.ok }
    BY <1>1, SelectFrom DEF From
  <1>2. ASSUME NEW p \in Select(m, id), p.ok,
               o \in { Failed(p.m), Failed(WithClient(p.m, peer)), Done(WithClient(p.m, peer)) }
        PROVE  /\ o.ok => From(o.m, id, peer)
               /\ \A j \in Ids \ {id} : \A a : From(m, j, a) => From(o.m, j, a)
    <2>1. Selection(p.m) /\ p.m.selected = id
      BY <1>2, SelectKeeps, SelectFrom
    <2>2. \A j, a : From(m, j, a) => From(p.m, j, a)
      BY SelectFrom DEF From
    <2>3. /\ From(WithClient(p.m, peer), id, peer)
          /\ \A j \in Ids \ {id} : \A a : From(p.m, j, a) => From(WithClient(p.m, peer), j, a)
      BY <2>1, ClientFrom
    <2> QED
      BY <1>2, <2>2, <2>3 DEF Done, Failed
  <1>3. \/ o \in { p \in Select(m, id) : ~p.ok }
        \/ \E p \in Select(m, id) :
             p.ok /\ o \in { Failed(p.m), Failed(WithClient(p.m, peer)),
                             Done(WithClient(p.m, peer)) }
    BY DEF open, Then
  <1> QED
    BY <1>1, <1>2, <1>3, Zenon

(* close leaves no new packets anywhere. *)
LEMMA closeFrom ==
  ASSUME NEW m, Selection(m), NEW id \in Ids, NEW o \in close(m, id)
  PROVE  \A j \in Ids : \A a : From(m, j, a) => From(o.m, j, a)
  <1>1. CASE o \in { p \in Select(m, id) : ~p.ok }
    BY <1>1, SelectFrom DEF From
  <1>2. ASSUME NEW p \in Select(m, id), p.ok,
               o \in { Failed(p.m), Failed(WithClient(p.m, None)), Done(WithClient(p.m, None)) }
        PROVE  \A j \in Ids : \A a : From(m, j, a) => From(o.m, j, a)
    <2>1. Selection(p.m) /\ p.m.selected = id
      BY <1>2, SelectKeeps, SelectFrom
    <2>2. \A j, a : From(m, j, a) => From(p.m, j, a)
      BY SelectFrom DEF From
    <2>3. /\ \A a : From(WithClient(p.m, None), id, a)
          /\ \A j \in Ids \ {id} : \A a : From(p.m, j, a) => From(WithClient(p.m, None), j, a)
      BY <2>1, ClientFrom
    <2> QED
      BY <1>2, <2>2, <2>3 DEF Done, Failed
  <1>3. \/ o \in { p \in Select(m, id) : ~p.ok }
        \/ \E p \in Select(m, id) :
             p.ok /\ o \in { Failed(p.m), Failed(WithClient(p.m, None)),
                             Done(WithClient(p.m, None)) }
    BY DEF close, Then
  <1> QED
    BY <1>1, <1>2, <1>3, Zenon

LEMMA sendFrom ==
  ASSUME NEW m, Selection(m), NEW id \in Ids, NEW o \in send(m, id)
  PROVE  \A j \in Ids : \A a : From(m, j, a) => From(o.m, j, a)
  <1>1. \/ o \in Activate(m, id)
        \/ \E p \in Activate(m, id) : o \in {Failed(p.m), Done(p.m)}
    BY DEF send, Then
  <1> QED
    BY <1>1, SelectFrom DEF From, Done, Failed

(* A read takes its own socket's packet, unless it goes astray. *)
LEMMA checkFrom ==
  ASSUME NEW m, Selection(m), NEW id \in Ids, NEW o \in check_recv_status(m, id)
  PROVE  /\ \A j \in Ids : \A a : From(m, j, a) => From(o.m, j, a)
         /\ \A a : From(m, id, a) => o.got \in {None, a} \/ o.m.astray
  <1> DEFINE boxOf(q) == q.m.inbox[q.m.selected]
             readOf(q) == [q.m EXCEPT !.inbox[q.m.selected] = Tail(@)]
  <1>1. PICK p \in Activate(m, id) :
          o \in IF ~p.ok THEN { Got(p, None) }
               ELSE { Got(Failed(p.m), None) } \union
                    IF boxOf(p) = <<>> THEN { Got(p, None) }
                    ELSE { Got(Done(readOf(p)), Head(boxOf(p))), Got(Failed(readOf(p)), None) }
    BY Zenon DEF check_recv_status
  <1>2. /\ Selection(p.m)
        /\ p.ok => p.m.selected = id \/ p.m.astray
        /\ \A j, a : From(m, j, a) => From(p.m, j, a)
    BY ActivateKeeps, SelectFrom DEF From
  <1>3. \/ o.m = p.m /\ o.got = None
        \/ /\ p.ok /\ boxOf(p) # <<>> /\ o.m = readOf(p)
           /\ o.got \in {None, Head(boxOf(p))}
    <2> HIDE DEF boxOf, readOf
    <2> QED
      BY <1>1 DEF Got, Done, Failed
  <1>4. CASE o.m = p.m /\ o.got = None
    BY <1>2, <1>4
  <1>5. CASE /\ p.ok /\ boxOf(p) # <<>> /\ o.m = readOf(p)
             /\ o.got \in {None, Head(boxOf(p))}
    <2> DEFINE n == p.m
    <2>1. n.selected \in Ids /\ boxOf(p) \in Seq(Peers)
      BY <1>2 DEF Selection, Modules
    <2>2. /\ Tail(boxOf(p)) \in Seq(Peers)
          /\ Len(Tail(boxOf(p))) = Len(boxOf(p)) - 1
          /\ \A k \in 1 .. Len(Tail(boxOf(p))) : Tail(boxOf(p))[k] = boxOf(p)[k + 1]
          /\ Len(boxOf(p)) \in Nat \ {0} /\ Head(boxOf(p)) = boxOf(p)[1]
      <3> DEFINE box == boxOf(p)
      <3> HIDE DEF box
      <3>1. box \in Seq(Peers) /\ box # <<>>
        BY <1>5, <2>1 DEF box
      <3>2. /\ Tail(box) \in Seq(Peers)
            /\ Len(Tail(box)) = Len(box) - 1
            /\ \A k \in 1 .. Len(Tail(box)) : Tail(box)[k] = box[k + 1]
            /\ Len(box) \in Nat \ {0} /\ Head(box) = box[1]
        BY <3>1
      <3> QED
        BY <3>2 DEF box
    <2>3. /\ o.m.client = n.client /\ o.m.astray = n.astray
          /\ o.m.inbox[n.selected] = Tail(boxOf(p))
          /\ \A j \in Ids \ {n.selected} : o.m.inbox[j] = n.inbox[j]
      BY <1>2, <1>5, <2>1 DEF Selection, Modules
    <2>4. ASSUME NEW j \in Ids, NEW a, From(n, j, a) PROVE From(o.m, j, a)
      <3>1. CASE j = n.selected
        <4>1. \A k \in 1 .. Len(boxOf(p)) : boxOf(p)[k] = a
          BY <2>4, <3>1 DEF From
        <4>2. ASSUME NEW k \in 1 .. Len(Tail(boxOf(p))) PROVE Tail(boxOf(p))[k] = a
          <5>1. k + 1 \in 1 .. Len(boxOf(p))
            BY <2>2
          <5> QED
            BY <2>2, <4>1, <5>1
        <4> QED
          BY <2>3, <2>4, <3>1, <4>2 DEF From
      <3>2. CASE j # n.selected
        BY <2>3, <2>4, <3>2 DEF From
      <3> QED
        BY <3>1, <3>2
    <2>5. ASSUME NEW a, From(n, id, a), n.selected = id PROVE Head(boxOf(p)) = a
      <3>1. 1 \in 1 .. Len(boxOf(p))
        BY <2>2
      <3> QED
        BY <2>2, <2>5, <3>1 DEF From
    <2> QED
      BY <1>2, <1>5, <2>3, <2>4, <2>5
  <1> QED
    BY <1>3, <1>4, <1>5

LEMMA ArrivedFrom ==
  ASSUME NEW m, Selection(m), NEW id \in Ids, m.client[id] # None
  PROVE  \A j \in Ids : \A a : From(m, j, a) => From(Arrived(m, id), j, a)
  <1> TAKE j \in Ids
  <1> TAKE a
  <1>1. /\ Arrived(m, id).client = m.client
        /\ Arrived(m, id).inbox = [m.inbox EXCEPT ![id] = Append(@, m.client[id])]
    BY DEF Arrived, Selection, Modules
  <1>2. CASE j = id
    <2> DEFINE box == m.inbox[id]
    <2>1. box \in Seq(Peers)
      BY DEF Selection, Modules
    <2>2. \A k \in 1 .. Len(Append(box, m.client[id])) :
            Append(box, m.client[id])[k] = IF k <= Len(box) THEN box[k] ELSE m.client[id]
      BY <2>1
    <2>3. Arrived(m, id).inbox[id] = Append(box, m.client[id])
      BY <1>1 DEF Selection, Modules
    <2> QED
      BY <1>1, <1>2, <2>1, <2>2, <2>3 DEF From
  <1>3. CASE j # id
    BY <1>1, <1>3 DEF From, Selection, Modules
  <1> QED
    BY <1>2, <1>3

----------------------------------------------------------------------------
(* The table of sockets. *)

Structs == [id : Ids \union {None}, connected : BOOLEAN,
            addr : Peers \union {None}, size : 0 .. PacketSize]

(* The table's own types; the module's state is of no importance here.     *)
TableOK ==
  /\ ids \in [Ids -> BOOLEAN]
  /\ obj \in [Ids -> Handles \union {None}]
  /\ cbs \in [Ids -> Handles \union {None}]
  /\ sock \in [Handles -> Structs]
  /\ attached \subseteq Opened
  /\ \A h \in Opened : Id(h) \in Ids

(* Until some handle is dropped every open one has an id, in use, of its   *)
(* own.                                                                    *)
Exclusive ==
  ~dropped => \A h \in Opened : /\ ids[Id(h)]
                                /\ \A g \in Opened : Id(g) = Id(h) => g = h

IInv == TableOK /\ NoDangling /\ Exclusive

----------------------------------------------------------------------------

LEMMA NoneIsNothing == None \notin Ids /\ None \notin Handles
  BY ModuleAssumption, InterfaceAssumption

LEMMA ClosedStruct == Closed \in Structs /\ Closed.id = None
  BY InterfaceAssumption, SMT DEF Closed, Structs

(* open tells whether it succeeded. *)
LEMMA OpenAnswers ==
  ASSUME NEW m, NEW id, NEW peer, NEW o \in open(m, id, peer)
  PROVE  o.ok \in BOOLEAN
  <1> DEFINE started(n) ==
               {Failed(n), Failed(WithClient(n, peer)), Done(WithClient(n, peer))}
  <1>1. \A n : Done(n).ok \in BOOLEAN /\ Failed(n).ok \in BOOLEAN
    BY DEF Done, Failed
  <1>2. \A p \in Select(m, id) : p.ok \in BOOLEAN
    <2> HIDE DEF started
    <2> TAKE p \in Select(m, id)
    <2>1. \E n : p = Done(n) \/ p = Failed(n)
      BY Zenon DEF Select
    <2> QED
      BY <2>1, <1>1
  <1>3. \A n : \A p \in started(n) : p.ok \in BOOLEAN
    BY <1>1
  <1>4. o \in Select(m, id) \/ \E p \in Select(m, id) : o \in started(p.m)
    BY DEF open, Then
  <1> QED
    BY <1>2, <1>3, <1>4

(* A change of fields keeps a record's type and its other fields. *)
LEMMA FieldChanged ==
  ASSUME NEW A, NEW B, NEW C, NEW D,
         NEW s \in [id : A, connected : B, addr : C, size : D],
         NEW a \in A, NEW b \in B, NEW c \in C
  PROVE  /\ [s EXCEPT !.connected = b] \in [id : A, connected : B, addr : C, size : D]
         /\ [s EXCEPT !.connected = b].id = s.id
         /\ [s EXCEPT !.id = a] \in [id : A, connected : B, addr : C, size : D]
         /\ [s EXCEPT !.id = a].id = a
         /\ [s EXCEPT !.connected = b, !.addr = c] \in [id : A, connected : B, addr : C, size : D]
         /\ [s EXCEPT !.connected = b, !.addr = c].id = s.id
  OBVIOUS

(* What a read leaves is a handle's struct still. *)
LEMMA ReadStruct ==
  ASSUME NEW s \in Structs, NEW o, NEW n \in 1 .. PacketSize
  PROVE  /\ AfterRead(s, o) \in Structs
         /\ AfterRead(s, o).id = s.id
         /\ [AfterRead(s, o) EXCEPT !.size = Left(@, n)] \in Structs
         /\ [AfterRead(s, o) EXCEPT !.size = Left(@, n)].id = s.id
  <1>1. AfterRead(s, o) \in Structs /\ AfterRead(s, o).id = s.id
    <2>1. /\ [s EXCEPT !.connected = FALSE] \in Structs
          /\ [s EXCEPT !.connected = FALSE].id = s.id
      <3>1. s.id \in Ids \union {None} /\ FALSE \in BOOLEAN /\ None \in Peers \union {None}
        BY DEF Structs
      <3> QED
        BY <3>1, FieldChanged, Zenon DEF Structs
    <2>2. /\ [s EXCEPT !.size = PacketSize] \in Structs
          /\ [s EXCEPT !.size = PacketSize].id = s.id
      BY InterfaceAssumption, SMT DEF Structs
    <2> QED
      BY <2>1, <2>2, Zenon DEF AfterRead
  <1> DEFINE r == AfterRead(s, o)
  <1> HIDE DEF r
  <1>2. r \in Structs => /\ [r EXCEPT !.size = Left(@, n)] \in Structs
                         /\ [r EXCEPT !.size = Left(@, n)].id = r.id
    BY InterfaceAssumption, SMT DEF Structs, Left
  <1> QED
    BY <1>1, <1>2 DEF r

(* A step that changes one open handle's struct, but not its id, leaves    *)
(* the same handles open under the same ids.                               *)
LEMMA SameHandles ==
  ASSUME TableOK, NEW h \in Opened, NEW s \in Structs, s.id = Id(h),
         sock' = [sock EXCEPT ![h] = s]
  PROVE  /\ sock' \in [Handles -> Structs]
         /\ Opened' = Opened
         /\ \A g \in Handles : Id(g)' = Id(g)
  <1>1. s # Closed /\ sock[h] # Closed /\ h \in Handles
    BY NoneIsNothing, ClosedStruct DEF TableOK, Opened
  <1>2. \A g \in Handles : sock'[g] = IF g = h THEN s ELSE sock[g]
    BY <1>1 DEF TableOK
  <1> QED
    BY <1>1, <1>2 DEF TableOK, Opened, Id

(* A step that changes neither the table nor which handles are open under  *)
(* which ids.                                                              *)
LEMMA SameTable ==
  ASSUME IInv, sock' \in [Handles -> Structs], Opened' = Opened,
         \A g \in Handles : Id(g)' = Id(g),
         UNCHANGED <<ids, obj, cbs, attached, dropped>>
  PROVE  IInv'
  <1>1. Opened \subseteq Handles
    BY DEF Opened
  <1>2. TableOK'
    BY <1>1 DEF IInv, TableOK
  <1>3. NoDangling'
    BY <1>1 DEF IInv, TableOK, NoDangling
  <1>4. Exclusive'
    BY <1>1 DEF IInv, TableOK, Exclusive
  <1> QED
    BY <1>2, <1>3, <1>4 DEF IInv

(* What the module does changes nothing of the table. *)
LEMMA UnchangedTable ==
  ASSUME IInv, UNCHANGED <<table, dropped>>
  PROVE  IInv'
  BY SameTable DEF table, Opened, Id, IInv, TableOK

----------------------------------------------------------------------------
(* The initial states and the steps, one by one. *)

LEMMA InitIInv == InterfaceInit => IInv
  <1> SUFFICES ASSUME InterfaceInit PROVE IInv
    OBVIOUS
  <1>1. Opened = {} /\ \A id \in Ids : obj[id] = None /\ cbs[id] = None
    BY DEF InterfaceInit, Opened
  <1>2. TableOK
    <2>1. ids \in [Ids -> BOOLEAN]
      BY DEF InterfaceInit
    <2>2. sock \in [Handles -> Structs]
      BY ClosedStruct DEF InterfaceInit
    <2>3. obj \in [Ids -> Handles \union {None}] /\ cbs \in [Ids -> Handles \union {None}]
      BY DEF InterfaceInit
    <2> QED
      BY <1>1, <2>1, <2>2, <2>3 DEF InterfaceInit, TableOK
  <1> QED
    BY <1>1, <1>2 DEF IInv, NoDangling, Exclusive

LEMMA OpenStep ==
  ASSUME IInv, NEW h \in Handles, socket_open(h)
  PROVE  IInv'
  <1>1. PICK id \in Ids : /\ Unused(id)
                          /\ ids' = [ids EXCEPT ![id] = TRUE]
                          /\ sock' = [sock EXCEPT ![h] = [Closed EXCEPT !.id = id]]
    BY Zenon DEF socket_open
  <1>2. /\ [Closed EXCEPT !.id = id] \in Structs
        /\ [Closed EXCEPT !.id = id].id = id
        /\ [Closed EXCEPT !.id = id] # Closed
    <2>1. /\ [Closed EXCEPT !.id = id] \in Structs
          /\ [Closed EXCEPT !.id = id].id = id
      <3>1. id \in Ids \union {None} /\ FALSE \in BOOLEAN /\ None \in Peers \union {None}
        OBVIOUS
      <3> QED
        BY <3>1, ClosedStruct, FieldChanged, Zenon DEF Structs
    <2> QED
      BY <2>1, NoneIsNothing, ClosedStruct
  <1>3. h \notin Opened /\ UNCHANGED <<obj, cbs, attached, dropped>>
    BY DEF socket_open
  <1>4. /\ sock' \in [Handles -> Structs]
        /\ Opened' = Opened \union {h}
        /\ \A g \in Opened : Id(g)' = Id(g)
        /\ Id(h)' = id
    <2>1. \A g \in Handles : sock'[g] = IF g = h THEN [Closed EXCEPT !.id = id] ELSE sock[g]
      BY <1>1 DEF IInv, TableOK
    <2> QED
      BY <1>1, <1>2, <1>3, <2>1 DEF IInv, TableOK, Opened, Id
  <1>5. ids' \in [Ids -> BOOLEAN]
    BY <1>1, Zenon DEF IInv, TableOK
  <1>6. TableOK'
    BY <1>3, <1>4, <1>5 DEF IInv, TableOK
  <1>7. NoDangling'
    BY <1>3, <1>4 DEF IInv, TableOK, NoDangling, Opened
  <1>8. Exclusive'
    <2>1. \A i \in Ids : ids[i] => ids'[i]
      BY <1>1 DEF IInv, TableOK
    <2>2. ids'[id] /\ ~ids[id]
      BY <1>1 DEF IInv, TableOK, Unused
    <2> QED
      BY <1>3, <1>4, <2>1, <2>2 DEF IInv, TableOK, Exclusive
  <1> QED
    BY <1>6, <1>7, <1>8 DEF IInv

LEMMA AttachStep ==
  ASSUME IInv, NEW h \in Handles, socket_attach(h)
  PROVE  IInv'
  <1>1. /\ h \in Opened /\ Id(h) \in Ids
        /\ cbs' = [cbs EXCEPT ![Id(h)] = h]
        /\ attached' = attached \union {h}
        /\ UNCHANGED <<ids, obj, sock, dropped>>
    BY DEF socket_attach, IInv, TableOK
  <1>2. Opened' = Opened /\ \A g : Id(g)' = Id(g)
    BY <1>1 DEF Opened, Id
  <1>3. TableOK'
    BY <1>1, <1>2 DEF IInv, TableOK
  <1>4. NoDangling'
    BY <1>1, <1>2 DEF IInv, TableOK, NoDangling
  <1>5. Exclusive'
    BY <1>1, <1>2 DEF IInv, Exclusive
  <1> QED
    BY <1>3, <1>4, <1>5 DEF IInv

LEMMA DetachStep ==
  ASSUME IInv, NEW h \in Handles, socket_detach(h)
  PROVE  IInv'
  <1>1. /\ h \in Opened /\ Id(h) \in Ids
        /\ cbs' = [cbs EXCEPT ![Id(h)] = None]
        /\ attached' = attached \ {h}
        /\ UNCHANGED <<ids, obj, sock, dropped>>
    BY DEF socket_detach, IInv, TableOK
  <1>2. Opened' = Opened /\ \A g : Id(g)' = Id(g)
    BY <1>1 DEF Opened, Id
  <1>3. TableOK'
    BY <1>1, <1>2 DEF IInv, TableOK
  <1>4. NoDangling'
    BY <1>1, <1>2 DEF IInv, TableOK, NoDangling
  <1>5. Exclusive'
    BY <1>1, <1>2 DEF IInv, Exclusive
  <1> QED
    BY <1>3, <1>4, <1>5 DEF IInv

(* Only the closed handle's own pointers are to it, and they are cleared.  *)
LEMMA CloseStep ==
  ASSUME IInv, NEW h \in Handles, socket_close(h)
  PROVE  IInv'
  <1>1. /\ h \in Opened \ attached /\ Id(h) \in Ids
        /\ ids' = [ids EXCEPT ![Id(h)] = FALSE]
        /\ obj' = [obj EXCEPT ![Id(h)] = None]
        /\ sock' = [sock EXCEPT ![h] = Closed]
        /\ UNCHANGED <<cbs, attached, dropped>>
    BY DEF socket_close, IInv, TableOK
  <1>2. /\ sock' \in [Handles -> Structs]
        /\ Opened' = Opened \ {h}
        /\ \A g \in Opened' : Id(g)' = Id(g)
    <2>1. \A g \in Handles : sock'[g] = IF g = h THEN Closed ELSE sock[g]
      BY <1>1 DEF IInv, TableOK
    <2> QED
      BY <1>1, <2>1, ClosedStruct DEF IInv, TableOK, Opened, Id
  <1>3. ids' \in [Ids -> BOOLEAN]
    BY <1>1, Zenon DEF IInv, TableOK
  <1>4. TableOK'
    BY <1>1, <1>2, <1>3 DEF IInv, TableOK
  <1>5. NoDangling'
    BY <1>1, <1>2 DEF IInv, TableOK, NoDangling
  <1>6. Exclusive'
    <2>1. \A i \in Ids : i # Id(h) => ids'[i] = ids[i]
      BY <1>1 DEF IInv, TableOK
    <2> QED
      BY <1>1, <1>2, <2>1 DEF IInv, TableOK, Exclusive
  <1> QED
    BY <1>4, <1>5, <1>6 DEF IInv

(* socket_connect_nolock, from the table as it is or from one in which the *)
(* handle's socket was freed: in the second case, and only then, a failure *)
(* leaves an open handle without its id.                                   *)
LEMMA ConnectStep ==
  ASSUME IInv, NEW h \in attached, NEW o, o.ok \in BOOLEAN, NEW i, NEW b,
         NEW addr \in Peers \union {None},
         \/ i = ids /\ b = obj
         \/ i = [ids EXCEPT ![Id(h)] = FALSE] /\ b = [obj EXCEPT ![Id(h)] = None],
         Connects(h, o, i, b, addr),
         UNCHANGED <<cbs, attached>>,
         dropped => dropped',
         i = ids \/ o.ok \/ dropped'
  PROVE  IInv'
  <1>1. h \in Opened /\ h \in Handles /\ Id(h) \in Ids
    BY DEF IInv, TableOK, Opened
  <1>2. /\ i \in [Ids -> BOOLEAN]
        /\ b \in [Ids -> Handles \union {None}]
        /\ \A j \in Ids : /\ j # Id(h) => i[j] = ids[j] /\ b[j] = obj[j]
                          /\ b[j] # None => b[j] = obj[j]
    <2>1. CASE i = ids /\ b = obj
      BY <2>1 DEF IInv, TableOK
    <2>2. CASE i = [ids EXCEPT ![Id(h)] = FALSE] /\ b = [obj EXCEPT ![Id(h)] = None]
      <3>1. i \in [Ids -> BOOLEAN]
        BY <2>2, Zenon DEF IInv, TableOK
      <3>2. /\ b \in [Ids -> Handles \union {None}]
            /\ \A j \in Ids : /\ j # Id(h) => b[j] = obj[j]
                              /\ b[j] # None => b[j] = obj[j]
        BY <1>1, <2>2 DEF IInv, TableOK
      <3>3. \A j \in Ids : j # Id(h) => i[j] = ids[j]
        BY <2>2, Zenon DEF IInv, TableOK
      <3> QED
        BY <3>1, <3>2, <3>3
    <2> QED
      BY <2>1, <2>2
  <1>3. /\ ids' \in [Ids -> BOOLEAN]
        /\ \A j \in Ids : j # Id(h) => ids'[j] = ids[j]
        /\ ids'[Id(h)] = (o.ok \/ i[Id(h)])
    <2>1. ids' = [i EXCEPT ![Id(h)] = o.ok \/ @]
      BY DEF Connects
    <2>2. (o.ok \/ i[Id(h)]) \in BOOLEAN
      OBVIOUS
    <2> QED
      BY <1>1, <1>2, <2>1, <2>2, Zenon
  <1>4. /\ obj' \in [Ids -> Handles \union {None}]
        /\ \A j \in Ids : obj'[j] # None => obj'[j] = obj[j] \/ (j = Id(h) /\ obj'[j] = h)
    BY <1>1, <1>2 DEF Connects
  <1>5. /\ sock' \in [Handles -> Structs]
        /\ Opened' = Opened
        /\ \A g \in Handles : Id(g)' = Id(g)
    <2> DEFINE a == IF o.ok THEN addr ELSE sock[h].addr
               s == [sock[h] EXCEPT !.connected = o.ok, !.addr = a]
    <2>1. sock[h] \in Structs
      BY <1>1 DEF IInv, TableOK
    <2>2. sock[h].id \in Ids \union {None} /\ a \in Peers \union {None}
      BY <2>1 DEF Structs
    <2>3. s \in Structs /\ s.id = Id(h)
      <3> HIDE DEF a
      <3> QED
        BY <2>1, <2>2, FieldChanged, Zenon DEF Structs, Id
    <2>4. sock' = [sock EXCEPT ![h] = s]
      BY DEF Connects
    <2> HIDE DEF s
    <2> QED
      BY <1>1, <2>3, <2>4, SameHandles, Zenon DEF IInv
  <1>6. TableOK'
    BY <1>3, <1>4, <1>5 DEF IInv, TableOK, Opened
  <1>7. NoDangling'
    BY <1>1, <1>4, <1>5 DEF IInv, TableOK, NoDangling, Opened
  <1>8. Exclusive'
    <2> SUFFICES ASSUME ~dropped'
                 PROVE  \A g \in Opened : /\ ids'[Id(g)]
                                          /\ \A f \in Opened : Id(f) = Id(g) => f = g
      BY <1>5 DEF Exclusive, Opened
    <2>1. \A g \in Opened : /\ ids[Id(g)]
                            /\ \A f \in Opened : Id(f) = Id(g) => f = g
      BY DEF IInv, Exclusive
    <2>2. ids'[Id(h)]
      BY <1>1, <1>3, <2>1
    <2> QED
      BY <1>3, <2>1, <2>2 DEF IInv, TableOK
  <1> QED
    BY <1>6, <1>7, <1>8 DEF IInv

LEMMA ConnectTcpStep ==
  ASSUME IInv, NEW h \in Handles, NEW peer \in Peers, socket_connect(h, peer)
  PROVE  IInv'
  <1>1. h \in attached /\ UNCHANGED <<cbs, attached, dropped>>
    BY DEF socket_connect
  <1>2. PICK o \in open(wifi, Id(h), peer) : Connects(h, o, ids, obj, None)
    BY Zenon DEF socket_connect
  <1>3. o.ok \in BOOLEAN /\ None \in Peers \union {None}
    BY OpenAnswers
  <1> QED
    BY <1>1, <1>2, <1>3, ConnectStep

LEMMA SendtoAnewStep ==
  ASSUME IInv, NEW h \in Handles, NEW peer \in Peers, socket_sendto_anew(h, peer)
  PROVE  IInv'
  <1> DEFINE id == Id(h)
             frees == sock[h].connected
             closing == IF frees THEN close(wifi, id) ELSE { Done(wifi) }
             freeIds == IF frees THEN [ids EXCEPT ![id] = FALSE] ELSE ids
             freeObj == IF frees THEN [obj EXCEPT ![id] = None] ELSE obj
  <1>1. h \in attached
    BY DEF socket_sendto_anew
  <1>2. PICK c \in closing :
           \/ UNCHANGED <<table, dropped>>
           \/ /\ \E o \in open(c.m, id, peer) :
                   /\ Connects(h, o, freeIds, freeObj, peer)
                   /\ dropped' = (dropped \/ (frees /\ ~o.ok))
              /\ UNCHANGED <<cbs, attached>>
    BY Zenon DEF socket_sendto_anew
  <1>3. CASE UNCHANGED <<table, dropped>>
    BY <1>3, UnchangedTable
  <1>4. ASSUME NEW o \in open(c.m, id, peer),
               Connects(h, o, freeIds, freeObj, peer),
               dropped' = (dropped \/ (frees /\ ~o.ok)),
               UNCHANGED <<cbs, attached>>
        PROVE  IInv'
    <2>1. o.ok \in BOOLEAN /\ peer \in Peers \union {None}
      BY <1>4, OpenAnswers
    <2>2. dropped => dropped'
      BY <1>4
    <2>3. CASE frees
      <3>1. Connects(h, o, [ids EXCEPT ![id] = FALSE], [obj EXCEPT ![id] = None], peer)
        BY <1>4, <2>3, Zenon
      <3>2. o.ok \/ dropped'
        BY <1>4, <2>3, Zenon
      <3> QED
        BY <1>1, <1>4, <2>1, <2>2, <3>1, <3>2, ConnectStep
    <2>4. CASE ~frees
      <3>1. Connects(h, o, ids, obj, peer)
        BY <1>4, <2>4, Zenon
      <3> QED
        BY <1>1, <1>4, <2>1, <2>2, <3>1, ConnectStep
    <2> QED
      BY <2>3, <2>4
  <1> QED
    BY <1>2, <1>3, <1>4, Zenon

LEMMA RecvStep ==
  ASSUME IInv, NEW h \in Handles, NEW n \in 1 .. PacketSize, socket_recv(h, n)
  PROVE  IInv'
  <1>1. h \in Opened /\ sock[h] \in Structs /\ UNCHANGED <<ids, obj, cbs, attached, dropped>>
    BY DEF socket_recv, IInv, TableOK
  <1>2. PICK o : sock' = [sock EXCEPT ![h] =
                            IF AfterRead(sock[h], o).connected
                            THEN [AfterRead(sock[h], o) EXCEPT !.size = Left(@, n)]
                            ELSE AfterRead(sock[h], o)]
    BY Zenon DEF socket_recv
  <1> DEFINE s == IF AfterRead(sock[h], o).connected
                  THEN [AfterRead(sock[h], o) EXCEPT !.size = Left(@, n)]
                  ELSE AfterRead(sock[h], o)
  <1>3. s \in Structs /\ s.id = Id(h)
    BY <1>1, ReadStruct, Zenon DEF Id
  <1>4. sock' = [sock EXCEPT ![h] = s]
    BY <1>2
  <1> HIDE DEF s
  <1> QED
    BY <1>1, <1>3, <1>4, SameHandles, SameTable, Zenon DEF IInv

(* The reader changes the struct that it finds in _socket_obj: it is an    *)
(* open handle's by NoDangling.                                            *)
LEMMA CheckReadStep ==
  ASSUME IInv, NEW id \in Ids, socket_check_read(id)
  PROVE  IInv'
  <1> DEFINE h == obj[id]
  <1>1. h \in Opened /\ sock[h] \in Structs /\ UNCHANGED <<ids, obj, cbs, attached, dropped>>
    BY DEF socket_check_read, IInv, TableOK, NoDangling, Opened
  <1>2. PICK o : sock' = [sock EXCEPT ![h] = AfterRead(@, o)]
    BY Zenon DEF socket_check_read
  <1>3. sock' = [sock EXCEPT ![h] = AfterRead(sock[h], o)]
    BY <1>2
  <1>4. AfterRead(sock[h], o) \in Structs /\ AfterRead(sock[h], o).id = Id(h)
    <2>1. 1 \in 1 .. PacketSize
      BY InterfaceAssumption
    <2> QED
      BY <1>1, <2>1, ReadStruct DEF Id
  <1> QED
    BY <1>1, <1>3, <1>4, SameHandles, SameTable, Zenon DEF IInv


----------------------------------------------------------------------------

LEMMA StepIInv == IInv /\ [InterfaceNext]_ivars => IInv'
  <1> SUFFICES ASSUME IInv, [InterfaceNext]_ivars PROVE IInv'
    OBVIOUS
  <1>1. ASSUME NEW h \in Handles, Application(h) PROVE IInv'
    <2>1. CASE socket_open(h)
      BY <2>1, OpenStep
    <2>2. CASE socket_attach(h)
      BY <2>2, AttachStep
    <2>3. CASE socket_detach(h)
      BY <2>3, DetachStep
    <2>4. CASE socket_close(h)
      BY <2>4, CloseStep
    <2>5. CASE socket_send(h)
      BY <2>5, UnchangedTable DEF socket_send
    <2>6. ASSUME NEW peer \in Peers, socket_connect(h, peer) PROVE IInv'
      BY <2>6, ConnectTcpStep
    <2>7. ASSUME NEW peer \in Peers, socket_sendto_again(h, peer) PROVE IInv'
      BY <2>7, UnchangedTable DEF socket_sendto_again
    <2>8. ASSUME NEW peer \in Peers, socket_sendto_anew(h, peer) PROVE IInv'
      BY <2>8, SendtoAnewStep
    <2>9. ASSUME NEW n \in 1 .. PacketSize, socket_recv(h, n) PROVE IInv'
      BY <2>9, RecvStep
    <2> QED
      BY <1>1, <2>1, <2>2, <2>3, <2>4, <2>5, <2>6, <2>7, <2>8, <2>9, Zenon DEF Application
  <1>2. ASSUME NEW id \in Ids, socket_check_read(id) PROVE IInv'
    BY <1>2, CheckReadStep
  <1>3. ASSUME NEW id \in Ids, Arrive(id) PROVE IInv'
    BY <1>3, UnchangedTable DEF Arrive
  <1>4. CASE UNCHANGED ivars
    BY <1>4, UnchangedTable DEF ivars
  <1> QED
    BY <1>1, <1>2, <1>3, <1>4, Zenon DEF InterfaceNext

LEMMA InvariantHolds == InterfaceSpec => []IInv
  BY InitIInv, StepIInv, PTL DEF InterfaceSpec

(* The reader thread never follows a pointer to a handle that its owner    *)
(* closed, or to another socket's: for any number of sockets and threads   *)
(* that use them, and whichever commands fail.                             *)
THEOREM NothingDangles == InterfaceSpec => []NoDangling
  <1>1. IInv => NoDangling
    BY DEF IInv
  <1> QED
    BY <1>1, InvariantHolds, PTL

(* socket_open gives every handle a socket of its own, as its comment      *)
(* promises, unless some socket_sendto freed a socket and failed to        *)
(* connect it anew.                                                        *)
THEOREM IdsSharedOnlyIfDropped == InterfaceSpec => []SharedOnlyIfDropped
  <1>1. IInv => SharedOnlyIfDropped
    BY DEF IInv, Exclusive, SharedOnlyIfDropped, SharedIds
  <1> QED
    BY <1>1, InvariantHolds, PTL

----------------------------------------------------------------------------
(* The table together with the module's sockets. *)

(* Until some handle is dropped, the socket of a connected datagram handle *)
(* has the packets of one peer, who also sent what is unread.              *)
Attribution ==
  ~dropped => \A h \in Udp : sock[h].connected =>
                /\ From(wifi, Id(h), sock[h].addr)
                /\ sender[h] \in {None, sock[h].addr}

DInv == IInv /\ Selection(wifi) /\ Attribution

(* Only open handles are connected. *)
LEMMA ConnectedIsOpen ==
  ASSUME IInv, NEW h \in Handles, sock[h].connected
  PROVE  h \in Opened /\ Id(h) \in Ids
  BY DEF IInv, TableOK, Opened, Closed

(* A step that neither connects nor renames a datagram handle, lets no     *)
(* socket get another's packets, and lets nobody get new unread bytes.     *)
LEMMA NothingRead ==
  ASSUME DInv, dropped => dropped',
         \A j \in Ids : \A a : From(wifi, j, a) => From(wifi', j, a),
         \A g \in Udp : sock'[g].connected =>
            /\ sock[g].connected /\ sock'[g].addr = sock[g].addr
            /\ sock'[g].id = sock[g].id
            /\ sender'[g] \in {None, sender[g]}
  PROVE  Attribution'
  <1> SUFFICES ASSUME ~dropped', NEW g \in Udp, sock'[g].connected
               PROVE  /\ From(wifi', Id(g)', sock'[g].addr)
                      /\ sender'[g] \in {None, sock'[g].addr}
    BY DEF Attribution
  <1>1. Id(g) \in Ids /\ Id(g)' = Id(g)
    BY ConnectedIsOpen, InterfaceAssumption DEF DInv, Id
  <1> QED
    BY <1>1 DEF DInv, Attribution

LEMMA InitDInv == InterfaceInit => DInv
  <1> SUFFICES ASSUME InterfaceInit PROVE DInv
    OBVIOUS
  <1>1. Selection(wifi)
    BY NewSelection DEF InterfaceInit
  <1>2. Attribution
    BY InterfaceAssumption DEF InterfaceInit, Attribution, Closed
  <1> QED
    BY <1>1, <1>2, InitIInv DEF DInv

LEMMA OpenAttribution ==
  ASSUME DInv, NEW h \in Handles, socket_open(h)
  PROVE  Attribution'
  <1>1. PICK id \in Ids : sock' = [sock EXCEPT ![h] = [Closed EXCEPT !.id = id]]
    BY Zenon DEF socket_open
  <1>2. [Closed EXCEPT !.id = id].connected = FALSE
    BY DEF Closed
  <1>3. \A g \in Handles : g # h => sock'[g] = sock[g]
    BY <1>1 DEF DInv, IInv, TableOK
  <1>4. sock'[h].connected = FALSE
    BY <1>1, <1>2 DEF DInv, IInv, TableOK
  <1>5. UNCHANGED <<wifi, dropped, sender>>
    BY DEF socket_open
  <1> QED
    BY <1>3, <1>4, <1>5, NothingRead, InterfaceAssumption

LEMMA CloseAttribution ==
  ASSUME DInv, NEW h \in Handles, socket_close(h)
  PROVE  Selection(wifi') /\ Attribution'
  <1>1. Id(h) \in Ids
    BY DEF socket_close, DInv, IInv, TableOK
  <1>2. PICK o \in close(wifi, Id(h)) : wifi' = o.m
    BY DEF socket_close
  <1>3. /\ Selection(wifi')
        /\ \A j \in Ids : \A a : From(wifi, j, a) => From(wifi', j, a)
    BY <1>1, <1>2, closeKeeps, closeFrom DEF DInv
  <1>4. /\ \A g \in Handles : g # h => sock'[g] = sock[g]
        /\ sock'[h].connected = FALSE
        /\ \A g \in Udp : g # h => sender'[g] = sender[g]
        /\ dropped' = dropped
    BY DEF socket_close, Attributed, Closed, DInv, IInv, TableOK
  <1>5. Attribution'
    BY <1>3, <1>4, NothingRead, InterfaceAssumption
  <1> QED
    BY <1>3, <1>5

(* A success starts the handle's socket anew, for the peer that is stored; *)
(* no other handle has this socket unless one was dropped.                 *)
LEMMA ConnectAttribution ==
  ASSUME IInv, NEW h \in attached, NEW m, NEW o, NEW i, NEW b,
         NEW addr \in Peers \union {None}, NEW peer \in Peers,
         Selection(m), o \in open(m, Id(h), peer),
         \A j \in Ids : \A a : From(wifi, j, a) => From(m, j, a),
         Attribution, dropped => dropped',
         Connects(h, o, i, b, addr),
         \A j \in Ids : \A a : From(o.m, j, a) => From(wifi', j, a),
         \A g \in Udp : g # h => sender'[g] = sender[g],
         h \in Udp => addr = peer /\ (o.ok => sender'[h] \in {None, peer})
  PROVE  Attribution'
  <1>1. h \in Opened /\ h \in Handles /\ Id(h) \in Ids
    BY DEF IInv, TableOK, Opened
  <1>2. /\ o.ok => From(o.m, Id(h), peer)
        /\ \A j \in Ids \ {Id(h)} : \A a : From(m, j, a) => From(o.m, j, a)
    BY <1>1, openFrom, Zenon
  <1>3. /\ \A g \in Handles : g # h => sock'[g] = sock[g]
        /\ sock'[h].connected = o.ok /\ sock'[h].id = Id(h)
        /\ o.ok => sock'[h].addr = addr
    <2> DEFINE a == IF o.ok THEN addr ELSE sock[h].addr
    <2>1. sock[h] \in Structs
      BY <1>1 DEF IInv, TableOK
    <2>2. sock' = [sock EXCEPT ![h] = [sock[h] EXCEPT !.connected = o.ok, !.addr = a]]
      BY DEF Connects
    <2> HIDE DEF a
    <2>3. /\ [sock[h] EXCEPT !.connected = o.ok, !.addr = a].connected = o.ok
          /\ [sock[h] EXCEPT !.connected = o.ok, !.addr = a].id = Id(h)
          /\ [sock[h] EXCEPT !.connected = o.ok, !.addr = a].addr = a
      BY <2>1 DEF Structs, Id
    <2>4. /\ \A g \in Handles : g # h => sock'[g] = sock[g]
          /\ sock'[h] = [sock[h] EXCEPT !.connected = o.ok, !.addr = a]
      BY <1>1, <2>2 DEF IInv, TableOK
    <2>5. o.ok => a = addr
      BY DEF a
    <2> QED
      BY <2>3, <2>4, <2>5, Zenon
  <1> SUFFICES ASSUME ~dropped', NEW g \in Udp, sock'[g].connected
               PROVE  /\ From(wifi', Id(g)', sock'[g].addr)
                      /\ sender'[g] \in {None, sock'[g].addr}
    BY DEF Attribution
  <1>4. CASE g = h
    BY <1>1, <1>2, <1>3, <1>4 DEF Id
  <1>5. CASE g # h
    <2>1. sock'[g] = sock[g] /\ Id(g)' = Id(g)
      BY <1>3, <1>5, InterfaceAssumption DEF Id
    <2>2. g \in Opened /\ Id(g) \in Ids
      BY <2>1, ConnectedIsOpen, InterfaceAssumption
    <2>3. Id(g) # Id(h)
      BY <1>1, <1>5, <2>2 DEF IInv, Exclusive
    <2>4. From(wifi, Id(g), sock[g].addr) /\ sender[g] \in {None, sock[g].addr}
      BY <2>1 DEF Attribution
    <2>5. From(wifi', Id(g), sock[g].addr)
      BY <1>2, <2>2, <2>3, <2>4
    <2> QED
      BY <1>5, <2>1, <2>4, <2>5
  <1> QED
    BY <1>4, <1>5

LEMMA ConnectTcpAttribution ==
  ASSUME DInv, NEW h \in Handles, NEW peer \in Peers, socket_connect(h, peer)
  PROVE  Selection(wifi') /\ Attribution'
  <1>1. h \in attached \ Udp /\ UNCHANGED <<dropped, sender>> /\ Id(h) \in Ids
    BY DEF socket_connect, DInv, IInv, TableOK
  <1>2. PICK o \in open(wifi, Id(h), peer) : wifi' = o.m /\ Connects(h, o, ids, obj, None)
    BY Zenon DEF socket_connect
  <1>3. Selection(wifi')
    BY <1>1, <1>2, openKeeps DEF DInv
  <1>4. Attribution'
    BY <1>1, <1>2, ConnectAttribution DEF DInv
  <1> QED
    BY <1>3, <1>4

LEMMA SendAttribution ==
  ASSUME DInv, NEW h \in attached, NEW o \in send(wifi, Id(h)), wifi' = o.m,
         UNCHANGED <<table, dropped, sender>>
  PROVE  Selection(wifi') /\ Attribution'
  <1>1. Id(h) \in Ids
    BY DEF DInv, IInv, TableOK
  <1>2. /\ Selection(wifi')
        /\ \A j \in Ids : \A a : From(wifi, j, a) => From(wifi', j, a)
    BY <1>1, sendKeeps, sendFrom DEF DInv
  <1>3. Attribution'
    BY <1>2, NothingRead DEF table
  <1> QED
    BY <1>2, <1>3

(* A close that may fail, an open that may fail, a send that may fail. *)
LEMMA SendtoAnewAttribution ==
  ASSUME DInv, NEW h \in Handles, NEW peer \in Peers, socket_sendto_anew(h, peer)
  PROVE  Selection(wifi') /\ Attribution'
  <1> DEFINE id == Id(h)
             frees == sock[h].connected
             closing == IF frees THEN close(wifi, id) ELSE { Done(wifi) }
             freeIds == IF frees THEN [ids EXCEPT ![id] = FALSE] ELSE ids
             freeObj == IF frees THEN [obj EXCEPT ![id] = None] ELSE obj
  <1>1. h \in attached \intersect Udp /\ id \in Ids
    BY DEF socket_sendto_anew, DInv, IInv, TableOK
  <1>2. PICK c \in closing :
           \/ wifi' = c.m /\ UNCHANGED <<table, dropped, sender>>
           \/ \E o \in open(c.m, id, peer) :
                /\ Connects(h, o, freeIds, freeObj, peer)
                /\ \E q \in Then({ o }, LAMBDA n : send(n, id)) : wifi' = q.m
                /\ dropped' = (dropped \/ (frees /\ ~o.ok))
                /\ Attributed(h, IF o.ok /\ sender[h] # peer THEN None ELSE sender[h])
    BY Zenon DEF socket_sendto_anew
  <1>3. /\ Selection(c.m)
        /\ \A j \in Ids : \A a : From(wifi, j, a) => From(c.m, j, a)
    BY <1>1, <1>2, closeKeeps, closeFrom DEF DInv, Done
  <1>4. CASE wifi' = c.m /\ UNCHANGED <<table, dropped, sender>>
    BY <1>3, <1>4, NothingRead DEF table
  <1>5. ASSUME NEW o \in open(c.m, id, peer),
               Connects(h, o, freeIds, freeObj, peer),
               NEW q \in Then({ o }, LAMBDA n : send(n, id)), wifi' = q.m,
               dropped' = (dropped \/ (frees /\ ~o.ok)),
               Attributed(h, IF o.ok /\ sender[h] # peer THEN None ELSE sender[h])
        PROVE  Selection(wifi') /\ Attribution'
    <2>1. Selection(o.m)
      BY <1>1, <1>3, <1>5, openKeeps
    <2>2. q = o \/ q \in send(o.m, id)
      BY <1>5 DEF Then
    <2>3. /\ Selection(wifi')
          /\ \A j \in Ids : \A a : From(o.m, j, a) => From(wifi', j, a)
      BY <1>1, <1>5, <2>1, <2>2, sendKeeps, sendFrom
    <2>4. /\ \A g \in Udp : g # h => sender'[g] = sender[g]
          /\ o.ok => sender'[h] \in {None, peer}
      BY <1>1, <1>5 DEF Attributed
    <2>5. dropped => dropped'
      BY <1>5
    <2> HIDE DEF id, frees, freeIds, freeObj
    <2>6. Attribution'
      BY <1>1, <1>3, <1>5, <2>3, <2>4, <2>5, ConnectAttribution DEF DInv, id
    <2> QED
      BY <2>3, <2>6
  <1> QED
    BY <1>2, <1>4, <1>5, Zenon

(* A read gives the socket's own packet, unless it goes astray. *)
LEMMA ReadAttribution ==
  ASSUME DInv, NEW h \in Opened, NEW o, NEW s,
         \/ sock[h].connected /\ o \in check_recv_status(wifi, Id(h))
         \/ o = Got(Done(wifi), None),
         wifi' = o.m, dropped' = dropped,
         sock' = [sock EXCEPT ![h] = s],
         s.connected => sock[h].connected, s.addr = sock[h].addr, s.id = sock[h].id,
         Attributed(h, SenderAfter(h, o))
  PROVE  Selection(wifi') /\ Attribution'
  <1>1. h \in Handles /\ Id(h) \in Ids
    BY DEF DInv, IInv, TableOK, Opened
  <1>2. /\ Selection(wifi')
        /\ \A j \in Ids : \A a : From(wifi, j, a) => From(wifi', j, a)
        /\ sock[h].connected =>
             \A a : From(wifi, Id(h), a) => o.got \in {None, a} \/ o.m.astray
    <2>1. CASE o \in check_recv_status(wifi, Id(h))
      BY <1>1, <2>1, checkKeeps, checkFrom DEF DInv
    <2>2. CASE o = Got(Done(wifi), None)
      BY <2>2 DEF DInv, Got, Done
    <2> QED
      BY <2>1, <2>2
  <1>3. /\ \A g \in Handles : sock'[g] = IF g = h THEN s ELSE sock[g]
        /\ \A g \in Udp : sender'[g] = IF g = h THEN SenderAfter(h, o) ELSE sender[g]
    BY <1>1 DEF DInv, IInv, TableOK, Attributed
  <1>4. SenderAfter(h, o) \in {None, sender[h]} \/ (SenderAfter(h, o) = o.got /\ ~o.m.astray)
    BY DEF SenderAfter
  <1>5. Attribution'
    <2> SUFFICES ASSUME ~dropped', NEW g \in Udp, sock'[g].connected
                 PROVE  /\ From(wifi', Id(g)', sock'[g].addr)
                        /\ sender'[g] \in {None, sock'[g].addr}
      BY DEF Attribution
    <2>1. /\ sock[g].connected /\ sock'[g].addr = sock[g].addr /\ Id(g)' = Id(g)
      BY <1>3, InterfaceAssumption DEF Id
    <2>2. Id(g) \in Ids
      BY <2>1, ConnectedIsOpen, InterfaceAssumption DEF DInv
    <2>3. From(wifi, Id(g), sock[g].addr) /\ sender[g] \in {None, sock[g].addr}
      BY <2>1 DEF DInv, Attribution
    <2> QED
      BY <1>2, <1>3, <1>4, <2>1, <2>2, <2>3
  <1> QED
    BY <1>2, <1>5

(* A read changes neither the peer nor the id of a struct, and connects    *)
(* nothing.                                                                *)
LEMMA ReadFields ==
  ASSUME NEW s \in Structs, NEW o, NEW n \in 1 .. PacketSize,
         NEW r, r \in {AfterRead(s, o), [AfterRead(s, o) EXCEPT !.size = Left(@, n)]}
  PROVE  /\ r.connected => s.connected
         /\ r.addr = s.addr /\ r.id = s.id
  <1>1. AfterRead(s, o) \in {[s EXCEPT !.connected = FALSE], [s EXCEPT !.size = PacketSize], s}
    BY Zenon DEF AfterRead
  <1> DEFINE q == AfterRead(s, o)
  <1>2. q \in Structs /\ (q.connected => s.connected) /\ q.addr = s.addr /\ q.id = s.id
    <2>1. q \in Structs
      BY ReadStruct
    <2> HIDE DEF q
    <2>2. CASE q = [s EXCEPT !.connected = FALSE]
      BY <2>1, <2>2 DEF Structs
    <2>3. CASE q = [s EXCEPT !.size = PacketSize]
      BY <2>1, <2>3 DEF Structs
    <2>4. CASE q = s
      BY <2>1, <2>4
    <2> QED
      BY <1>1, <2>2, <2>3, <2>4 DEF q
  <1> HIDE DEF q
  <1>3. /\ [q EXCEPT !.size = Left(@, n)].connected = q.connected
        /\ [q EXCEPT !.size = Left(@, n)].addr = q.addr
        /\ [q EXCEPT !.size = Left(@, n)].id = q.id
    BY <1>2 DEF Structs
  <1>4. r \in {q, [q EXCEPT !.size = Left(@, n)]}
    BY DEF q
  <1> QED
    BY <1>2, <1>3, <1>4

LEMMA RecvAttribution ==
  ASSUME DInv, NEW h \in Handles, NEW n \in 1 .. PacketSize, socket_recv(h, n)
  PROVE  Selection(wifi') /\ Attribution'
  <1>1. h \in Opened /\ sock[h] \in Structs /\ dropped' = dropped
    BY DEF socket_recv, DInv, IInv, TableOK
  <1>2. PICK o \in IF sock[h].connected /\ sock[h].size = 0
                   THEN check_recv_status(wifi, Id(h)) ELSE { Got(Done(wifi), None) } :
          /\ wifi' = o.m
          /\ sock' = [sock EXCEPT ![h] = IF AfterRead(sock[h], o).connected
                                         THEN [AfterRead(sock[h], o) EXCEPT !.size = Left(@, n)]
                                         ELSE AfterRead(sock[h], o)]
          /\ Attributed(h, SenderAfter(h, o))
    BY Zenon DEF socket_recv
  <1> DEFINE s == IF AfterRead(sock[h], o).connected
                  THEN [AfterRead(sock[h], o) EXCEPT !.size = Left(@, n)]
                  ELSE AfterRead(sock[h], o)
  <1>3. s \in {AfterRead(sock[h], o), [AfterRead(sock[h], o) EXCEPT !.size = Left(@, n)]}
    BY Zenon
  <1>4. sock' = [sock EXCEPT ![h] = s]
    BY <1>2
  <1> HIDE DEF s
  <1>5. (s.connected => sock[h].connected) /\ s.addr = sock[h].addr /\ s.id = sock[h].id
    BY <1>1, <1>3, ReadFields
  <1>6. \/ sock[h].connected /\ o \in check_recv_status(wifi, Id(h))
        \/ o = Got(Done(wifi), None)
    BY <1>2, Zenon
  <1> QED
    BY <1>1, <1>2, <1>4, <1>5, <1>6, ReadAttribution

LEMMA CheckReadAttribution ==
  ASSUME DInv, NEW id \in Ids, socket_check_read(id)
  PROVE  Selection(wifi') /\ Attribution'
  <1> DEFINE h == obj[id]
  <1>1. /\ h \in Opened /\ Id(h) = id /\ sock[h] \in Structs /\ dropped' = dropped
        /\ sock[h].connected
    BY DEF socket_check_read, DInv, IInv, TableOK, NoDangling, Opened
  <1>2. PICK o \in check_recv_status(wifi, id) :
          /\ wifi' = o.m
          /\ sock' = [sock EXCEPT ![h] = AfterRead(@, o)]
          /\ Attributed(h, SenderAfter(h, o))
    BY Zenon DEF socket_check_read
  <1>3. sock' = [sock EXCEPT ![h] = AfterRead(sock[h], o)]
    BY <1>2
  <1> HIDE DEF h
  <1>4. /\ AfterRead(sock[h], o).connected => sock[h].connected
        /\ AfterRead(sock[h], o).addr = sock[h].addr /\ AfterRead(sock[h], o).id = sock[h].id
    <2>1. 1 \in 1 .. PacketSize
      BY InterfaceAssumption
    <2> QED
      BY <1>1, <2>1, ReadFields
  <1> QED
    BY <1>1, <1>2, <1>3, <1>4, ReadAttribution

LEMMA StepDInv == DInv /\ [InterfaceNext]_ivars => DInv'
  <1> SUFFICES ASSUME DInv, [InterfaceNext]_ivars PROVE DInv'
    OBVIOUS
  <1>1. IInv'
    BY StepIInv DEF DInv
  <1>2. ASSUME NEW h \in Handles, Application(h) PROVE Selection(wifi') /\ Attribution'
    <2>1. CASE socket_open(h)
      BY <2>1, OpenAttribution DEF DInv, socket_open
    <2>2. CASE socket_attach(h) \/ socket_detach(h)
      BY <2>2, NothingRead DEF DInv, socket_attach, socket_detach
    <2>3. CASE socket_close(h)
      BY <2>3, CloseAttribution
    <2>4. CASE socket_send(h)
      BY <2>4, SendAttribution DEF socket_send
    <2>5. ASSUME NEW peer \in Peers, socket_connect(h, peer)
          PROVE  Selection(wifi') /\ Attribution'
      BY <2>5, ConnectTcpAttribution
    <2>6. ASSUME NEW peer \in Peers, socket_sendto_again(h, peer)
          PROVE  Selection(wifi') /\ Attribution'
      BY <2>6, SendAttribution DEF socket_sendto_again
    <2>7. ASSUME NEW peer \in Peers, socket_sendto_anew(h, peer)
          PROVE  Selection(wifi') /\ Attribution'
      BY <2>7, SendtoAnewAttribution
    <2>8. ASSUME NEW n \in 1 .. PacketSize, socket_recv(h, n)
          PROVE  Selection(wifi') /\ Attribution'
      BY <2>8, RecvAttribution
    <2> QED
      BY <1>2, <2>1, <2>2, <2>3, <2>4, <2>5, <2>6, <2>7, <2>8, Zenon DEF Application
  <1>3. ASSUME NEW id \in Ids, socket_check_read(id) PROVE Selection(wifi') /\ Attribution'
    BY <1>3, CheckReadAttribution
  <1>4. ASSUME NEW id \in Ids, Arrive(id) PROVE Selection(wifi') /\ Attribution'
    <2>1. Selection(wifi') /\ \A j \in Ids : \A a : From(wifi, j, a) => From(wifi', j, a)
      BY <1>4, ArrivedKeeps, ArrivedFrom DEF Arrive, DInv
    <2> QED
      BY <1>4, <2>1, NothingRead DEF Arrive, table
  <1>5. ASSUME UNCHANGED ivars PROVE Selection(wifi') /\ Attribution'
    BY <1>5, NothingRead DEF DInv, ivars, table
  <1> QED
    BY <1>1, <1>2, <1>3, <1>4, <1>5, Zenon DEF InterfaceNext, DInv

LEMMA DInvHolds == InterfaceSpec => []DInv
  BY InitDInv, StepDInv, PTL DEF InterfaceSpec

(* Whichever commands fail, an operation goes to another socket than its   *)
(* handle's only while the last P0 is unconfirmed.                         *)
THEOREM AstrayIfUnconfirmed == InterfaceSpec => []AstrayOnlyIfUnconfirmed
  <1>1. DInv => AstrayOnlyIfUnconfirmed
    BY DEF DInv, Selection, AstrayOnlyIfUnconfirmed
  <1> QED
    BY <1>1, DInvHolds, PTL

(* What a datagram handle reads is from the peer that socket_recvfrom      *)
(* reports, whichever commands fail and however often it is connected      *)
(* anew, unless a sendto dropped its socket or the handle was connected to *)
(* another peer before it read.                                            *)
THEOREM DatagramsAttributed == InterfaceSpec => []DatagramsAreFromPeer
  <1>1. DInv => DatagramsAreFromPeer
    BY DEF DInv, Attribution, DatagramsAreFromPeer, Reported
  <1> QED
    BY <1>1, DInvHolds, PTL
----------------------------------------------------------------------------
(* The types of the rest. *)

Rest ==
  /\ blocked \subseteq Opened
  /\ dropped \in BOOLEAN
  /\ sender \in [Udp -> Peers \union {None}]

(* What a read gives is a packet's sender, or nothing. *)
LEMMA ReadGets ==
  ASSUME NEW m, Selection(m), NEW id \in Ids, NEW o \in check_recv_status(m, id)
  PROVE  o.got \in Peers \union {None}
  <1> DEFINE boxOf(q) == q.m.inbox[q.m.selected]
             readOf(q) == [q.m EXCEPT !.inbox[q.m.selected] = Tail(@)]
  <1>1. PICK p \in Activate(m, id) :
          o \in IF ~p.ok THEN { Got(p, None) }
               ELSE { Got(Failed(p.m), None) } \union
                    IF boxOf(p) = <<>> THEN { Got(p, None) }
                    ELSE { Got(Done(readOf(p)), Head(boxOf(p))), Got(Failed(readOf(p)), None) }
    BY Zenon DEF check_recv_status
  <1>2. boxOf(p) \in Seq(Peers)
    BY ActivateKeeps DEF Selection, Modules
  <1> HIDE DEF boxOf, readOf
  <1>3. boxOf(p) # <<>> => Head(boxOf(p)) \in Peers
    BY <1>2
  <1> QED
    BY <1>1, <1>3 DEF Got

(* A handle with an id is open. *)
LEMMA StillOpen ==
  ASSUME TableOK, NEW g \in Opened, Id(g)' = Id(g)
  PROVE  g \in Opened'
  <1>1. g \in Handles /\ sock'[g].id \in Ids
    BY DEF TableOK, Opened, Id
  <1>2. sock'[g] # Closed
    BY <1>1, NoneIsNothing, ClosedStruct
  <1> QED
    BY <1>1, <1>2 DEF Opened

(* A step that changes one handle's struct, and not its id. *)
LEMMA RestStays ==
  ASSUME TableOK, Rest, NEW h \in Handles, NEW s,
         sock' = [sock EXCEPT ![h] = s], s.id = Id(h),
         h \in Opened, blocked' \subseteq blocked \union {h},
         NEW t \in Peers \union {None}, Attributed(h, t) \/ sender' = sender,
         dropped' \in BOOLEAN
  PROVE  Rest'
  <1>1. \A g \in Opened : Id(g)' = Id(g)
    BY DEF TableOK, Opened, Id
  <1>2. blocked' \subseteq Opened'
    BY <1>1, StillOpen DEF Rest
  <1>3. sender' \in [Udp -> Peers \union {None}]
    BY DEF Rest, Attributed
  <1> QED
    BY <1>2, <1>3 DEF Rest

(* Nothing is open at first. *)
LEMMA InitRest == InterfaceInit => Rest
  <1> SUFFICES ASSUME InterfaceInit PROVE Rest
    OBVIOUS
  <1>1. dropped \in BOOLEAN
    BY Zenon DEF InterfaceInit
  <1> QED
    BY <1>1 DEF InterfaceInit, Rest

(* The table changes no handle that is not opened or closed. *)
LEMMA RestUnchanged ==
  ASSUME Rest, UNCHANGED <<sock, blocked, dropped, sender>>
  PROVE  Rest'
  BY DEF Rest, Opened

(* A handle that is opened is another than those that are open. *)
LEMMA OpenRest ==
  ASSUME DInv, Rest, NEW h \in Handles, socket_open(h)
  PROVE  Rest'
  <1>1. \A g \in Opened : sock'[g] = sock[g]
    BY DEF socket_open, DInv, IInv, TableOK
  <1>2. \A g \in Opened : g \in Opened'
    BY <1>1 DEF Opened
  <1> QED
    BY <1>2 DEF socket_open, Rest

(* A handle that is closed awaits nothing. *)
LEMMA CloseRest ==
  ASSUME DInv, Rest, NEW h \in Handles, socket_close(h)
  PROVE  Rest'
  <1>1. \A g \in Opened \ {h} : g \in Opened'
    BY DEF socket_close, DInv, IInv, TableOK, Opened
  <1>2. sender' \in [Udp -> Peers \union {None}]
    BY DEF socket_close, Rest, Attributed
  <1> QED
    BY <1>1, <1>2 DEF socket_close, Rest

(* The struct of the handle that is connected. *)
LEMMA ConnectRest ==
  ASSUME DInv, Rest, NEW h \in attached, NEW o, NEW i, NEW b, NEW addr \in Peers \union {None},
         Connects(h, o, i, b, addr), UNCHANGED blocked,
         NEW t \in Peers \union {None}, Attributed(h, t) \/ sender' = sender,
         dropped' \in BOOLEAN
  PROVE  Rest'
  <1>1. h \in Opened /\ h \in Handles /\ sock[h] \in Structs
    BY DEF DInv, IInv, TableOK, Opened
  <1> DEFINE a == IF o.ok THEN addr ELSE sock[h].addr
             s == [sock[h] EXCEPT !.connected = o.ok, !.addr = a]
  <1>2. sock' = [sock EXCEPT ![h] = s]
    BY DEF Connects
  <1>3. s.id = Id(h)
    <2> HIDE DEF a
    <2> QED
      BY <1>1 DEF Structs, Id
  <1> HIDE DEF s
  <1>4. TableOK
    BY DEF DInv, IInv
  <1> QED
    BY <1>1, <1>2, <1>3, <1>4, RestStays

(* A sendto to another peer changes its own handle only. *)
LEMMA SendtoAnewRest ==
  ASSUME DInv, Rest, NEW h \in Handles, NEW peer \in Peers, socket_sendto_anew(h, peer)
  PROVE  Rest'
  <1> DEFINE id == Id(h)
             frees == sock[h].connected
             closing == IF frees THEN close(wifi, id) ELSE { Done(wifi) }
             freeIds == IF frees THEN [ids EXCEPT ![id] = FALSE] ELSE ids
             freeObj == IF frees THEN [obj EXCEPT ![id] = None] ELSE obj
  <1>1. h \in attached \intersect Udp /\ UNCHANGED blocked
    BY DEF socket_sendto_anew
  <1>2. PICK c \in closing :
           \/ UNCHANGED <<table, dropped, sender>>
           \/ \E o \in open(c.m, id, peer) :
                /\ Connects(h, o, freeIds, freeObj, peer)
                /\ dropped' = (dropped \/ (frees /\ ~o.ok))
                /\ Attributed(h, IF o.ok /\ sender[h] # peer THEN None ELSE sender[h])
    BY Zenon DEF socket_sendto_anew
  <1>3. CASE UNCHANGED <<table, dropped, sender>>
    BY <1>1, <1>3, RestUnchanged DEF table
  <1>4. ASSUME NEW o \in open(c.m, id, peer),
               Connects(h, o, freeIds, freeObj, peer),
               dropped' = (dropped \/ (frees /\ ~o.ok)),
               Attributed(h, IF o.ok /\ sender[h] # peer THEN None ELSE sender[h])
        PROVE  Rest'
    <2>1. dropped' \in BOOLEAN
      BY <1>4, Zenon
    <2>2. (IF o.ok /\ sender[h] # peer THEN None ELSE sender[h]) \in Peers \union {None}
      BY <1>1 DEF Rest
    <2> QED
      BY <1>1, <1>4, <2>1, <2>2, ConnectRest
  <1> QED
    BY <1>2, <1>3, <1>4, Zenon

(* After a read the unread bytes are some peer's, or nobody's. *)
LEMMA SenderTyped ==
  ASSUME DInv, Rest, NEW h \in Handles, NEW o,
         o.got \in Peers \union {None}, Attributed(h, SenderAfter(h, o))
  PROVE  sender' \in [Udp -> Peers \union {None}]
  <1>1. h \in Udp => SenderAfter(h, o) \in Peers \union {None}
    BY DEF SenderAfter, Rest
  <1> QED
    BY <1>1 DEF Attributed, Rest

(* A read changes its own handle only. *)
LEMMA RecvRest ==
  ASSUME DInv, Rest, NEW h \in Handles, NEW n \in 1 .. PacketSize, socket_recv(h, n)
  PROVE  Rest'
  <1>1. /\ h \in Opened /\ sock[h] \in Structs /\ Id(h) \in Ids
        /\ blocked' \subseteq blocked \union {h} /\ dropped' = dropped
    BY DEF socket_recv, DInv, IInv, TableOK
  <1>2. PICK o \in IF sock[h].connected /\ sock[h].size = 0
                   THEN check_recv_status(wifi, Id(h)) ELSE { Got(Done(wifi), None) } :
          /\ sock' = [sock EXCEPT ![h] = IF AfterRead(sock[h], o).connected
                                         THEN [AfterRead(sock[h], o) EXCEPT !.size = Left(@, n)]
                                         ELSE AfterRead(sock[h], o)]
          /\ Attributed(h, SenderAfter(h, o))
    BY Zenon DEF socket_recv
  <1>3. o.got \in Peers \union {None}
    <2>1. o \in check_recv_status(wifi, Id(h)) \/ o = Got(Done(wifi), None)
      BY <1>2, Zenon
    <2> QED
      BY <1>1, <2>1, ReadGets DEF DInv, Got
  <1> DEFINE s == IF AfterRead(sock[h], o).connected
                  THEN [AfterRead(sock[h], o) EXCEPT !.size = Left(@, n)]
                  ELSE AfterRead(sock[h], o)
  <1>4. s.id = Id(h)
    BY <1>1, ReadStruct, Zenon DEF Id
  <1>5. sock' = [sock EXCEPT ![h] = s]
    BY <1>2
  <1> HIDE DEF s
  <1>6. \A g \in Opened : Id(g)' = Id(g)
    BY <1>1, <1>4, <1>5 DEF DInv, IInv, TableOK, Opened, Id
  <1>7. sender' \in [Udp -> Peers \union {None}]
    BY <1>2, <1>3, SenderTyped
  <1> QED
    BY <1>1, <1>6, <1>7, StillOpen DEF DInv, IInv, Rest

(* The reader changes the handle that it finds in _socket_obj only. *)
LEMMA CheckReadRest ==
  ASSUME DInv, Rest, NEW id \in Ids, socket_check_read(id)
  PROVE  Rest'
  <1> DEFINE h == obj[id]
  <1>1. /\ h \in Opened /\ h \in Handles /\ Id(h) = id /\ sock[h] \in Structs
        /\ blocked' \subseteq blocked /\ dropped' = dropped
    BY DEF socket_check_read, DInv, IInv, TableOK, NoDangling, Opened
  <1>2. PICK o \in check_recv_status(wifi, id) :
          /\ sock' = [sock EXCEPT ![h] = AfterRead(@, o)]
          /\ Attributed(h, SenderAfter(h, o))
    BY Zenon DEF socket_check_read
  <1>3. o.got \in Peers \union {None}
    BY ReadGets DEF DInv
  <1>4. sock' = [sock EXCEPT ![h] = AfterRead(sock[h], o)]
    BY <1>2
  <1> HIDE DEF h
  <1>5. AfterRead(sock[h], o).id = Id(h)
    <2>1. 1 \in 1 .. PacketSize
      BY InterfaceAssumption
    <2> QED
      BY <1>1, <2>1, ReadStruct DEF Id
  <1>6. \A g \in Opened : Id(g)' = Id(g)
    BY <1>1, <1>4, <1>5 DEF DInv, IInv, TableOK, Opened, Id
  <1>7. sender' \in [Udp -> Peers \union {None}]
    BY <1>1, <1>2, <1>3, SenderTyped
  <1> QED
    BY <1>1, <1>6, <1>7, StillOpen DEF DInv, IInv, Rest

(* Every step keeps the types of the rest. *)
LEMMA StepRest == DInv /\ Rest /\ [InterfaceNext]_ivars => Rest'
  <1> SUFFICES ASSUME DInv, Rest, [InterfaceNext]_ivars PROVE Rest'
    OBVIOUS
  <1>1. ASSUME NEW h \in Handles, Application(h) PROVE Rest'
    <2>1. CASE socket_open(h)
      BY <2>1, OpenRest
    <2>2. CASE socket_attach(h) \/ socket_detach(h) \/ socket_send(h)
      BY <2>2, RestUnchanged DEF socket_attach, socket_detach, socket_send, table
    <2>3. CASE socket_close(h)
      BY <2>3, CloseRest
    <2>4. ASSUME NEW peer \in Peers, socket_connect(h, peer) PROVE Rest'
      <3>1. \E o : Connects(h, o, ids, obj, None)
        BY <2>4, Zenon DEF socket_connect
      <3>2. /\ h \in attached /\ UNCHANGED <<blocked, dropped, sender>>
            /\ dropped \in BOOLEAN /\ None \in Peers \union {None}
        BY <2>4 DEF socket_connect, Rest
      <3> QED
        BY <3>1, <3>2, ConnectRest
    <2>5. ASSUME NEW peer \in Peers, socket_sendto_again(h, peer) PROVE Rest'
      BY <2>5, RestUnchanged DEF socket_sendto_again, table
    <2>6. ASSUME NEW peer \in Peers, socket_sendto_anew(h, peer) PROVE Rest'
      BY <2>6, SendtoAnewRest
    <2>7. ASSUME NEW n \in 1 .. PacketSize, socket_recv(h, n) PROVE Rest'
      BY <2>7, RecvRest
    <2> QED
      BY <1>1, <2>1, <2>2, <2>3, <2>4, <2>5, <2>6, <2>7, Zenon DEF Application
  <1>2. ASSUME NEW id \in Ids, socket_check_read(id) PROVE Rest'
    BY <1>2, CheckReadRest
  <1>3. ASSUME NEW id \in Ids, Arrive(id) PROVE Rest'
    BY <1>3, RestUnchanged DEF Arrive, table
  <1>4. CASE UNCHANGED ivars
    BY <1>4, RestUnchanged DEF ivars, table
  <1> QED
    BY <1>1, <1>2, <1>3, <1>4, Zenon DEF InterfaceNext

(* Whatever is lost or fails, every struct's fields, the module's sockets  *)
(* and the history keep their types, and only open handles are attached or *)
(* await their callbacks.                                                  *)
THEOREM SocketTypes == InterfaceSpec => []SocketTypeOK
  <1>1. DInv /\ Rest => SocketTypeOK
    BY DEF DInv, IInv, TableOK, Structs, Selection, Rest, SocketTypeOK
  <1>2. InterfaceSpec => []Rest
    BY InitRest, StepRest, DInvHolds, PTL DEF InterfaceSpec
  <1> QED
    BY <1>1, <1>2, DInvHolds, PTL
=============================================================================
