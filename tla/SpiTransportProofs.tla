------------------------- MODULE SpiTransportProofs -------------------------
(***************************************************************************)
(* Proofs about the SPI transport, for every size of its buffers, every    *)
(* burst the module answers in and any number of operations: the ring      *)
(* buffers are queues; nothing that the module says is lost unread or      *)
(* taken for the answer to another operation; an operation puts its own    *)
(* bytes on the wire; and the transport implements Commands.               *)
(***************************************************************************)
EXTENDS SpiTransport, SequenceTheorems, TLAPS

-----------------------------------------------------------------------------
(* MyBuffer *)

(* A location is always one of the first Size - 1 cells, so of the Size    *)
(* cells one is never used.                                                *)
LEMMA AfterWraps ==
  ASSUME NEW loc \in 0 .. Size - 2
  PROVE  /\ After(loc) = IF loc = Size - 2 THEN 0 ELSE loc + 1
         /\ After(loc) \in 0 .. Size - 2
  <1>1. Size - 1 \in Nat /\ Size - 1 > 0
    BY SizeAssumption
  <1>2. ASSUME NEW m \in Nat, m > 0, NEW a \in 0 .. m - 1
        PROVE  (a + 1) % m = IF a = m - 1 THEN 0 ELSE a + 1
    BY <1>2, SMT
  <1> QED
    BY <1>1, <1>2, SizeAssumption DEF After

(* A buffer holds at most Capacity elements, in order, and available()     *)
(* says whether it holds one.                                              *)
LEMMA CountIsLength ==
  ASSUME NEW T, NEW b \in Buffers(T)
  PROVE  /\ Count(b) \in 0 .. Size - 2
         /\ Contents(b) \in Seq(T) /\ Len(Contents(b)) = Count(b)
         /\ \A i \in 1 .. Count(b) : Cell(b, i) \in 0 .. Size - 2
         /\ available(b) <=> Contents(b) # <<>>
  <1>1. Count(b) \in 0 .. Size - 2
    BY SizeAssumption DEF Count, Buffers
  <1>2. \A i \in 1 .. Count(b) : Cell(b, i) \in 0 .. Size - 2
    BY <1>1, SizeAssumption DEF Cell, Count, Buffers
  <1>3. \A i \in 1 .. Count(b) : b.buf[Cell(b, i)] \in T
    BY <1>2, SizeAssumption DEF Buffers
  <1>4. Contents(b) \in [1 .. Count(b) -> T]
    BY <1>3 DEF Contents
  <1>5. Contents(b) \in Seq(T) /\ Len(Contents(b)) = Count(b)
    BY <1>1, <1>4, SMT
  <1>6. available(b) <=> Count(b) # 0
    BY SizeAssumption DEF Count, available, Buffers
  <1> QED
    BY <1>1, <1>2, <1>5, <1>6, EmptySeq

(* put() to a buffer that is not full appends: its FIFO law. *)
LEMMA PutAppends ==
  ASSUME NEW T, NEW b \in Buffers(T), NEW d \in T, Count(b) < Capacity
  PROVE  /\ put(b, d) \in Buffers(T)
         /\ Contents(put(b, d)) = Append(Contents(b), d)
         /\ Count(put(b, d)) = Count(b) + 1
  <1> DEFINE c == put(b, d)
  <1>1. /\ c.buf = [b.buf EXCEPT ![b.wloc] = d]
        /\ c.wloc = After(b.wloc) /\ c.rloc = b.rloc
    BY DEF put, Buffers
  <1>2. c \in Buffers(T)
    BY AfterWraps, SizeAssumption DEF put, Buffers
  <1> HIDE DEF c
  <1>l. /\ b.wloc \in 0 .. Size - 2 /\ b.rloc \in 0 .. Size - 2
        /\ c.wloc = IF b.wloc = Size - 2 THEN 0 ELSE b.wloc + 1
    BY <1>1, AfterWraps DEF Buffers
  <1>3. Count(c) = Count(b) + 1
    BY <1>1, <1>l, SizeAssumption DEF Count, Capacity
  <1>4. \A i \in 1 .. Count(b) + 1 : Cell(c, i) = Cell(b, i)
    BY <1>1 DEF Cell
  <1>5. \A i \in 1 .. Count(b) : Cell(b, i) # b.wloc
    BY SizeAssumption DEF Count, Cell, Buffers
  <1>6. Cell(b, Count(b) + 1) = b.wloc
    BY SizeAssumption DEF Count, Cell, Buffers, Capacity
  <1>7. \A i \in 1 .. Count(b) + 1 :
          c.buf[Cell(c, i)] = IF i = Count(b) + 1 THEN d ELSE b.buf[Cell(b, i)]
    <2> TAKE i \in 1 .. Count(b) + 1
    <2>1. Count(b) \in Nat /\ b.wloc \in 0 .. Size - 1 /\ DOMAIN b.buf = 0 .. Size - 1
      BY CountIsLength, SizeAssumption DEF Buffers
    <2>2. CASE i = Count(b) + 1
      BY <2>1, <2>2, <1>1, <1>4, <1>6
    <2>3. CASE i # Count(b) + 1
      <3>1. i \in 1 .. Count(b)
        BY <2>1, <2>3
      <3>2. Cell(b, i) \in 0 .. Size - 1
        BY <3>1, CountIsLength, SizeAssumption
      <3> QED
        BY <2>1, <2>3, <3>1, <3>2, <1>1, <1>4, <1>5
    <2> QED
      BY <2>2, <2>3
  <1>8. Contents(c) = Append(Contents(b), d)
    <2>1. /\ Contents(c) \in Seq(T) /\ Len(Contents(c)) = Count(b) + 1
          /\ Contents(b) \in Seq(T) /\ Len(Contents(b)) = Count(b) /\ Count(b) \in Nat
      BY <1>2, <1>3, CountIsLength
    <2>2. \A i \in 1 .. Count(b) + 1 : Contents(c)[i] = Append(Contents(b), d)[i]
      <3> TAKE i \in 1 .. Count(b) + 1
      <3>1. Contents(c)[i] = c.buf[Cell(c, i)]
        BY <1>3 DEF Contents
      <3>2. i \in 1 .. Count(b) => Contents(b)[i] = b.buf[Cell(b, i)]
        BY DEF Contents
      <3> QED
        BY <3>1, <3>2, <1>7, <2>1, AppendProperties
    <2>3. Append(Contents(b), d) \in Seq(T) /\ Len(Append(Contents(b), d)) = Count(b) + 1
      BY <2>1, AppendProperties
    <2> QED
      BY <2>1, <2>2, <2>3, SeqEqual
  <1> QED
    BY <1>2, <1>3, <1>8 DEF c

(* get() takes the oldest element and leaves the others. *)
LEMMA TakenIsTail ==
  ASSUME NEW T, NEW b \in Buffers(T), available(b)
  PROVE  /\ Taken(b) \in Buffers(T)
         /\ get(b) = Head(Contents(b)) /\ get(b) \in T
         /\ Contents(Taken(b)) = Tail(Contents(b))
  <1> DEFINE c == Taken(b)
  <1>1. c.buf = b.buf /\ c.wloc = b.wloc /\ c.rloc = After(b.rloc)
    BY DEF Taken, Buffers
  <1>2. c \in Buffers(T)
    BY AfterWraps, SizeAssumption DEF Taken, Buffers
  <1> HIDE DEF c
  <1>l. /\ b.wloc \in 0 .. Size - 2 /\ b.rloc \in 0 .. Size - 2
        /\ c.rloc = IF b.rloc = Size - 2 THEN 0 ELSE b.rloc + 1
    BY <1>1, AfterWraps DEF Buffers
  <1>3. Count(b) > 0 /\ Count(c) = Count(b) - 1
    BY <1>1, <1>l, SizeAssumption DEF Count, available
  <1>4. \A i \in 1 .. Count(c) : Cell(c, i) = Cell(b, i + 1)
    BY <1>1, <1>l, <1>3, SizeAssumption DEF Cell, Count
  <1>5. Cell(b, 1) = b.rloc
    BY SizeAssumption DEF Cell, Buffers
  <1>6. /\ Contents(c) \in Seq(T) /\ Len(Contents(c)) = Count(b) - 1
        /\ Contents(b) \in Seq(T) /\ Len(Contents(b)) = Count(b) /\ Count(b) \in Nat
        /\ Contents(b) # <<>>
    BY <1>2, <1>3, CountIsLength
  <1>7. get(b) = Head(Contents(b)) /\ get(b) \in T
    <2>1. Contents(b)[1] = b.buf[b.rloc]
      BY <1>3, <1>5, <1>6 DEF Contents
    <2> QED
      BY <2>1, <1>6, <1>3, ElementOfSeq DEF get
  <1>8. Contents(c) = Tail(Contents(b))
    <2>1. /\ Tail(Contents(b)) \in Seq(T) /\ Len(Tail(Contents(b))) = Count(b) - 1
          /\ \A i \in 1 .. Count(b) - 1 : Tail(Contents(b))[i] = Contents(b)[i + 1]
      BY <1>6, HeadTailProperties
    <2>2. \A i \in 1 .. Count(b) - 1 : Contents(c)[i] = Tail(Contents(b))[i]
      <3> TAKE i \in 1 .. Count(b) - 1
      <3>1. Contents(c)[i] = c.buf[Cell(c, i)]
        BY <1>3 DEF Contents
      <3>2. i + 1 \in 1 .. Count(b)
        BY <1>6
      <3>3. Contents(b)[i + 1] = b.buf[Cell(b, i + 1)]
        BY <3>2 DEF Contents
      <3> QED
        BY <3>1, <3>3, <2>1, <1>1, <1>3, <1>4
    <2> QED
      BY <1>6, <2>1, <2>2, SeqEqual
  <1> QED
    BY <1>2, <1>7, <1>8 DEF c

(* clear() and flush() empty the buffer. *)
LEMMA Emptying ==
  ASSUME NEW T
  PROVE  /\ \A z \in T : clear(z) \in Buffers(T) /\ Contents(clear(z)) = <<>>
         /\ \A b \in Buffers(T) : Flushed(b) \in Buffers(T) /\ Contents(Flushed(b)) = <<>>
  <1>1. \A z \in T : clear(z) \in Buffers(T) /\ ~available(clear(z))
    BY SizeAssumption DEF clear, Buffers, available
  <1>2. \A b \in Buffers(T) : Flushed(b) \in Buffers(T) /\ ~available(Flushed(b))
    BY SizeAssumption DEF Flushed, Buffers, available
  <1> QED
    BY <1>1, <1>2, CountIsLength

-----------------------------------------------------------------------------
(* The invariant *)

Phases == {"ready", "busy", "answer", "pause"}

Pcs == {"idle", "fill", "wait_high", "txIrq", "recv", "wait_rising", "expired",
        "read", "scan", "drain", "take"}

FormatLists ==
  {<<>>, <<"line">>, <<"prompt">>, <<"OK", "prompt">>, <<"line", "OK", "prompt">>}

WifiType == [phase : Phases, of : Numbers, out : Seq(Lines \X Lines)]

OpType == [n : Numbers, kind : Kinds, formats : FormatLists, ok : BOOLEAN]

TraceType ==
  [wire : Seq(Numbers), sent : BOOLEAN, from : SUBSET Numbers,
   unread : Seq(Lines), stale : BOOLEAN, executed : {-1} \union Numbers]

Typed ==
  /\ tx \in Buffers(Numbers) /\ rx \in Buffers(Lines)
  /\ event \in {0, 1}
  /\ wifi \in WifiType
  /\ pc \in Pcs
  /\ op \in OpType
  /\ len \in 0 .. Size + SendLen /\ first \in BOOLEAN
  /\ data \in Seq(Lines)
  /\ trace \in TraceType

(* Where nothing was transmitted for the operation yet. *)
Preparing == {"fill", "wait_high", "txIrq"}

(* The module, its pin and the operation.                                  *)
(* The last conjunct is of an answer that the module dropped the command   *)
(* for: its rise is over and the driver waits for the time-out.            *)
Handshake ==
  /\ op.kind = "reset" => op.n = 0
  /\ pc \in Preparing => ~trace.sent
  /\ pc \notin Preparing \union {"idle"} /\ op.kind # "send" => trace.sent
  /\ wifi.of <= op.n
  /\ ~trace.sent => wifi.of < op.n
  /\ IF wifi.phase = "busy" THEN trace.executed < wifi.of ELSE trace.executed = wifi.of
  /\ pc = "txIrq" \/ (pc = "fill" /\ op.kind # "send") => event = 1 /\ DataReady
  /\ wifi.phase = "answer" /\ wifi.of = op.n /\ trace.sent => event = 0
  /\ trace.sent /\ wifi.of # op.n /\ pc # "idle" =>
       /\ wifi.phase = "answer" /\ event = 1 /\ trace.unread = <<>>
       /\ pc \in {"recv", "wait_rising", "expired"}

(* The formats that recv has yet to match, where their order matters.      *)
Parsing ==
  /\ pc # "idle" => ~op.ok
  /\ pc = "scan" => op.kind # "receive"
  /\ pc = "take" => op.kind = "receive"
  /\ pc = "drain" => op.kind \in {"command", "send", "query"}
  /\ pc \notin {"idle", "drain"} /\ op.kind \in {"reset", "command", "send", "query"} =>
       /\ op.formats \in {<<"line", "OK", "prompt">>, <<"OK", "prompt">>, <<"prompt">>}
       /\ op.kind = "reset" => op.formats = <<"prompt">>

(* How much is unread. *)
Unread ==
  /\ Contents(rx) = trace.unread
  /\ pc \in Preparing \union {"idle", "wait_rising", "expired"} => trace.unread = <<>>
  /\ pc = "recv" /\ op.kind = "receive" => trace.unread = <<>>
  /\ pc = "read" => len = Len(trace.unread) /\ len % 2 = 0 /\ len <= Burst
  /\ pc = "take" => len = Len(trace.unread)

(* Only padding follows a prompt, and the prompt of the reset is the last. *)
PromptIsLast(s) ==
  \A i, j \in 1 .. Len(s) : i < j /\ s[i].is = "prompt" => s[j].is = "pad" /\ s[i].of # 0

Pads(s) == \A i \in 1 .. Len(s) : s[i].is = "pad"

NoPrompt(s) == \A i \in 1 .. Len(s) : s[i].is # "prompt"

(* So it is in what is left of an answer, which is one command's.          *)
AnswerOf(n, out) ==
  \A k \in 1 .. Len(out) :
    /\ out[k][1].of = n /\ out[k][2].of = n
    /\ out[k][1].is = "prompt" => k = Len(out) /\ out[k][2].is = "pad" /\ n # 0
    /\ out[k][2].is = "prompt" => k = Len(out)

(* What the lines are.  *)
Shape ==
  /\ wifi.phase = "answer" <=> wifi.out # <<>>
  /\ AnswerOf(wifi.of, wifi.out)
  /\ PromptIsLast(trace.unread)
  /\ pc = "read" /\ wifi.phase = "answer" => NoPrompt(trace.unread)
  /\ pc = "read" /\ wifi.phase = "ready" => Pads(trace.unread)
  /\ pc = "read" /\ wifi.phase = "busy" => trace.unread = <<>>
  /\ pc = "drain" => Pads(trace.unread)

(* Whose they are. *)
Owners ==
  /\ \A i \in 1 .. Len(trace.unread) : trace.unread[i].of <= trace.executed
  /\ trace.sent /\ pc # "idle" =>
       /\ \A i \in 1 .. Len(trace.unread) : trace.unread[i].of = op.n
       /\ trace.from \subseteq {op.n}
  /\ pc = "take" => \A i \in 1 .. Len(data) : data[i].of = op.n
  /\ pc = "take" /\ data # <<>> => op.n <= trace.executed
  /\ pc # "take" /\ pc # "idle" => data = <<>>
  /\ pc \in Preparing \/ (pc # "idle" /\ op.kind = "receive") => trace.from = {}
  /\ pc = "drain" => trace.from # {}

(* The bytes of the operation, each of which is its number. *)
Copies(k) == [i \in 1 .. k |-> op.n]

(* The transmit buffer, unless a send's bytes were left in it.             *)
Wire ==
  /\ pc \in {"fill", "wait_high"} => trace.wire = <<>>
  /\ pc = "fill" => len < Length(op.kind)
  /\ pc = "wait_high" /\ op.kind # "send" => len = 0
  /\ pc \in Preparing /\ op.kind # "send" => ~trace.stale
  /\ pc \notin Preparing /\ (trace.sent \/ ~trace.stale) => Contents(tx) = <<>>
  /\ ~trace.stale =>
       /\ pc = "fill" => Contents(tx) = Copies(len)
       /\ pc = "wait_high" =>
            Contents(tx) = Copies(IF op.kind = "send" THEN SendLen ELSE 0)
       /\ pc = "txIrq" => trace.wire \o Contents(tx) = Copies(Length(op.kind))
       /\ trace.sent /\ op.kind # "reset" => trace.wire = Copies(Length(op.kind))

(* The inductive invariant. *)
IInv == Typed /\ Handshake /\ Parsing /\ Unread /\ Shape /\ Owners /\ Wire

-----------------------------------------------------------------------------
(* What the parts say together *)

(* What the parser gets is the oldest line that the module delivered and   *)
(* the parser has not consumed.                                            *)
LEMMA RxIsUnread ==
  ASSUME Typed, Unread
  PROVE  /\ trace.unread \in Seq(Lines) /\ Len(trace.unread) \in Nat
         /\ trace.unread = <<>> <=> Len(trace.unread) = 0
         /\ available(rx) <=> trace.unread # <<>>
         /\ available(rx) => /\ get(rx) = Head(trace.unread) /\ get(rx) = trace.unread[1]
                             /\ get(rx) \in Lines /\ get(rx).of \in Numbers
                             /\ Taken(rx) \in Buffers(Lines)
                             /\ Contents(Taken(rx)) = Tail(trace.unread)
                             /\ Tail(trace.unread) \in Seq(Lines)
                             /\ Len(Tail(trace.unread)) = Len(trace.unread) - 1
                             /\ \A i \in 1 .. Len(Tail(trace.unread)) :
                                  Tail(trace.unread)[i] = trace.unread[i + 1]
         /\ Flushed(rx) \in Buffers(Lines) /\ Contents(Flushed(rx)) = <<>>
         /\ available(rx) => /\ Flushed(Taken(rx)) \in Buffers(Lines)
                             /\ Contents(Flushed(Taken(rx))) = <<>>
         /\ <<>> \in Seq(Lines) /\ Len(<<>>) = 0
  <1>1. trace.unread \in Seq(Lines) /\ rx \in Buffers(Lines) /\ Contents(rx) = trace.unread
    BY DEF Typed, WifiType, OpType, TraceType, Unread
  <1>2. /\ Len(trace.unread) \in Nat /\ trace.unread = <<>> <=> Len(trace.unread) = 0
        /\ <<>> \in Seq(Lines) /\ Len(<<>>) = 0
    BY <1>1, EmptySeq, LenProperties
  <1>3. available(rx) <=> trace.unread # <<>>
    BY <1>1, CountIsLength
  <1>4. ASSUME available(rx)
        PROVE  /\ get(rx) = Head(trace.unread) /\ get(rx) \in Lines
               /\ Taken(rx) \in Buffers(Lines)
               /\ Contents(Taken(rx)) = Tail(trace.unread)
    BY <1>1, <1>4, TakenIsTail
  <1>5. ASSUME available(rx)
        PROVE  /\ Tail(trace.unread) \in Seq(Lines)
               /\ Len(Tail(trace.unread)) = Len(trace.unread) - 1
               /\ \A i \in 1 .. Len(Tail(trace.unread)) :
                     Tail(trace.unread)[i] = trace.unread[i + 1]
               /\ Head(trace.unread) = trace.unread[1]
    BY <1>1, <1>3, <1>5, HeadTailProperties
  <1>6. ASSUME available(rx) PROVE get(rx).of \in Numbers
    BY <1>4, <1>6 DEF Lines
  <1>7. /\ Flushed(rx) \in Buffers(Lines) /\ Contents(Flushed(rx)) = <<>>
        /\ available(rx) => /\ Flushed(Taken(rx)) \in Buffers(Lines)
                            /\ Contents(Flushed(Taken(rx))) = <<>>
    BY <1>1, <1>4, Emptying
  <1> QED
    BY <1>1, <1>2, <1>3, <1>4, <1>5, <1>6, <1>7

(* The formats of a command, one after the other. *)
LEMMA FormatsLeft ==
  /\ Tail(<<"line", "OK", "prompt">>) = <<"OK", "prompt">>
  /\ Tail(<<"OK", "prompt">>) = <<"prompt">>
  /\ Tail(<<"prompt">>) = <<>>
  /\ <<"line", "OK", "prompt">> # <<>> /\ <<"OK", "prompt">> # <<>> /\ <<"prompt">> # <<>>
  /\ Head(<<"line", "OK", "prompt">>) = "line" /\ Head(<<"OK", "prompt">>) = "OK"
  /\ Head(<<"prompt">>) = "prompt"
  OBVIOUS

(* Every operation begins with formats that some step can be at. *)
LEMMA FormatsTyped ==
  \A kind \in Kinds : Formats(kind) \in FormatLists
  BY DEF Kinds, Formats, FormatLists

(* Words of two bytes fill an even buffer without running over its last. *)
LEMMA EvenSteps ==
  ASSUME NEW s \in Nat, NEW l \in Nat, s % 2 = 0, l % 2 = 0, l < s - 2
  PROVE  l + 2 <= s - 2 /\ (l + 2) % 2 = 0
  <1>1. PICK x \in Nat : s = 2 * x
    BY SMT
  <1>2. PICK y \in Nat : l = 2 * y
    BY SMT
  <1> QED
    BY <1>1, <1>2, SMT

(* A command or a payload fits in the transmit buffer. *)
LEMMA LengthFits ==
  \A kind \in Kinds :
    Length(kind) \in Nat /\ Length(kind) <= Capacity /\ Length(kind) <= SendLen + Size
  BY TransportAssumption, SizeAssumption DEF Length, Capacity

(* The transmit buffer holds numbers of operations, whatever is put to it  *)
(* or taken.                                                               *)
LEMMA TxTyped ==
  ASSUME Typed
  PROVE  /\ Emptied(tx) \in Buffers(Numbers) /\ Contents(Emptied(tx)) = <<>>
         /\ put(tx, op.n) \in Buffers(Numbers)
         /\ available(tx) => /\ Taken(tx) \in Buffers(Numbers) /\ get(tx) \in Numbers
                             /\ available(Taken(tx)) => /\ Taken(Taken(tx)) \in Buffers(Numbers)
                                                        /\ get(Taken(tx)) \in Numbers
  <1>1. 0 \in Numbers /\ op.n \in Numbers /\ tx \in Buffers(Numbers)
    BY TransportAssumption DEF Typed, WifiType, OpType, TraceType, Numbers
  <1>2. Emptied(tx) \in Buffers(Numbers) /\ Contents(Emptied(tx)) = <<>>
    BY <1>1, Emptying DEF Emptied
  <1>3. put(tx, op.n) \in Buffers(Numbers)
    BY <1>1, AfterWraps, SizeAssumption DEF put, Buffers
  <1>4. ASSUME available(tx) PROVE Taken(tx) \in Buffers(Numbers) /\ get(tx) \in Numbers
    BY <1>1, <1>4, TakenIsTail
  <1>5. ASSUME available(tx), available(Taken(tx))
        PROVE  Taken(Taken(tx)) \in Buffers(Numbers) /\ get(Taken(tx)) \in Numbers
    BY <1>4, <1>5, TakenIsTail
  <1> QED
    BY <1>2, <1>3, <1>4, <1>5

(* Two puts append a word. *)
LEMMA TwoPuts ==
  ASSUME NEW T, NEW b \in Buffers(T), NEW c \in T, NEW d \in T, Count(b) + 2 <= Capacity
  PROVE  /\ put(put(b, c), d) \in Buffers(T)
         /\ Contents(put(put(b, c), d)) = Contents(b) \o <<c, d>>
  <1>0. Count(b) \in Nat /\ Contents(b) \in Seq(T)
    BY CountIsLength
  <1>1. /\ put(b, c) \in Buffers(T) /\ Contents(put(b, c)) = Append(Contents(b), c)
        /\ Count(put(b, c)) = Count(b) + 1
    BY <1>0, SizeAssumption, PutAppends DEF Capacity
  <1>2. /\ put(put(b, c), d) \in Buffers(T)
        /\ Contents(put(put(b, c), d)) = Append(Append(Contents(b), c), d)
    BY <1>0, <1>1, SizeAssumption, PutAppends DEF Capacity
  <1>3. Append(Append(Contents(b), c), d) = Contents(b) \o <<c, d>>
    BY <1>0
  <1> QED
    BY <1>2, <1>3

(* What appending a word means for the elements. *)
LEMMA ConcatTwo ==
  ASSUME NEW T, NEW s \in Seq(T), NEW a \in T, NEW b \in T
  PROVE  /\ s \o <<a, b>> \in Seq(T)
         /\ Len(s \o <<a, b>>) = Len(s) + 2
         /\ \A i \in 1 .. Len(s) + 2 :
              (s \o <<a, b>>)[i] = IF i <= Len(s) THEN s[i] ELSE IF i = Len(s) + 1 THEN a ELSE b
  <1>1. <<a, b>> \in Seq(T) /\ Len(<<a, b>>) = 2 /\ <<a, b>>[1] = a /\ <<a, b>>[2] = b
    OBVIOUS
  <1>2. Len(s) \in Nat
    OBVIOUS
  <1>3. /\ s \o <<a, b>> \in Seq(T)
        /\ Len(s \o <<a, b>>) = Len(s) + 2
        /\ \A i \in 1 .. Len(s) + 2 :
             (s \o <<a, b>>)[i] = IF i <= Len(s) THEN s[i] ELSE <<a, b>>[i - Len(s)]
    BY <1>1, ConcatProperties
  <1>4. ASSUME NEW i \in 1 .. Len(s) + 2
        PROVE  (s \o <<a, b>>)[i] = IF i <= Len(s) THEN s[i] ELSE IF i = Len(s) + 1 THEN a ELSE b
    <2>1. CASE i <= Len(s)
      BY <1>3, <2>1
    <2>2. CASE i = Len(s) + 1
      BY <1>1, <1>2, <1>3, <2>2
    <2>3. CASE i = Len(s) + 2
      BY <1>1, <1>2, <1>3, <2>3
    <2> QED
      BY <1>2, <2>1, <2>2, <2>3
  <1> QED
    BY <1>3, <1>4

(* A word of the answer, or of padding, is appended to what is unread.     *)
Appends(a, b) ==
  /\ a.of = wifi.of /\ b.of = wifi.of
  /\ IF wifi.out = <<>> THEN a.is = "pad" /\ b.is = "pad"
                        ELSE a = wifi.out[1][1] /\ b = wifi.out[1][2]
  /\ rx' \in Buffers(Lines) /\ Contents(rx') = trace.unread \o <<a, b>>
  /\ trace' = [trace EXCEPT !.unread = @ \o <<a, b>>]
  /\ trace.unread \o <<a, b>> \in Seq(Lines)
  /\ Len(trace.unread \o <<a, b>>) = Len(trace.unread) + 2
  /\ \A i \in 1 .. Len(trace.unread) + 2 :
       (trace.unread \o <<a, b>>)[i] = IF i <= Len(trace.unread) THEN trace.unread[i]
                                       ELSE IF i = Len(trace.unread) + 1 THEN a ELSE b
  /\ len' = len + 2 /\ len' <= Burst /\ len' % 2 = 0

(* So does a step of read, or it drops the CRLF before an answer; the      *)
(* module has one word less to deliver, and pauses after the last.         *)
LEMMA ReadWord ==
  ASSUME IInv, read
  PROVE  /\ UNCHANGED <<rx, len, trace>> \/ \E a, b \in Lines : Appends(a, b)
         /\ IF wifi.out = <<>> THEN UNCHANGED wifi /\ wifi.phase = "ready"
            ELSE /\ Tail(wifi.out) \in Seq(Lines \X Lines)
                 /\ Len(Tail(wifi.out)) = Len(wifi.out) - 1
                 /\ \A k \in 1 .. Len(wifi.out) - 1 : Tail(wifi.out)[k] = wifi.out[k + 1]
                 /\ wifi' = [wifi EXCEPT !.out = Tail(@),
                               !.phase = IF Tail(wifi.out) = <<>> THEN "pause" ELSE @]
                 /\ wifi.phase = "answer"
  <1> DEFINE word == IF wifi.out = <<>> THEN Padding ELSE Head(wifi.out)
             dropped == len = 0 /\ word = CRLF(wifi.of) /\ first
  <1>1. /\ pc = "read" /\ DataReady /\ len < Burst
        /\ dropped => UNCHANGED <<rx, len, trace>>
        /\ ~dropped => /\ rx' = put(put(rx, word[1]), word[2])
                       /\ len' = len + 2
                       /\ trace' = [trace EXCEPT !.unread = @ \o word]
        /\ wifi' = IF wifi.out = <<>> THEN wifi
                   ELSE [wifi EXCEPT !.out = Tail(@),
                                     !.phase = IF Tail(wifi.out) = <<>> THEN "pause" ELSE @]
    BY DEF read
  <1>2. /\ wifi.phase \in Phases /\ wifi.of \in Numbers /\ wifi.out \in Seq(Lines \X Lines)
        /\ wifi.phase = "answer" <=> wifi.out # <<>>
        /\ len \in Nat /\ len % 2 = 0 /\ len = Len(trace.unread) /\ trace.unread \in Seq(Lines)
        /\ rx \in Buffers(Lines) /\ Contents(rx) = trace.unread
    BY <1>1 DEF IInv, Typed, WifiType, OpType, TraceType, Shape, Unread
  <1>3. ASSUME wifi.out # <<>>
        PROVE  /\ Tail(wifi.out) \in Seq(Lines \X Lines)
               /\ Len(Tail(wifi.out)) = Len(wifi.out) - 1
               /\ \A k \in 1 .. Len(wifi.out) - 1 : Tail(wifi.out)[k] = wifi.out[k + 1]
               /\ word = wifi.out[1] /\ word \in Lines \X Lines /\ 1 \in 1 .. Len(wifi.out)
    BY <1>2, <1>3, HeadTailProperties
  <1>4. ASSUME wifi.out = <<>>
        PROVE  /\ word = <<Line(wifi.of, "pad"), Line(wifi.of, "pad")>>
               /\ wifi.phase = "ready" /\ Line(wifi.of, "pad") \in Lines
               /\ Line(wifi.of, "pad").of = wifi.of /\ Line(wifi.of, "pad").is = "pad"
    BY <1>1, <1>2, <1>4 DEF Padding, Line, Lines, DataReady
  <1> HIDE DEF word
  <1>5. word \in Lines \X Lines /\ word[1].of = wifi.of /\ word[2].of = wifi.of
    BY <1>3, <1>4 DEF IInv, Shape, AnswerOf
  <1>6. PICK a \in Lines, b \in Lines : word = <<a, b>>
    BY <1>5
  <1>7. /\ a.of = wifi.of /\ b.of = wifi.of
        /\ IF wifi.out = <<>> THEN a.is = "pad" /\ b.is = "pad"
                              ELSE a = wifi.out[1][1] /\ b = wifi.out[1][2]
    BY <1>3, <1>4, <1>5, <1>6
  <1>8. ASSUME ~dropped PROVE Appends(a, b)
    <2>1. len + 2 <= Burst /\ (len + 2) % 2 = 0
      BY <1>1, <1>2, EvenSteps, TransportAssumption, SizeAssumption DEF Burst
    <2>2. Count(rx) = len
      BY <1>2, CountIsLength
    <2>3. rx' = put(put(rx, a), b)
      BY <1>1, <1>6, <1>8
    <2>4. rx' \in Buffers(Lines) /\ Contents(rx') = trace.unread \o <<a, b>>
      BY <2>1, <2>2, <2>3, <1>2, TwoPuts DEF Burst, Capacity
    <2>5. /\ trace.unread \o <<a, b>> \in Seq(Lines)
          /\ Len(trace.unread \o <<a, b>>) = Len(trace.unread) + 2
          /\ \A i \in 1 .. Len(trace.unread) + 2 :
               (trace.unread \o <<a, b>>)[i] = IF i <= Len(trace.unread) THEN trace.unread[i]
                                               ELSE IF i = Len(trace.unread) + 1 THEN a ELSE b
      BY <1>2, ConcatTwo
    <2> QED
      BY <2>1, <2>4, <2>5, <1>1, <1>6, <1>7, <1>8 DEF Appends
  <1>9. UNCHANGED <<rx, len, trace>> \/ \E c, d \in Lines : Appends(c, d)
    <2> HIDE DEF dropped
    <2>1. CASE dropped
      BY <2>1, <1>1
    <2>2. CASE ~dropped
      BY <2>2, <1>8
    <2> QED
      BY <2>1, <2>2
  <1>10. CASE wifi.out = <<>>
    BY <1>1, <1>4, <1>9, <1>10
  <1>11. CASE wifi.out # <<>>
    BY <1>1, <1>2, <1>3, <1>9, <1>11
  <1> QED
    BY <1>10, <1>11

(* What consuming a line changes of the history. *)
LEMMA ConsumedFields ==
  ASSUME Typed, Unread, available(rx)
  PROVE  /\ Consumed \in TraceType /\ Accepted \in TraceType
         /\ Consumed.unread = Tail(trace.unread) /\ Accepted.unread = Tail(trace.unread)
         /\ Consumed.from = trace.from /\ Accepted.from = trace.from \union {get(rx).of}
         /\ Consumed.wire = trace.wire /\ Accepted.wire = trace.wire
         /\ Consumed.sent = trace.sent /\ Accepted.sent = trace.sent
         /\ Consumed.stale = trace.stale /\ Accepted.stale = trace.stale
         /\ Consumed.executed = trace.executed /\ Accepted.executed = trace.executed
         /\ [Accepted EXCEPT !.unread = <<>>] =
               [trace EXCEPT !.from = trace.from \union {get(rx).of}, !.unread = <<>>]
  <1>1. /\ trace \in TraceType /\ Tail(trace.unread) \in Seq(Lines) /\ get(rx).of \in Numbers
    BY RxIsUnread DEF Typed, TraceType, OpType, WifiType
  <1>2. Consumed = [trace EXCEPT !.unread = Tail(trace.unread)]
    BY <1>1 DEF Consumed, TraceType
  <1>3. Accepted = [trace EXCEPT !.unread = Tail(trace.unread),
                                 !.from = trace.from \union {get(rx).of}]
    BY <1>1, <1>2 DEF Accepted, TraceType
  <1> QED
    BY <1>1, <1>2, <1>3 DEF TraceType

(* Whose lines are left when one is consumed, and whose it is. *)
LEMMA ConsumedOwners ==
  ASSUME Typed, Unread, Owners, available(rx)
  PROVE  /\ \A i \in 1 .. Len(Tail(trace.unread)) :
              /\ Tail(trace.unread)[i].of <= trace.executed
              /\ trace.sent /\ pc # "idle" => Tail(trace.unread)[i].of = op.n
         /\ get(rx).of <= trace.executed
         /\ trace.sent /\ pc # "idle" => get(rx).of = op.n
  <1>1. /\ Len(trace.unread) \in Nat /\ Len(trace.unread) # 0 /\ get(rx) = trace.unread[1]
        /\ Len(Tail(trace.unread)) = Len(trace.unread) - 1
        /\ \A i \in 1 .. Len(Tail(trace.unread)) : Tail(trace.unread)[i] = trace.unread[i + 1]
    BY RxIsUnread
  <1>2. /\ 1 \in 1 .. Len(trace.unread)
        /\ \A i \in 1 .. Len(Tail(trace.unread)) : i + 1 \in 1 .. Len(trace.unread)
    BY <1>1
  <1> QED
    BY <1>1, <1>2 DEF Owners

(* The unread lines are lines. *)
LEMMA UnreadLines ==
  ASSUME Typed
  PROVE  \A i \in 1 .. Len(trace.unread) :
           trace.unread[i] \in Lines /\ trace.unread[i].of \in Numbers
  <1>1. trace.unread \in Seq(Lines)
    BY DEF Typed, WifiType, OpType, TraceType
  <1>2. \A line \in Lines : line.of \in Numbers
    BY DEF Lines
  <1> QED
    BY <1>1, <1>2, ElementOfSeq

(* A prompt that comes first is followed by nothing but padding, the       *)
(* reset's by nothing.                                                     *)
LEMMA PromptFirst ==
  ASSUME NEW s \in Seq(Lines), s # <<>>, PromptIsLast(s), s[1].is = "prompt"
  PROVE  /\ Pads(Tail(s))
         /\ (\A i \in 1 .. Len(s) : s[i].of = 0) => Tail(s) = <<>>
  <1>1. /\ Len(s) \in Nat /\ Len(s) # 0
        /\ Tail(s) \in Seq(Lines) /\ Len(Tail(s)) = Len(s) - 1
        /\ \A i \in 1 .. Len(Tail(s)) : Tail(s)[i] = s[i + 1]
    BY HeadTailProperties, EmptySeq
  <1>2. /\ 1 \in 1 .. Len(s)
        /\ \A i \in 1 .. Len(Tail(s)) : i + 1 \in 1 .. Len(s) /\ 1 < i + 1
    BY <1>1
  <1>3. \A i \in 1 .. Len(Tail(s)) : Tail(s)[i].is = "pad" /\ s[1].of # 0
    <2> TAKE i \in 1 .. Len(Tail(s))
    <2>1. s[1].is = "prompt" /\ 1 < i + 1 /\ 1 \in 1 .. Len(s) /\ i + 1 \in 1 .. Len(s)
      BY <1>2
    <2>2. s[i + 1].is = "pad" /\ s[1].of # 0
      BY <2>1, Zenon DEF PromptIsLast
    <2> QED
      BY <2>2, <1>1
  <1>4. ASSUME \A i \in 1 .. Len(s) : s[i].of = 0 PROVE Len(Tail(s)) = 0
    <2>1. \A i \in 1 .. Len(Tail(s)) : FALSE
      BY <1>1, <1>2, <1>3, <1>4
    <2> QED
      BY <1>1, <2>1
  <1> QED
    BY <1>1, <1>3, <1>4, EmptySeq DEF Pads

(* Consuming a line keeps the order of those left. *)
LEMMA TailKeepsShape ==
  ASSUME NEW s \in Seq(Lines), s # <<>>
  PROVE  /\ PromptIsLast(s) => PromptIsLast(Tail(s))
         /\ Pads(s) => Pads(Tail(s))
  <1>1. /\ Len(s) \in Nat /\ Len(s) # 0
        /\ Tail(s) \in Seq(Lines) /\ Len(Tail(s)) = Len(s) - 1
        /\ \A i \in 1 .. Len(Tail(s)) : Tail(s)[i] = s[i + 1]
    BY HeadTailProperties, EmptySeq
  <1>2. \A i \in 1 .. Len(Tail(s)) : i + 1 \in 1 .. Len(s)
    BY <1>1
  <1>3. \A i, j \in 1 .. Len(Tail(s)) : i < j => i + 1 < j + 1
    BY <1>1
  <1> QED
    BY <1>1, <1>2, <1>3 DEF PromptIsLast, Pads

-----------------------------------------------------------------------------
(* Whose the lines are *)

(* A step that leaves the operation as it is and adds no line but the      *)
(* module's own.                                                           *)
LEMMA OwnersStay ==
  ASSUME Owners, op'.n = op.n, op'.kind = op.kind, data' = data,
         trace'.sent = trace.sent, trace'.executed = trace.executed,
         pc # "idle", pc # "take", pc' # "take",
         pc' \notin Preparing, pc \notin Preparing,
         \/ trace'.from = trace.from
         \/ /\ trace'.from \subseteq trace.from \union {op.n} \/ ~trace.sent
            /\ trace'.from # {} /\ op.kind # "receive",
         pc' = "drain" => trace'.from # {},
         \A i \in 1 .. Len(trace'.unread) :
           /\ trace'.unread[i].of <= trace.executed
           /\ trace.sent => trace'.unread[i].of = op.n
  PROVE  Owners'
  BY DEF Owners, Preparing

(* One line is consumed, or all that is left is dropped: those left are    *)
(* the same operation's.                                                   *)
LEMMA OwnersConsumed ==
  ASSUME IInv, scan_skip \/ scan_match \/ scan_join \/ scan_networks \/ drain
  PROVE  Owners'
  <1>1. Typed /\ Unread /\ Owners
    BY DEF IInv
  <1>2. available(rx) => trace' \in {Consumed, Accepted, [Accepted EXCEPT !.unread = <<>>]}
    BY DEF scan_skip, scan_match, scan_join, scan_networks, drain, Returns
  <1>3. ~available(rx) => trace' = trace /\ pc = "drain"
    BY DEF scan_skip, scan_match, scan_join, scan_networks, drain, Returns
  <1>4. /\ op'.n = op.n /\ op'.kind = op.kind /\ data' = data
        /\ pc \in {"scan", "drain"} /\ pc' \in {"scan", "recv", "idle", "drain"}
        /\ pc = "scan" => op.kind # "receive"
        /\ pc = "drain" => pc' \in {"drain", "idle"} /\ trace' \in {trace, Consumed}
        /\ pc' = "drain" => pc = "drain" \/ trace' = Accepted
    BY DEF scan_skip, scan_match, scan_join, scan_networks, drain, Returns,
           IInv, Typed, WifiType, OpType, TraceType, Parsing
  <1>5. CASE ~available(rx)
    BY <1>1, <1>3, <1>4, <1>5, OwnersStay DEF Owners, Preparing
  <1>6. CASE available(rx)
    <2>1. /\ trace'.sent = trace.sent /\ trace'.executed = trace.executed
          /\ trace'.unread \in {Tail(trace.unread), <<>>}
          /\ trace'.from \in {trace.from, trace.from \union {get(rx).of}}
          /\ trace'.from # trace.from => pc = "scan"
          /\ trace' = Accepted => trace'.from # {}
      BY <1>1, <1>2, <1>4, <1>6, ConsumedFields
         DEF Typed, TraceType, OpType, WifiType
    <2>2. \A i \in 1 .. Len(trace'.unread) :
            /\ trace'.unread[i].of <= trace.executed
            /\ trace.sent => trace'.unread[i].of = op.n
      <3>1. CASE trace'.unread = <<>>
        BY <3>1
      <3>2. CASE trace'.unread = Tail(trace.unread)
        BY <1>1, <1>4, <1>6, <3>2, ConsumedOwners
      <3> QED
        BY <2>1, <3>1, <3>2
    <2>3. trace.sent => get(rx).of = op.n
      BY <1>1, <1>4, <1>6, ConsumedOwners
    <2> QED
      BY <1>1, <1>4, <2>1, <2>2, <2>3, OwnersStay DEF Owners, Preparing
  <1> QED
    BY <1>5, <1>6

(* What the driver reads is the operation's, because an answer that is     *)
(* read is of the operation that the module was told last.                 *)
LEMMA OwnersRead ==
  ASSUME IInv, read
  PROVE  Owners'
  <1>1. /\ pc = "read" /\ pc' = "read" /\ UNCHANGED <<op, data>>
        /\ wifi.phase # "busy" /\ trace.executed = wifi.of
        /\ trace.sent => wifi.of = op.n
    BY ReadWord DEF read, IInv, Handshake
  <1>2. \A i \in 1 .. Len(trace.unread) : /\ trace.unread[i].of <= trace.executed
                                          /\ trace.sent => trace.unread[i].of = op.n
    BY <1>1 DEF IInv, Owners
  <1>3. Owners /\ Typed /\ wifi.of \in Nat
    BY DEF IInv, Typed, WifiType, OpType, TraceType, Numbers
  <1>4. CASE UNCHANGED <<rx, len, trace>>
    BY <1>1, <1>4, <1>3, <1>2, OwnersStay DEF Preparing
  <1>5. CASE ~UNCHANGED <<rx, len, trace>>
    <2>1. PICK a \in Lines, b \in Lines : Appends(a, b)
      BY <1>5, ReadWord
    <2> USE DEF Appends
    <2>2. /\ trace'.unread = trace.unread \o <<a, b>> /\ trace'.from = trace.from
          /\ trace'.sent = trace.sent /\ trace'.executed = trace.executed
      BY <2>1, <1>3 DEF Typed, WifiType, OpType, TraceType
    <2>3. Len(trace.unread) \in Nat
      BY <1>3 DEF Typed, WifiType, OpType, TraceType
    <2>4. \A i \in 1 .. Len(trace'.unread) :
            /\ trace'.unread[i].of <= trace.executed
            /\ trace.sent => trace'.unread[i].of = op.n
      <3> TAKE i \in 1 .. Len(trace'.unread)
      <3>1. i \in 1 .. Len(trace.unread) + 2
        BY <2>1, <2>2
      <3>2. CASE i <= Len(trace.unread)
        BY <3>1, <3>2, <2>1, <2>2, <2>3, <1>2
      <3>3. CASE ~(i <= Len(trace.unread))
        <4>1. trace'.unread[i] \in {a, b}
          BY <3>1, <3>3, <2>1, <2>2
        <4> QED
          BY <4>1, <2>1, <1>1, <1>3
      <3> QED
        BY <3>2, <3>3
    <2> QED
      BY <1>1, <1>3, <2>2, <2>4, OwnersStay DEF Preparing
  <1> QED
    BY <1>4, <1>5

(* recv() of a payload collects the operation's own lines. *)
LEMMA OwnersTake ==
  ASSUME IInv, take
  PROVE  Owners'
  <1>1. Typed /\ Unread /\ Owners /\ op.kind = "receive" /\ trace.sent /\ pc = "take"
    BY DEF IInv, take, Parsing, Handshake, Preparing
  <1>2. CASE ~available(rx)
    BY <1>1, <1>2
       DEF take, Returns, Owners, Preparing, Typed, WifiType, OpType,
           TraceType
  <1>3. CASE available(rx)
    <2>1. /\ data' = Append(data, get(rx)) /\ trace' = Consumed
          /\ UNCHANGED <<pc, op>>
      BY <1>3 DEF take
    <2>2. get(rx).of = op.n /\ op.n <= trace.executed /\ data \in Seq(Lines) /\ get(rx) \in Lines
      BY <1>1, <1>3, ConsumedOwners, RxIsUnread
         DEF Typed, WifiType, OpType, TraceType
    <2>3. /\ Len(data') = Len(data) + 1 /\ Len(data) \in Nat
          /\ \A i \in 1 .. Len(data) : data'[i] = data[i]
          /\ data'[Len(data) + 1] = get(rx)
      BY <2>1, <2>2, AppendProperties
    <2>4. \A i \in 1 .. Len(data') : data'[i].of = op.n
      <3> TAKE i \in 1 .. Len(data')
      <3>1. i \in 1 .. Len(data) \/ i = Len(data) + 1
        BY <2>3
      <3> QED
        BY <3>1, <2>2, <2>3, <1>1 DEF Owners
    <2>5. /\ trace'.sent = trace.sent /\ trace'.executed = trace.executed
          /\ trace'.unread = Tail(trace.unread) /\ trace'.from = trace.from
      BY <1>1, <1>3, <2>1, ConsumedFields
    <2>6. \A i \in 1 .. Len(trace'.unread) : /\ trace'.unread[i].of <= trace.executed
                                             /\ trace'.unread[i].of = op.n
      BY <1>1, <1>3, <2>5, ConsumedOwners
    <2> QED
      BY <1>1, <2>1, <2>2, <2>4, <2>5, <2>6 DEF Owners, Preparing
  <1> QED
    BY <1>2, <1>3

-----------------------------------------------------------------------------
(* In which order they come *)

(* A word without a prompt, and the last word of an answer.  *)
Plain(n, w) ==
  /\ w \in Lines \X Lines /\ w[1].of = n /\ w[2].of = n
  /\ w[1].is # "prompt" /\ w[2].is # "prompt"

Last(n, w) ==
  /\ w \in Lines \X Lines /\ w[1].of = n /\ w[2].of = n
  /\ w[1].is = "prompt" => w[2].is = "pad" /\ n # 0

(* Answers of two, three or four words are in order when only the last has *)
(* the prompt.                                                             *)
LEMMA WordsInOrder ==
  ASSUME NEW n, NEW x, NEW v, NEW w, NEW u,
         Last(n, x), Plain(n, v)
  PROVE  /\ <<v, x>> \in Seq(Lines \X Lines) /\ <<v, x>> # <<>> /\ AnswerOf(n, <<v, x>>)
         /\ Plain(n, w) => /\ <<v, w, x>> \in Seq(Lines \X Lines) /\ <<v, w, x>> # <<>>
                            /\ AnswerOf(n, <<v, w, x>>)
         /\ Plain(n, w) /\ Plain(n, u) =>
              /\ <<v, w, u, x>> \in Seq(Lines \X Lines) /\ <<v, w, u, x>> # <<>>
              /\ AnswerOf(n, <<v, w, u, x>>)
  <1>1. /\ <<v, x>> \in Seq(Lines \X Lines) /\ <<v, x>> # <<>> /\ AnswerOf(n, <<v, x>>)
    BY DEF Last, Plain, AnswerOf
  <1>2. ASSUME Plain(n, w)
        PROVE  /\ <<v, w, x>> \in Seq(Lines \X Lines) /\ <<v, w, x>> # <<>>
               /\ AnswerOf(n, <<v, w, x>>)
    BY <1>2 DEF Last, Plain, AnswerOf
  <1>3. ASSUME Plain(n, w), Plain(n, u)
        PROVE  /\ <<v, w, u, x>> \in Seq(Lines \X Lines) /\ <<v, w, u, x>> # <<>>
               /\ AnswerOf(n, <<v, w, u, x>>)
    BY <1>3 DEF Last, Plain, AnswerOf
  <1> QED
    BY <1>1, <1>2, <1>3

(* What the module says to a command is one answer, whose prompt is last. *)
LEMMA AnswersShape ==
  ASSUME NEW n \in Numbers, NEW out \in Answers(n)
  PROVE  /\ out \in Seq(Lines \X Lines) /\ out # <<>>
         /\ AnswerOf(n, out)
  <1> DEFINE word(a, b) == <<Line(n, a), Line(n, b)>>
  <1>1. \A a, b \in {"crlf", "text", "failed", "OK", ">", "prompt", "pad"} :
          /\ word(a, b) \in Lines \X Lines
          /\ word(a, b)[1].of = n /\ word(a, b)[2].of = n
          /\ word(a, b)[1].is = a /\ word(a, b)[2].is = b
    BY DEF Line, Lines
  <1>2. CRLF(n) = word("crlf", "crlf")
    BY DEF CRLF
  <1>3. IF n = 0 THEN out = << word("crlf", "crlf"), word(">", "prompt") >>
        ELSE \/ out = << word("crlf", "crlf"), word("OK", ">"), word("prompt", "pad") >>
             \/ out = << word("crlf", "crlf"), word("failed", ">"), word("prompt", "pad") >>
             \/ out = << word("crlf", "crlf"), word("text", "OK"), word(">", "prompt") >>
             \/ out = << word("crlf", "crlf"), word("text", "text"),
                         word("text", "OK"), word(">", "prompt") >>
    BY <1>2 DEF Answers
  <1> HIDE DEF word
  <1>4. /\ Plain(n, word("crlf", "crlf")) /\ Plain(n, word("OK", ">")) /\ Plain(n, word("failed", ">"))
        /\ Plain(n, word("text", "OK")) /\ Plain(n, word("text", "text"))
        /\ Last(n, word(">", "prompt"))
        /\ n # 0 => Last(n, word("prompt", "pad"))
    BY <1>1 DEF Plain, Last
  <1> QED
    BY <1>3, <1>4, WordsInOrder

(* A step that leaves the module alone and reads nothing keeps the order. *)
LEMMA ShapeStay ==
  ASSUME Shape, wifi' = wifi, pc' # "read", PromptIsLast(trace'.unread),
         pc' = "drain" => Pads(trace'.unread)
  PROVE  Shape'
  BY DEF Shape

(* An empty answer is in order. *)
LEMMA NothingHasShape ==
  /\ PromptIsLast(<<>>) /\ Pads(<<>>) /\ NoPrompt(<<>>)
  /\ \A n : AnswerOf(n, <<>>)
  BY DEF PromptIsLast, Pads, NoPrompt, AnswerOf

(* Lines are consumed, or dropped; what follows the prompt that ends the   *)
(* awaited formats is padding.                                             *)
LEMMA ShapeConsumed ==
  ASSUME IInv,
         \/ scan_skip \/ scan_match \/ scan_join \/ scan_networks
         \/ scan_next \/ scan_last \/ drain \/ take
  PROVE  Shape'
  <1>1. Typed /\ Unread /\ Shape /\ Parsing
    BY DEF IInv
  <1>2. /\ wifi' = wifi /\ pc' # "read"
    BY DEF scan_skip, scan_match, scan_join, scan_networks, scan_next,
           scan_last, drain, take,
           Returns, Starts
  <1>3. CASE ~available(rx)
    <2>1. trace' = trace /\ pc' # "drain"
      BY <1>3
         DEF scan_skip, scan_match, scan_join, scan_networks, scan_next,
             scan_last, drain, take,
           Returns
    <2> QED
      BY <1>1, <1>2, <2>1, ShapeStay DEF Shape
  <1>4. CASE available(rx)
    <2>1. /\ trace.unread \in Seq(Lines) /\ trace.unread # <<>>
          /\ get(rx) = trace.unread[1]
      BY <1>1, <1>4, RxIsUnread
    <2>2. trace'.unread \in {Tail(trace.unread), <<>>}
      <3>1. CASE scan_next
        BY <1>1, <3>1
           DEF scan_next, Started, Typed, WifiType, OpType, TraceType
      <3>2. CASE scan_last
        <4>1. trace' = [Accepted EXCEPT !.unread = <<>>]
          BY <3>2 DEF scan_last
        <4> QED
          BY <4>1, <1>1, <1>4, ConsumedFields DEF TraceType
      <3>3. ASSUME scan_skip \/ scan_match \/ scan_join \/ scan_networks \/ drain \/ take
            PROVE  trace' \in {Consumed, Accepted, [Accepted EXCEPT !.unread = <<>>]}
        BY <1>4, <3>3
           DEF scan_skip, scan_match, scan_join, scan_networks, drain, take
      <3>4. CASE scan_skip \/ scan_match \/ scan_join \/ scan_networks \/ drain \/ take
        BY <3>3, <3>4, <1>1, <1>4, ConsumedFields DEF TraceType
      <3> QED
        BY <3>1, <3>2, <3>4
    <2>3. PromptIsLast(trace'.unread)
      BY <1>1, <2>1, <2>2, TailKeepsShape, NothingHasShape DEF Shape
    <2>4. pc' = "drain" => pc = "drain" \/ get(rx).is = "prompt"
      <3>1. pc' = "drain" => pc = "drain" \/ scan_match
        BY DEF scan_skip, scan_join, scan_networks, scan_next, scan_last,
               drain, take, Returns, Starts
      <3>2. ASSUME scan_match, pc' = "drain" PROVE get(rx).is = "prompt"
        BY <3>2, <1>1, FormatsLeft
           DEF scan_match, Parsing, Matches, Kinds, Typed, WifiType, OpType,
               TraceType
      <3> QED
        BY <3>1, <3>2
    <2>5. pc' = "drain" => Pads(trace'.unread)
      <3>1. ASSUME pc' = "drain", pc = "drain" PROVE Pads(Tail(trace.unread))
        BY <1>1, <2>1, <3>1, TailKeepsShape DEF Shape
      <3>2. ASSUME get(rx).is = "prompt" PROVE Pads(Tail(trace.unread))
        BY <1>1, <2>1, <3>2, PromptFirst DEF Shape
      <3> QED
        BY <2>2, <2>4, <3>1, <3>2, NothingHasShape
    <2> QED
      BY <1>1, <1>2, <2>3, <2>5, ShapeStay
  <1> QED
    BY <1>3, <1>4

(* A word that is read keeps the order: nothing but padding comes after    *)
(* the prompt.                                                             *)
LEMMA ShapeRead ==
  ASSUME IInv, read
  PROVE  Shape'
  <1> DEFINE u == trace.unread
             out == wifi.out
  <1>1. pc = "read" /\ pc' = "read" /\ Typed /\ Shape
    BY DEF read, IInv
  <1>2. /\ u \in Seq(Lines) /\ Len(u) \in Nat
        /\ out \in Seq(Lines \X Lines) /\ Len(out) \in Nat
        /\ out # <<>> => Len(out) > 0
    BY <1>1, EmptySeq DEF Typed, WifiType, OpType, TraceType
  <1>3. /\ PromptIsLast(u) /\ AnswerOf(wifi.of, out)
        /\ wifi.phase = "answer" => NoPrompt(u)
        /\ wifi.phase = "ready" => Pads(u)
    BY <1>1 DEF Shape
  (* What is left of the answer. *)
  <1>4. /\ wifi'.phase = "answer" <=> wifi'.out # <<>>
        /\ AnswerOf(wifi'.of, wifi'.out)
        /\ wifi'.phase \in {"ready", "answer", "pause"}
        /\ wifi'.phase = "ready" => wifi.phase = "ready" /\ out = <<>>
        /\ wifi'.phase = "answer" => wifi.phase = "answer" /\ Len(out) # 1
    <2>1. CASE out = <<>>
      BY <1>1, <1>3, <2>1, ReadWord DEF Shape
    <2>2. CASE out # <<>>
      <3>1. /\ wifi'.out = Tail(out) /\ wifi'.of = wifi.of
            /\ wifi'.phase = IF Tail(out) = <<>> THEN "pause" ELSE "answer"
            /\ wifi.phase = "answer"
            /\ Tail(out) \in Seq(Lines \X Lines)
            /\ Len(Tail(out)) = Len(out) - 1
            /\ \A k \in 1 .. Len(out) - 1 : Tail(out)[k] = out[k + 1]
        BY <1>1, <2>2, ReadWord DEF Typed, WifiType, OpType, TraceType
      <3>2. \A k \in 1 .. Len(Tail(out)) : /\ k + 1 \in 1 .. Len(out)
                                           /\ k + 1 = Len(out) <=> k = Len(Tail(out))
        BY <3>1, <1>2
      <3>3. AnswerOf(wifi.of, Tail(out))
        BY <1>3, <3>1, <3>2 DEF AnswerOf
      <3>4. Tail(out) # <<>> => Len(out) # 1
        <4>1. Len(out) = 1 => Len(Tail(out)) = 0
          BY <3>1
        <4>2. Tail(out) # <<>> => Len(Tail(out)) # 0
          BY <3>1, EmptySeq
        <4> QED
          BY <4>1, <4>2
      <3> QED
        BY <3>1, <3>3, <3>4
    <2> QED
      BY <2>1, <2>2
  <1>5. CASE UNCHANGED <<rx, len, trace>>
    BY <1>1, <1>3, <1>4, <1>5 DEF Shape
  <1>6. CASE ~UNCHANGED <<rx, len, trace>>
    <2>1. PICK a \in Lines, b \in Lines : Appends(a, b)
      BY <1>6, ReadWord
    <2> USE DEF Appends
    <2> DEFINE v == u \o <<a, b>>
    <2>2. trace'.unread = v
      BY <2>1, <1>1 DEF Typed, WifiType, OpType, TraceType
    <2>3. /\ Len(v) = Len(u) + 2
          /\ \A i \in 1 .. Len(u) : v[i] = u[i]
          /\ v[Len(u) + 1] = a /\ v[Len(u) + 2] = b
          /\ \A i \in 1 .. Len(v) : i \in 1 .. Len(u) \/ i = Len(u) + 1 \/ i = Len(u) + 2
      BY <2>1, <1>2
    <2> HIDE DEF v
    <2>4. CASE out = <<>>
      <3>1. Pads(u) /\ a.is = "pad" /\ b.is = "pad" /\ wifi'.phase # "answer"
        BY <1>1, <1>3, <1>4, <2>1, <2>4, ReadWord
      <3>2. Pads(v)
        BY <2>3, <3>1 DEF Pads
      <3>3. PromptIsLast(v)
        BY <3>2 DEF Pads, PromptIsLast
      <3> QED
        BY <1>1, <1>4, <2>2, <3>1, <3>2, <3>3 DEF Shape
    <2>5. CASE out # <<>>
      <3>1. /\ NoPrompt(u) /\ wifi'.phase # "ready"
            /\ a.is = "prompt" => Len(out) = 1 /\ b.is = "pad" /\ a.of # 0
            /\ b.is = "prompt" => Len(out) = 1
        <4>1. 1 \in 1 .. Len(out) /\ wifi.phase = "answer"
          BY <1>2, <2>5, ReadWord
        <4> QED
          BY <1>3, <1>4, <2>1, <2>5, <4>1 DEF AnswerOf
      <3>2. wifi'.phase = "answer" => NoPrompt(v)
        <4>1. wifi'.phase = "answer" => a.is # "prompt" /\ b.is # "prompt"
          <5>1. wifi'.phase = "answer" => Len(out) # 1
            BY <1>4, Zenon
          <5> QED
            BY <3>1, <5>1, Zenon
        <4> QED
          BY <2>3, <3>1, <4>1 DEF NoPrompt
      <3>3. PromptIsLast(v)
        <4> SUFFICES ASSUME NEW i \in 1 .. Len(v), NEW j \in 1 .. Len(v),
                            i < j, v[i].is = "prompt"
                     PROVE  v[j].is = "pad" /\ v[i].of # 0
          BY DEF PromptIsLast
        <4>1. ~(i \in 1 .. Len(u))
          BY <2>3, <3>1 DEF NoPrompt
        <4>2. i = Len(u) + 1 /\ j = Len(u) + 2
          BY <4>1, <2>3, <1>2
        <4> QED
          BY <4>2, <2>3, <3>1
      <3> QED
        BY <1>1, <1>4, <2>2, <3>1, <3>2, <3>3 DEF Shape
    <2> QED
      BY <2>4, <2>5
  <1> QED
    BY <1>5, <1>6

-----------------------------------------------------------------------------
(* What goes over the wire *)

(* Moving the first element of c to the end of s leaves s \o c as it is. *)
LEMMA OneFirst ==
  ASSUME NEW T, NEW s \in Seq(T), NEW c \in Seq(T), c # <<>>
  PROVE  Append(s, Head(c)) \o Tail(c) = s \o c
  <1> DEFINE l == Append(s, Head(c)) \o Tail(c)
             r == s \o c
  <1>1. /\ Head(c) = c[1] /\ Head(c) \in T /\ Tail(c) \in Seq(T) /\ Len(Tail(c)) = Len(c) - 1
        /\ \A i \in 1 .. Len(c) - 1 : Tail(c)[i] = c[i + 1]
        /\ Len(c) \in Nat /\ Len(c) # 0 /\ Len(s) \in Nat
    BY HeadTailProperties, EmptySeq
  <1>2. /\ Append(s, Head(c)) \in Seq(T) /\ Len(Append(s, Head(c))) = Len(s) + 1
        /\ \A i \in 1 .. Len(s) : Append(s, Head(c))[i] = s[i]
        /\ Append(s, Head(c))[Len(s) + 1] = Head(c)
    BY <1>1, AppendProperties
  <1>3. /\ l \in Seq(T) /\ Len(l) = Len(s) + Len(c)
        /\ \A i \in 1 .. Len(s) + Len(c) :
             l[i] = IF i <= Len(s) + 1 THEN Append(s, Head(c))[i] ELSE Tail(c)[i - (Len(s) + 1)]
    <2>1. /\ l \in Seq(T) /\ Len(l) = (Len(s) + 1) + (Len(c) - 1)
          /\ \A i \in 1 .. (Len(s) + 1) + (Len(c) - 1) :
              l[i] = IF i <= Len(s) + 1 THEN Append(s, Head(c))[i] ELSE Tail(c)[i - (Len(s) + 1)]
      BY <1>1, <1>2, ConcatProperties
    <2>2. (Len(s) + 1) + (Len(c) - 1) = Len(s) + Len(c)
      BY <1>1
    <2> QED
      BY <2>1, <2>2
  <1>4. /\ r \in Seq(T) /\ Len(r) = Len(s) + Len(c)
        /\ \A i \in 1 .. Len(s) + Len(c) : r[i] = IF i <= Len(s) THEN s[i] ELSE c[i - Len(s)]
    BY ConcatProperties
  <1> HIDE DEF l, r
  <1>5. ASSUME NEW i \in 1 .. Len(s) + Len(c) PROVE l[i] = r[i]
    <2>1. CASE i <= Len(s)
      BY <1>1, <1>2, <1>3, <1>4, <2>1
    <2>2. CASE i = Len(s) + 1
      BY <1>1, <1>2, <1>3, <1>4, <2>2
    <2>3. CASE i > Len(s) + 1
      <3>1. i - (Len(s) + 1) \in 1 .. Len(c) - 1 /\ (i - (Len(s) + 1)) + 1 = i - Len(s)
        BY <1>1, <2>3
      <3>2. l[i] = Tail(c)[i - (Len(s) + 1)] /\ r[i] = c[i - Len(s)]
        BY <1>1, <1>3, <1>4, <2>3
      <3> QED
        BY <1>1, <3>1, <3>2
    <2> QED
      BY <1>1, <2>1, <2>2, <2>3
  <1>6. l = r
    BY <1>1, <1>3, <1>4, <1>5, SeqEqual
  <1> QED
    BY <1>6 DEF l, r

(* So does moving the first two: what a transmit interrupt does. *)
LEMMA TwoFirst ==
  ASSUME NEW T, NEW s \in Seq(T), NEW c \in Seq(T), c # <<>>, Tail(c) # <<>>
  PROVE  (s \o <<Head(c), Head(Tail(c))>>) \o Tail(Tail(c)) = s \o c
  <1>1. Head(c) \in T /\ Tail(c) \in Seq(T) /\ Head(Tail(c)) \in T
    BY HeadTailProperties
  <1>2. s \o <<Head(c), Head(Tail(c))>> = Append(Append(s, Head(c)), Head(Tail(c)))
    BY <1>1
  <1>3. Append(s, Head(c)) \in Seq(T)
    BY <1>1, AppendProperties
  <1>4. Append(Append(s, Head(c)), Head(Tail(c))) \o Tail(Tail(c)) = Append(s, Head(c)) \o Tail(c)
    BY <1>1, <1>3, OneFirst
  <1> QED
    BY <1>2, <1>4, OneFirst

(* What does not concern the transmission leaves its state alone.          *)
LEMMA WireStays ==
  ASSUME Wire, tx' = tx, trace'.wire = trace.wire, trace'.sent = trace.sent,
         trace'.stale = trace.stale, op'.n = op.n, op'.kind = op.kind,
         pc \notin Preparing, pc' \notin Preparing
  PROVE  Wire'
  BY DEF Wire, Copies, Preparing

(* Copies of the operation's number, one more for every put. *)
LEMMA CopiesAre ==
  ASSUME NEW k \in Nat, NEW T, op.n \in T
  PROVE  /\ Copies(k) \in Seq(T) /\ Len(Copies(k)) = k
         /\ \A i \in 1 .. k : Copies(k)[i] = op.n
         /\ Copies(0) = <<>>
         /\ Append(Copies(k), op.n) = Copies(k + 1)
  <1>1. \A m \in Nat : /\ Copies(m) \in Seq(T) /\ Len(Copies(m)) = m
                       /\ \A i \in 1 .. m : Copies(m)[i] = op.n
    <2> TAKE m \in Nat
    <2>1. Copies(m) \in [1 .. m -> T]
      BY DEF Copies
    <2> QED
      BY <2>1 DEF Copies
  <1>2. Append(Copies(k), op.n) = Copies(k + 1)
    <2>1. /\ Append(Copies(k), op.n) \in Seq(T) /\ Len(Append(Copies(k), op.n)) = k + 1
          /\ \A i \in 1 .. k : Append(Copies(k), op.n)[i] = op.n
          /\ Append(Copies(k), op.n)[k + 1] = op.n
      BY <1>1, AppendProperties
    <2>2. /\ Copies(k + 1) \in Seq(T) /\ Len(Copies(k + 1)) = k + 1
          /\ \A i \in 1 .. k + 1 : Copies(k + 1)[i] = op.n
      BY <1>1
    <2>3. \A i \in 1 .. k + 1 : i \in 1 .. k \/ i = k + 1
      OBVIOUS
    <2> QED
      BY <2>1, <2>2, <2>3, SeqEqual
  <1>3. Copies(0) = <<>>
    BY <1>1, EmptySeq
  <1> QED
    BY <1>1, <1>2, <1>3

(* An operation begins: of a send that comes after one that was not        *)
(* transmitted nothing is said.                                            *)
LEMMA WireBegins ==
  ASSUME IInv, NEW kind \in Kinds, Starts(kind), pc \notin Preparing,
         \/ trace' = Started(kind)
         \/ trace' = [Started(kind) EXCEPT !.unread = <<>>]
  PROVE  Wire'
  <1>1. /\ trace'.wire = <<>> /\ trace'.sent = FALSE
        /\ trace'.stale = (trace.stale /\ ~trace.sent /\ kind = "send")
    BY DEF Started, IInv, Typed, WifiType, OpType, TraceType
  <1>2. op'.n \in Nat /\ op'.kind = kind /\ len' = 0
    BY DEF Starts, IInv, Typed, WifiType, OpType, TraceType, Numbers
  <1>3. kind = "send" => pc' = "fill" /\ tx' = tx
    BY DEF Starts
  <1>4. kind # "send" => pc' = "wait_high" /\ Contents(tx') = <<>>
    BY TxTyped DEF Starts, IInv
  <1>5. kind = "send" /\ ~trace'.stale => Contents(tx) = <<>>
    BY <1>1 DEF IInv, Wire
  <1>6. Copies(0)' = <<>>
    <2>1. Copies(0)' = [i \in 1 .. 0 |-> op'.n]
      BY DEF Copies
    <2> QED
      BY <2>1
  <1>7. 0 < Length(kind)
    BY TransportAssumption DEF Length
  <1> QED
    BY <1>1, <1>2, <1>3, <1>4, <1>5, <1>6, <1>7 DEF Wire, Preparing

(* write() puts the operation's bytes one by one. *)
LEMMA WireFill ==
  ASSUME IInv, fill
  PROVE  Wire'
  <1>1. /\ pc = "fill" /\ UNCHANGED <<op, trace>> /\ len < Length(op.kind) /\ len \in Nat
        /\ len' = len + 1 /\ tx' = put(tx, op.n) /\ trace.wire = <<>> /\ ~trace.sent
        /\ pc' = IF len' < Length(op.kind) THEN "fill"
                 ELSE IF op.kind = "send" THEN "wait_high" ELSE "txIrq"
    BY DEF fill, IInv, Wire, Typed, WifiType, OpType, TraceType, Handshake,
           Preparing
  <1>2. /\ tx \in Buffers(Numbers) /\ op.n \in Numbers /\ op.kind \in Kinds
        /\ Length(op.kind) \in Nat /\ Length(op.kind) <= Capacity
    BY LengthFits DEF IInv, Typed, WifiType, OpType, TraceType
  <1>3. ~trace.stale => Contents(tx') = Copies(len')
    <2> SUFFICES ASSUME ~trace.stale PROVE Contents(tx') = Copies(len + 1)
      BY <1>1
    <2>1. Contents(tx) = Copies(len)
      BY <1>1 DEF IInv, Wire
    <2>2. Count(tx) = len
      BY <2>1, <1>1, <1>2, CopiesAre, CountIsLength
    <2>3. Count(tx) < Capacity
      BY <1>1, <1>2, <2>2, SizeAssumption DEF Capacity
    <2>4. Contents(tx') = Append(Contents(tx), op.n)
      BY <1>1, <1>2, <2>3, PutAppends
    <2> QED
      BY <1>1, <1>2, <2>1, <2>4, CopiesAre
  <1>4. pc' # "fill" => len' = Length(op.kind)
    BY <1>1, <1>2
  <1>5. trace.wire \o Contents(tx') = Contents(tx')
    <2>1. tx' \in Buffers(Numbers)
      BY <1>1, TxTyped DEF IInv
    <2> QED
      BY <1>1, <2>1, CountIsLength, ConcatEmptySeq
  <1>6. \A k : Copies(k)' = Copies(k)
    BY <1>1 DEF Copies
  <1>7. /\ pc' \in Preparing
        /\ op.kind = "send" => pc' # "txIrq" /\ Length(op.kind) = SendLen
        /\ op.kind # "send" => pc' # "wait_high"
    BY <1>1 DEF Preparing, Length
  <1>8. /\ pc' = "fill" => len' < Length(op'.kind)
        /\ op.kind # "send" => ~trace.stale
    BY <1>1 DEF IInv, Wire, Preparing
  <1> QED
    BY <1>1, <1>3, <1>4, <1>5, <1>6, <1>7, <1>8 DEF Wire

(* txIrq moves a word from the buffer to the wire. *)
LEMMA WireTransmits ==
  ASSUME IInv, txIrq
  PROVE  Wire'
  <1>1. /\ pc = "txIrq" /\ UNCHANGED <<op, pc>> /\ available(tx) /\ ~trace.sent
        /\ tx \in Buffers(Numbers) /\ trace.wire \in Seq(Numbers)
    BY DEF txIrq, IInv, Typed, WifiType, OpType, TraceType, Handshake,
           Preparing
  <1> DEFINE one == Taken(tx)
             c == Contents(tx)
  <1>2. /\ one \in Buffers(Numbers) /\ get(tx) = Head(c) /\ Contents(one) = Tail(c)
        /\ c \in Seq(Numbers) /\ c # <<>>
    BY <1>1, TakenIsTail, CountIsLength
  <1>3. /\ trace'.sent = trace.sent /\ trace'.stale = trace.stale
        /\ trace'.wire \o Contents(tx') = trace.wire \o c
    <2>1. CASE available(one)
      <3>1. /\ get(one) = Head(Tail(c)) /\ Contents(Taken(one)) = Tail(Tail(c))
            /\ Tail(c) \in Seq(Numbers) /\ Tail(c) # <<>>
        BY <1>2, <2>1, TakenIsTail, CountIsLength
      <3>2. /\ tx' = Taken(one) /\ trace' = [trace EXCEPT !.wire = @ \o <<get(tx), get(one)>>]
        BY <2>1 DEF txIrq
      <3>3. (trace.wire \o <<Head(c), Head(Tail(c))>>) \o Tail(Tail(c)) = trace.wire \o c
        BY <1>1, <1>2, <3>1, TwoFirst
      <3> QED
        BY <1>2, <3>1, <3>2, <3>3 DEF IInv, Typed, WifiType, OpType, TraceType
    <2>2. CASE ~available(one)
      <3>1. Tail(c) = <<>>
        BY <1>2, <2>2, CountIsLength
      <3>2. tx' = one /\ trace' = [trace EXCEPT !.wire = Append(@, get(tx))]
        BY <2>2 DEF txIrq
      <3>3. Append(trace.wire, Head(c)) \o Tail(c) = trace.wire \o c
        BY <1>1, <1>2, OneFirst
      <3> QED
        BY <1>2, <3>2, <3>3 DEF IInv, Typed, WifiType, OpType, TraceType
    <2> QED
      BY <2>1, <2>2
  <1>4. \A k : Copies(k)' = Copies(k)
    BY <1>1 DEF Copies
  <1> QED
    BY <1>1, <1>3, <1>4 DEF IInv, Wire, Preparing

(* Then the wire has the whole command and the buffer nothing. *)
LEMMA WireTransmitted ==
  ASSUME IInv, Transmitted
  PROVE  Wire'
  <1>1. /\ pc = "txIrq" /\ pc' = "recv" /\ UNCHANGED <<op, tx>> /\ ~available(tx)
        /\ tx \in Buffers(Numbers) /\ trace.wire \in Seq(Numbers)
        /\ trace'.wire = trace.wire /\ trace'.stale = trace.stale
    BY DEF Transmitted, IInv, Typed, WifiType, OpType, TraceType
  <1>2. Contents(tx) = <<>> /\ trace.wire \o Contents(tx) = trace.wire
    BY <1>1, CountIsLength, ConcatEmptySeq
  <1>3. \A k : Copies(k)' = Copies(k)
    BY <1>1 DEF Copies
  <1> QED
    BY <1>1, <1>2, <1>3 DEF IInv, Wire, Preparing

(* BufferedSpi waits for the module, or gives up before it transmits; a    *)
(* send's bytes then stay in the buffer.                                   *)
LEMMA WireWaits ==
  ASSUME IInv, wait_cmddata_rdy_high \/ high_timeout
  PROVE  Wire'
  <1>1. /\ pc = "wait_high" /\ UNCHANGED <<op, tx, len>> /\ ~trace.sent
        /\ trace.wire = <<>> /\ trace'.wire = trace.wire /\ trace'.sent = trace.sent
        /\ tx \in Buffers(Numbers)
    BY DEF wait_cmddata_rdy_high, high_timeout, IInv, Typed, WifiType, OpType,
           TraceType, Handshake, Preparing, Wire
  <1>2. <<>> \o Contents(tx) = Contents(tx)
    BY <1>1, CountIsLength, ConcatEmptySeq
  <1>3. (\A k : Copies(k)' = Copies(k)) /\ Copies(0) = <<>>
    BY <1>1 DEF Copies
  <1>4. /\ op.kind # "send" => len = 0
        /\ ~trace.stale => Contents(tx) = Copies(IF op.kind = "send" THEN SendLen ELSE 0)
        /\ op.kind = "send" => Length(op.kind) = SendLen
        /\ 0 < Length(op.kind)
        /\ op.kind # "send" => ~trace.stale
    BY <1>1, TransportAssumption DEF IInv, Wire, Length, Preparing
  <1>5. CASE wait_cmddata_rdy_high
    <2>1. trace' = trace /\ pc' = IF op.kind = "send" THEN "txIrq" ELSE "fill"
      BY <1>5 DEF wait_cmddata_rdy_high
    <2> QED
      BY <1>1, <1>2, <1>3, <1>4, <2>1 DEF Wire, Preparing
  <1>6. CASE high_timeout
    <2>1. /\ pc' = IF op.kind = "send" THEN "recv" ELSE "idle"
          /\ trace'.stale = (op.kind = "send")
      BY <1>6 DEF high_timeout, IInv, Typed, WifiType, OpType, TraceType
    <2>2. op.kind # "send" => Contents(tx) = <<>>
      BY <1>1, <1>3, <1>4 DEF IInv, Wire, Preparing
    <2> QED
      BY <1>1, <1>3, <1>4, <2>1, <2>2 DEF Wire, Preparing
  <1> QED
    BY <1>5, <1>6

-----------------------------------------------------------------------------
(* Every step, part by part *)

(* Every step keeps every part of the invariant.  Here: its types. *)
LEMMA TypedKept ==
  ASSUME IInv, [TransportNext]_svars
  PROVE  Typed'
  <1> USE TransportAssumption, SizeAssumption, RxIsUnread
          DEF IInv, Typed, WifiType, OpType, TraceType, Preparing, Kinds,
              Phases, Pcs, Length, Burst
  <1>0. ASSUME NEW kind \in Kinds \ {"reset"}, Begin(kind) PROVE Typed'
    <2>1. /\ kind \in Kinds /\ op.n + 1 \in Numbers /\ Formats(kind) \in FormatLists
          /\ <<>> \in Seq(Lines) /\ <<>> \in Seq(Numbers)
      BY <1>0, FormatsTyped DEF Begin, Starts, Numbers
    <2>2. op' \in OpType
      BY <1>0, <2>1 DEF Begin, Starts
    <2>3. trace' \in TraceType
      BY <1>0, <2>1 DEF Begin, Started
    <2> QED
      BY <1>0, <2>1, <2>2, <2>3, TxTyped DEF Begin, Starts
  <1>1. CASE fill
    BY <1>1, TxTyped, LengthFits DEF fill, Wire
  <1>2. CASE wait_cmddata_rdy_high
    BY <1>2 DEF wait_cmddata_rdy_high
  <1>3. CASE high_timeout
    BY <1>3 DEF high_timeout
  <1>4. CASE txIrq
    <2>1. /\ tx' \in Buffers(Numbers)
          /\ trace'.wire \in Seq(Numbers) /\ trace' = [trace EXCEPT !.wire = trace'.wire]
      <3> DEFINE one == Taken(tx)
      <3>1. /\ one \in Buffers(Numbers) /\ get(tx) \in Numbers
            /\ available(one) => Taken(one) \in Buffers(Numbers) /\ get(one) \in Numbers
        BY <1>4, TxTyped DEF txIrq
      <3>2. CASE available(one)
        <4>1. trace.wire \o <<get(tx), get(one)>> \in Seq(Numbers)
          BY <3>1, <3>2
        <4> QED
          BY <1>4, <3>1, <3>2, <4>1 DEF txIrq
      <3>3. CASE ~available(one)
        <4>1. Append(trace.wire, get(tx)) \in Seq(Numbers)
          BY <3>1
        <4> QED
          BY <1>4, <3>1, <3>3, <4>1 DEF txIrq
      <3> QED
        BY <3>2, <3>3
    <2> QED
      BY <1>4, <2>1 DEF txIrq
  <1>5. CASE Transmitted
    <2>0. <<>> \in Seq(Lines \X Lines) /\ op.n \in Numbers /\ "busy" \in Phases
      OBVIOUS
    <2>a. [phase |-> "busy", of |-> op.n, out |-> <<>>]
            \in WifiType
      BY <2>0, Zenon
    <2>1. wifi' \in WifiType
      BY <1>5, <2>a, Zenon DEF Transmitted, Typed, IInv
    <2> QED
      BY <1>5, <2>1 DEF Transmitted
  <1>6. CASE recv
    BY <1>6 DEF recv, Awaits
  <1>7. CASE wait_cmddata_rdy_rising_event
    BY <1>7 DEF wait_cmddata_rdy_rising_event
  <1>8. CASE Expire
    BY <1>8 DEF Expire
  <1>9. CASE rising_timeout
    BY <1>9 DEF rising_timeout, Returns, Counted
  <1>10. CASE read
    <2>1. rx' \in Buffers(Lines)
      BY <1>10, ReadWord DEF Appends
    <2>2. len' \in 0 .. Size + SendLen
      <3>1. len' = len \/ (len' = len + 2 /\ len' <= Burst)
        BY <1>10, ReadWord DEF Appends
      <3> QED
        BY <3>1 DEF Burst, Capacity
    <2>3. trace' \in TraceType
      BY <1>10, ReadWord DEF TraceType, Appends
    <2>4. wifi' \in WifiType
      BY <1>10, ReadWord
    <2> QED
      BY <1>10, <2>1, <2>2, <2>3, <2>4 DEF read
  <1>11. CASE read_end
    BY <1>11 DEF read_end, Burst
  <1>12. CASE scan_skip
    BY <1>12 DEF scan_skip, Consumed
  <1>13. CASE scan_match
    <2>1. op' \in OpType
      BY <1>13, FormatsLeft DEF scan_match, Parsing, FormatLists
    <2>2. trace' \in TraceType
      BY <1>13 DEF scan_match, Accepted, Consumed
    <2> QED
      BY <1>13, <2>1, <2>2 DEF scan_match
  <1>14. CASE scan_join
    <2>1. op' \in OpType
      BY <1>14 DEF scan_join
    <2>2. trace' \in TraceType
      BY <1>14, ConsumedFields DEF scan_join, TraceType
    <2> QED
      BY <1>14, <2>1, <2>2 DEF scan_join, FlushAfterJoin, TraceType
  <1>15. CASE scan_networks
    BY <1>15 DEF scan_networks, Accepted, Consumed
  <1>16. CASE scan_next
    <2>1. /\ "scan1" \in Kinds /\ op.n + 1 \in Numbers /\ Formats("scan1") \in FormatLists
          /\ <<>> \in Seq(Lines) /\ <<>> \in Seq(Numbers)
      BY <1>16, FormatsTyped DEF scan_next, Starts, Numbers
    <2>2. op' \in OpType
      BY <1>16, <2>1 DEF scan_next, Starts
    <2>3. trace' \in TraceType
      BY <1>16, <2>1 DEF scan_next, Started
    <2>4. tx' \in Buffers(Numbers) /\ rx' \in Buffers(Lines)
      BY <1>16, TxTyped DEF scan_next, Starts
    <2>5. pc' \in Pcs /\ len' = 0 /\ data' = <<>> /\ UNCHANGED <<event, wifi, first>>
      BY <1>16 DEF scan_next, Starts
    <2> QED
      BY <2>1, <2>2, <2>3, <2>4, <2>5
  <1>17. CASE scan_last
    BY <1>17 DEF scan_last, Returns, Counted, Accepted, Consumed
  <1>18. CASE scan_fail
    BY <1>18 DEF scan_fail, Returns, Counted
  <1>19. CASE drain
    BY <1>19 DEF drain, Returns, Consumed
  <1>20. CASE take
    <2>1. available(rx) => Append(data, get(rx)) \in Seq(Lines)
      OBVIOUS
    <2>2. CASE available(rx)
      <3>1. trace' \in TraceType
        BY <1>20, <2>2, ConsumedFields DEF take
      <3>2. len' = len - 1 /\ len > 0 /\ rx' = Taken(rx) /\ data' = Append(data, get(rx))
        BY <1>20, <2>2 DEF take
      <3>3. len' \in 0 .. Size + SendLen
        BY <3>2 DEF Capacity
      <3>4. UNCHANGED <<tx, pc, op, first, wifi, event>>
        BY <1>20, <2>2 DEF take
      <3> QED
        BY <2>1, <2>2, <3>1, <3>2, <3>3, <3>4 DEF TraceType
    <2>3. CASE ~available(rx)
      BY <1>20, <2>3 DEF take, Returns
    <2> QED
      BY <2>2, <2>3
  <1>21. CASE take_end
    <2> DEFINE text == { i \in 1 .. Len(data) : data[i].is # "pad" }
    <2>0. \A i \in 1 .. Len(data) : data[i] \in Lines
      OBVIOUS
    <2>1. { data[i].of : i \in text } \in SUBSET Numbers
      BY <2>0 DEF Lines
    <2>2. PICK good \in BOOLEAN : Returns(good, rx)
      BY <1>21, Zenon DEF take_end
    <2>3. /\ trace' = [trace EXCEPT !.from = { data[i].of : i \in text }]
          /\ data' = data /\ event' = event
      BY <1>21 DEF take_end
    <2> HIDE DEF text
    <2> QED
      BY <2>1, <2>2, <2>3 DEF Returns
  <1>22. CASE Answer
    <2>1. PICK out \in Answers(wifi.of) : wifi' = [wifi EXCEPT !.phase = "answer", !.out = out]
      BY <1>22 DEF Answer
    <2>2. out \in Seq(Lines \X Lines)
      BY AnswersShape
    <2>3. wifi' \in WifiType
      BY <2>1, <2>2
    <2> QED
      BY <1>22, <2>3 DEF Answer, DatareadyRising
  <1>23. CASE Ready
    BY <1>23 DEF Ready, DatareadyRising, Selected
  <1>24. CASE UNCHANGED svars
    BY <1>24 DEF svars
  <1> QED
    BY <1>0, <1>1, <1>2, <1>3, <1>4, <1>5, <1>6, <1>7, <1>8, <1>9, <1>10,
       <1>11, <1>12, <1>13, <1>14, <1>15, <1>16, <1>17, <1>18, <1>19, <1>20,
       <1>21, <1>22, <1>23, <1>24
       DEF TransportNext, Driver

(* The module, its pin and the operation stay in step. *)
LEMMA HandshakeKept ==
  ASSUME IInv, [TransportNext]_svars
  PROVE  Handshake'
  <1> USE TransportAssumption
          DEF IInv, Typed, WifiType, OpType, TraceType, Handshake, Preparing,
              DataReady, Numbers, Kinds, Phases, Pcs, Parsing
  <1>0. ASSUME NEW kind \in Kinds \ {"reset"}, Begin(kind) PROVE Handshake'
    BY <1>0 DEF Begin, Starts, Started
  <1>1. CASE fill
    BY <1>1 DEF fill
  <1>2. CASE wait_cmddata_rdy_high
    BY <1>2 DEF wait_cmddata_rdy_high
  <1>3. CASE high_timeout
    BY <1>3 DEF high_timeout
  <1>4. CASE txIrq
    BY <1>4 DEF txIrq
  <1>5. CASE Transmitted
    BY <1>5 DEF Transmitted, Unread
  <1>6. CASE recv
    BY <1>6, RxIsUnread DEF recv, Awaits, Unread
  <1>7. CASE wait_cmddata_rdy_rising_event
    BY <1>7 DEF wait_cmddata_rdy_rising_event
  <1>8. CASE Expire
    BY <1>8 DEF Expire
  <1>9. CASE rising_timeout
    BY <1>9 DEF rising_timeout, Returns, Counted
  <1>10. CASE read
    BY <1>10 DEF read, Burst, Padding, CRLF
  <1>11. CASE read_end
    BY <1>11 DEF read_end, Burst
  <1>12. CASE scan_skip
    BY <1>12 DEF scan_skip, Consumed
  <1>13. CASE scan_match
    BY <1>13 DEF scan_match, Accepted, Consumed
  <1>14. CASE scan_join
    BY <1>14 DEF scan_join, Accepted, Consumed
  <1>15. CASE scan_networks
    BY <1>15 DEF scan_networks, Accepted, Consumed
  <1>16. CASE scan_next
    BY <1>16 DEF scan_next, Starts, Started
  <1>17. CASE scan_last
    BY <1>17 DEF scan_last, Returns, Counted, Accepted, Consumed
  <1>18. CASE scan_fail
    BY <1>18 DEF scan_fail, Returns, Counted
  <1>19. CASE drain
    BY <1>19 DEF drain, Returns, Consumed
  <1>20. CASE take
    BY <1>20 DEF take, Returns, Consumed
  <1>21. CASE take_end
    BY <1>21 DEF take_end, Returns
  <1>22. CASE Answer
    BY <1>22 DEF Answer, DatareadyRising, Answers
  <1>23. CASE Ready
    BY <1>23 DEF Ready, DatareadyRising, Selected
  <1>24. CASE UNCHANGED svars
    BY <1>24 DEF svars
  <1> QED
    BY <1>0, <1>1, <1>2, <1>3, <1>4, <1>5, <1>6, <1>7, <1>8, <1>9, <1>10,
       <1>11, <1>12, <1>13, <1>14, <1>15, <1>16, <1>17, <1>18, <1>19, <1>20,
       <1>21, <1>22, <1>23, <1>24
       DEF TransportNext, Driver

(* The formats stay those of the operation. *)
LEMMA ParsingKept ==
  ASSUME IInv, [TransportNext]_svars
  PROVE  Parsing'
  <1> USE TransportAssumption
          DEF IInv, Typed, WifiType, OpType, TraceType, Parsing, Preparing,
              Numbers, Kinds, Phases, Pcs, Formats
  <1>0. ASSUME NEW kind \in Kinds \ {"reset"}, Begin(kind) PROVE Parsing'
    BY <1>0 DEF Begin, Starts, Started
  <1>1. CASE fill
    BY <1>1 DEF fill
  <1>2. CASE wait_cmddata_rdy_high
    BY <1>2 DEF wait_cmddata_rdy_high
  <1>3. CASE high_timeout
    BY <1>3 DEF high_timeout
  <1>4. CASE txIrq
    BY <1>4 DEF txIrq
  <1>5. CASE Transmitted
    BY <1>5 DEF Transmitted
  <1>6. CASE recv
    BY <1>6 DEF recv, Awaits
  <1>7. CASE wait_cmddata_rdy_rising_event
    BY <1>7 DEF wait_cmddata_rdy_rising_event
  <1>8. CASE Expire
    BY <1>8 DEF Expire
  <1>9. CASE rising_timeout
    BY <1>9 DEF rising_timeout, Returns, Counted
  <1>10. CASE read
    BY <1>10 DEF read, Burst, Padding, CRLF
  <1>11. CASE read_end
    BY <1>11 DEF read_end, Burst
  <1>12. CASE scan_skip
    BY <1>12 DEF scan_skip, Consumed
  <1>13. CASE scan_match
    BY <1>13, FormatsLeft DEF scan_match, Accepted, Consumed
  <1>14. CASE scan_join
    BY <1>14 DEF scan_join, Accepted, Consumed
  <1>15. CASE scan_networks
    BY <1>15 DEF scan_networks, Accepted, Consumed
  <1>16. CASE scan_next
    BY <1>16 DEF scan_next, Starts, Started
  <1>17. CASE scan_last
    BY <1>17 DEF scan_last, Returns, Counted, Accepted, Consumed
  <1>18. CASE scan_fail
    BY <1>18 DEF scan_fail, Returns, Counted
  <1>19. CASE drain
    BY <1>19 DEF drain, Returns, Consumed
  <1>20. CASE take
    BY <1>20 DEF take, Returns, Consumed
  <1>21. CASE take_end
    BY <1>21 DEF take_end, Returns
  <1>22. CASE Answer
    BY <1>22 DEF Answer, DatareadyRising, Answers
  <1>23. CASE Ready
    BY <1>23 DEF Ready, DatareadyRising, Selected
  <1>24. CASE UNCHANGED svars
    BY <1>24 DEF svars
  <1> QED
    BY <1>0, <1>1, <1>2, <1>3, <1>4, <1>5, <1>6, <1>7, <1>8, <1>9, <1>10,
       <1>11, <1>12, <1>13, <1>14, <1>15, <1>16, <1>17, <1>18, <1>19, <1>20,
       <1>21, <1>22, <1>23, <1>24
       DEF TransportNext, Driver

(* The receive buffer stays what is unread. *)
LEMMA UnreadKept ==
  ASSUME IInv, [TransportNext]_svars
  PROVE  Unread'
  <1> USE TransportAssumption, SizeAssumption, RxIsUnread
          DEF IInv, Typed, WifiType, OpType, TraceType, Unread, Preparing,
              Kinds, Phases, Pcs, Burst, Handshake, Parsing
  <1>0. ASSUME NEW kind \in Kinds \ {"reset"}, Begin(kind) PROVE Unread'
    BY <1>0 DEF Begin, Starts, Started
  <1>1. CASE fill
    BY <1>1 DEF fill
  <1>2. CASE wait_cmddata_rdy_high
    BY <1>2 DEF wait_cmddata_rdy_high
  <1>3. CASE high_timeout
    BY <1>3 DEF high_timeout
  <1>4. CASE txIrq
    BY <1>4 DEF txIrq
  <1>5. CASE Transmitted
    BY <1>5 DEF Transmitted
  <1>6. CASE recv
    BY <1>6 DEF recv, Awaits
  <1>7. CASE wait_cmddata_rdy_rising_event
    BY <1>7 DEF wait_cmddata_rdy_rising_event
  <1>8. CASE Expire
    BY <1>8 DEF Expire
  <1>9. CASE rising_timeout
    BY <1>9 DEF rising_timeout, Returns, Counted
  <1>10. CASE read
    BY <1>10, ReadWord DEF read, Burst, Padding, CRLF, Appends
  <1>11. CASE read_end
    BY <1>11 DEF read_end, Burst
  <1>12. CASE scan_skip
    BY <1>12 DEF scan_skip, Consumed
  <1>13. CASE scan_match
    <2>1. /\ rx' = Taken(rx) /\ trace'.unread = Tail(trace.unread)
          /\ pc' \in {"recv", "idle", "drain"} /\ available(rx)
          /\ op'.kind = op.kind /\ op.kind # "receive"
      BY <1>13, ConsumedFields DEF scan_match
    <2>2. pc' = "idle" => Tail(trace.unread) = <<>>
      <3>1. ASSUME pc' = "idle" PROVE op.kind = "reset" /\ op.n = 0 /\ op.formats = <<"prompt">>
        BY <1>13, <3>1 DEF scan_match
      <3>2. ASSUME pc' = "idle" PROVE trace.unread[1].is = "prompt" /\ trace.sent /\ pc = "scan"
        BY <1>13, <3>1, <3>2, FormatsLeft DEF scan_match, Matches
      <3>3. ASSUME pc' = "idle" PROVE \A i \in 1 .. Len(trace.unread) : trace.unread[i].of = 0
        BY <3>1, <3>2, <3>3 DEF Owners
      <3> QED
        BY <2>1, <3>2, <3>3, PromptFirst DEF Shape
    <2> QED
      BY <2>1, <2>2
  <1>14. CASE scan_join
    <2>1. CASE get(rx).is = "text"
      <3>1. /\ rx' = Taken(rx) /\ trace' = Consumed /\ pc' = "recv" /\ available(rx)
            /\ op' = op /\ op.kind = "join"
        BY <1>14, <2>1 DEF scan_join
      <3> QED
        BY <3>1, ConsumedFields
    <2>2. CASE get(rx).is # "text"
      <3>1. rx' = Flushed(Taken(rx)) /\ pc' = "idle" /\ available(rx)
        BY <1>14, <2>2 DEF scan_join, FlushAfterJoin
      <3>2. trace'.unread = <<>>
        BY <1>14, <2>2, <3>1, ConsumedFields DEF scan_join
      <3> QED
        BY <3>1, <3>2
    <2> QED
      BY <2>1, <2>2
  <1>15. CASE scan_networks
    BY <1>15 DEF scan_networks, Accepted, Consumed
  <1>16. CASE scan_next
    BY <1>16 DEF scan_next, Starts, Started
  <1>17. CASE scan_last
    BY <1>17 DEF scan_last, Returns, Counted, Accepted, Consumed
  <1>18. CASE scan_fail
    BY <1>18 DEF scan_fail, Returns, Counted
  <1>19. CASE drain
    <2>1. CASE available(rx) /\ get(rx).is = "pad"
      BY <1>19, <2>1, ConsumedFields DEF drain
    <2>2. available(rx) => get(rx).is = "pad"
      BY <1>19 DEF drain, Shape, Pads
    <2>3. CASE ~available(rx)
      BY <1>19, <2>3 DEF drain, Returns
    <2> QED
      BY <2>1, <2>2, <2>3
  <1>20. CASE take
    BY <1>20 DEF take, Returns, Consumed
  <1>21. CASE take_end
    BY <1>21 DEF take_end, Returns
  <1>22. CASE Answer
    BY <1>22 DEF Answer, DatareadyRising, Answers
  <1>23. CASE Ready
    BY <1>23 DEF Ready, DatareadyRising, Selected
  <1>24. CASE UNCHANGED svars
    BY <1>24 DEF svars
  <1> QED
    BY <1>0, <1>1, <1>2, <1>3, <1>4, <1>5, <1>6, <1>7, <1>8, <1>9, <1>10,
       <1>11, <1>12, <1>13, <1>14, <1>15, <1>16, <1>17, <1>18, <1>19, <1>20,
       <1>21, <1>22, <1>23, <1>24
       DEF TransportNext, Driver

(* The lines stay in order: the prompt ends what there is to read. *)
LEMMA ShapeKept ==
  ASSUME IInv, [TransportNext]_svars
  PROVE  Shape'
  <1> USE DEF IInv, Typed, WifiType, OpType, TraceType, Shape, Preparing,
              Phases, Pcs
  <1>0. ASSUME NEW kind \in Kinds \ {"reset"}, Begin(kind) PROVE Shape'
    BY <1>0, NothingHasShape DEF Begin, Starts, Started, Unread
  <1>1. CASE fill
    BY <1>1 DEF fill
  <1>2. CASE wait_cmddata_rdy_high
    BY <1>2 DEF wait_cmddata_rdy_high
  <1>3. CASE high_timeout
    BY <1>3 DEF high_timeout
  <1>4. CASE txIrq
    BY <1>4 DEF txIrq
  <1>5. CASE Transmitted
    BY <1>5, NothingHasShape DEF Transmitted, Unread
  <1>6. CASE recv
    BY <1>6 DEF recv, Awaits
  <1>7. CASE wait_cmddata_rdy_rising_event
    BY <1>7, NothingHasShape DEF wait_cmddata_rdy_rising_event, Unread
  <1>8. CASE Expire
    BY <1>8 DEF Expire
  <1>9. CASE rising_timeout
    BY <1>9 DEF rising_timeout, Returns, Counted
  <1>10. CASE read
    BY <1>10, ShapeRead
  <1>11. CASE read_end
    BY <1>11 DEF read_end, Burst
  <1>12. CASE scan_skip
    BY <1>12, ShapeConsumed
  <1>13. CASE scan_match
    BY <1>13, ShapeConsumed
  <1>14. CASE scan_join
    BY <1>14, ShapeConsumed
  <1>15. CASE scan_networks
    BY <1>15, ShapeConsumed
  <1>16. CASE scan_next
    BY <1>16, ShapeConsumed
  <1>17. CASE scan_last
    BY <1>17, ShapeConsumed
  <1>18. CASE scan_fail
    BY <1>18, NothingHasShape DEF scan_fail, Returns, Counted
  <1>19. CASE drain
    BY <1>19, ShapeConsumed
  <1>20. CASE take
    BY <1>20, ShapeConsumed
  <1>21. CASE take_end
    BY <1>21 DEF take_end, Returns
  <1>22. CASE Answer
    BY <1>22, AnswersShape, NothingHasShape
       DEF Answer, DatareadyRising, Answers
  <1>23. CASE Ready
    BY <1>23 DEF Ready, DatareadyRising, Selected
  <1>24. CASE UNCHANGED svars
    BY <1>24 DEF svars
  <1> QED
    BY <1>0, <1>1, <1>2, <1>3, <1>4, <1>5, <1>6, <1>7, <1>8, <1>9, <1>10,
       <1>11, <1>12, <1>13, <1>14, <1>15, <1>16, <1>17, <1>18, <1>19, <1>20,
       <1>21, <1>22, <1>23, <1>24
       DEF TransportNext, Driver

(* The lines stay the operation's own. *)
LEMMA OwnersKept ==
  ASSUME IInv, [TransportNext]_svars
  PROVE  Owners'
  <1> USE DEF IInv, Typed, WifiType, OpType, TraceType, Owners, Preparing,
              Phases, Pcs, Handshake, Parsing, Numbers
  <1>0. ASSUME NEW kind \in Kinds \ {"reset"}, Begin(kind) PROVE Owners'
    BY <1>0 DEF Begin, Starts, Started
  <1>1. CASE fill
    BY <1>1 DEF fill
  <1>2. CASE wait_cmddata_rdy_high
    BY <1>2 DEF wait_cmddata_rdy_high
  <1>3. CASE high_timeout
    BY <1>3 DEF high_timeout
  <1>4. CASE txIrq
    BY <1>4 DEF txIrq
  <1>5. CASE Transmitted
    BY <1>5 DEF Transmitted, Unread
  <1>6. CASE recv
    BY <1>6 DEF recv, Awaits
  <1>7. CASE wait_cmddata_rdy_rising_event
    BY <1>7 DEF wait_cmddata_rdy_rising_event
  <1>8. CASE Expire
    BY <1>8 DEF Expire
  <1>9. CASE rising_timeout
    BY <1>9 DEF rising_timeout, Returns, Counted
  <1>10. CASE read
    BY <1>10, OwnersRead
  <1>11. CASE read_end
    BY <1>11 DEF read_end, Burst
  <1>12. CASE scan_skip
    BY <1>12, OwnersConsumed
  <1>13. CASE scan_match
    BY <1>13, OwnersConsumed
  <1>14. CASE scan_join
    BY <1>14, OwnersConsumed
  <1>15. CASE scan_networks
    BY <1>15, OwnersConsumed
  <1>16. CASE scan_next
    BY <1>16 DEF scan_next, Starts, Started
  <1>17. CASE scan_last
    BY <1>17 DEF scan_last, Returns, Counted, Accepted, Consumed
  <1>18. CASE scan_fail
    BY <1>18 DEF scan_fail, Returns, Counted
  <1>19. CASE drain
    BY <1>19, OwnersConsumed
  <1>20. CASE take
    BY <1>20, OwnersTake
  <1>21. CASE take_end
    BY <1>21 DEF take_end, Returns
  <1>22. CASE Answer
    BY <1>22, UnreadLines DEF Answer, DatareadyRising, Answers
  <1>23. CASE Ready
    BY <1>23 DEF Ready, DatareadyRising, Selected
  <1>24. CASE UNCHANGED svars
    BY <1>24 DEF svars
  <1> QED
    BY <1>0, <1>1, <1>2, <1>3, <1>4, <1>5, <1>6, <1>7, <1>8, <1>9, <1>10,
       <1>11, <1>12, <1>13, <1>14, <1>15, <1>16, <1>17, <1>18, <1>19, <1>20,
       <1>21, <1>22, <1>23, <1>24
       DEF TransportNext, Driver

(* The wire stays the operation's bytes. *)
LEMMA WireKept ==
  ASSUME IInv, [TransportNext]_svars
  PROVE  Wire'
  <1>1. ASSUME NEW kind \in Kinds \ {"reset"}, Begin(kind) PROVE Wire'
    <2>1. kind \in Kinds /\ pc \notin Preparing
      BY <1>1 DEF Begin, Preparing
    <2> QED
      BY <1>1, <2>1, WireBegins DEF Begin
  <1>2. CASE scan_next
    <2>1. pc \notin Preparing /\ "scan1" \in Kinds
      BY <1>2 DEF scan_next, Preparing, Kinds
    <2> QED
      BY <1>2, <2>1, WireBegins DEF scan_next
  <1>3. CASE read
    <2>1. /\ pc \notin Preparing /\ pc' \notin Preparing /\ op' = op /\ tx' = tx
          /\ trace' = trace \/ \E u : trace' = [trace EXCEPT !.unread = u]
      BY <1>3, Zenon DEF read, Preparing
    <2>2. trace'.wire = trace.wire /\ trace'.sent = trace.sent /\ trace'.stale = trace.stale
      BY <2>1 DEF IInv, Typed, TraceType
    <2> QED
      BY <2>1, <2>2, WireStays DEF IInv
  <1>4. CASE \/ scan_skip \/ scan_match \/ scan_join \/ scan_networks
             \/ scan_last \/ scan_fail \/ drain \/ take
    <2>1. \/ trace' = trace \/ trace' = [trace EXCEPT !.unread = <<>>]
          \/ available(rx) /\ trace' \in {Consumed, Accepted, [Accepted EXCEPT !.unread = <<>>]}
      BY <1>4
         DEF scan_skip, scan_match, scan_join, scan_networks, scan_last,
             scan_fail, drain, take
    <2>2. trace'.wire = trace.wire /\ trace'.sent = trace.sent /\ trace'.stale = trace.stale
      BY <2>1, ConsumedFields DEF IInv, Typed, TraceType
    <2>3. /\ pc \notin Preparing /\ pc' \notin Preparing /\ tx' = tx
          /\ op'.n = op.n /\ op'.kind = op.kind
      BY <1>4
         DEF scan_skip, scan_match, scan_join, scan_networks, scan_last,
             scan_fail, drain, take,
                  Returns, Preparing, IInv, Typed, OpType
    <2> QED
      BY <2>2, <2>3, WireStays DEF IInv
  <1>5. CASE \/ recv \/ wait_cmddata_rdy_rising_event \/ Expire
             \/ rising_timeout \/ read_end \/ take_end
    <2>1. trace' = trace \/ \E from : trace' = [trace EXCEPT !.from = from]
      BY <1>5
         DEF recv, wait_cmddata_rdy_rising_event, Expire, rising_timeout,
             read_end, take_end
    <2>2. trace'.wire = trace.wire /\ trace'.sent = trace.sent /\ trace'.stale = trace.stale
      BY <2>1 DEF IInv, Typed, TraceType
    <2>3. /\ pc \notin Preparing /\ pc' \notin Preparing /\ tx' = tx
          /\ op'.n = op.n /\ op'.kind = op.kind
      BY <1>5
         DEF recv, Awaits, wait_cmddata_rdy_rising_event, Expire,
             rising_timeout, read_end, take_end,
                  Returns, Preparing, IInv, Typed, OpType
    <2> QED
      BY <2>2, <2>3, WireStays DEF IInv
  <1>6. CASE Answer \/ Ready \/ UNCHANGED svars
    <2>1. /\ UNCHANGED <<tx, pc, op, len>> /\ trace'.wire = trace.wire
          /\ trace'.sent = trace.sent /\ trace'.stale = trace.stale
      BY <1>6 DEF Answer, Ready, svars, IInv, Typed, TraceType
    <2> QED
      BY <2>1 DEF IInv, Wire, Copies
  <1> QED
    BY <1>1, <1>2, <1>3, <1>4, <1>5, <1>6, WireFill, WireWaits, WireTransmits,
       WireTransmitted
       DEF TransportNext, Driver

(* The invariant holds when the driver has reset the module. *)
LEMMA InitIInv == TransportInit => IInv
  <1> SUFFICES ASSUME TransportInit PROVE IInv
    OBVIOUS
  <1>1. 0 \in Numbers /\ Line(0, "pad") \in Lines
    BY TransportAssumption DEF Numbers, Line, Lines
  <1>2. /\ tx = clear(0) /\ tx \in Buffers(Numbers) /\ Contents(tx) = <<>>
        /\ rx \in Buffers(Lines) /\ Contents(rx) = <<>>
    BY <1>1, Emptying DEF TransportInit
  <1>3. /\ event = 1 /\ wifi = [phase |-> "busy", of |-> 0, out |-> <<>>] /\ pc = "recv"
        /\ op = [n |-> 0, kind |-> "reset", formats |-> <<"prompt">>, ok |-> FALSE]
        /\ len = 0 /\ first = TRUE /\ data = <<>>
        /\ trace = [wire |-> <<>>, sent |-> TRUE, from |-> {}, unread |-> <<>>,
                    stale |-> FALSE, executed |-> -1]
    BY DEF TransportInit, Formats
  <1>4. /\ <<>> \in Seq(Lines) /\ <<>> \in Seq(Numbers)
        /\ <<>> \in Seq(Lines \X Lines) /\ Len(<<>>) = 0
    OBVIOUS
  <1>5. Typed
    <2>1. wifi \in WifiType
      BY <1>1, <1>3, <1>4 DEF Phases, WifiType
    <2>2. op \in OpType
      BY <1>1, <1>3 DEF Kinds, FormatLists, OpType
    <2>3. trace \in TraceType
      BY <1>3, <1>4 DEF TraceType
    <2>4. len \in 0 .. Size + SendLen
      BY <1>3, SizeAssumption, TransportAssumption DEF Capacity
    <2> QED
      BY <1>2, <1>3, <1>4, <2>1, <2>2, <2>3, <2>4
         DEF Typed, WifiType, OpType, TraceType, Pcs
  <1>6. Handshake
    BY <1>3 DEF Handshake, Preparing
  <1>7. Parsing
    BY <1>3 DEF Parsing
  <1>8. Unread
    BY <1>2, <1>3 DEF Unread, Preparing
  <1>9. Shape
    BY <1>3, NothingHasShape DEF Shape
  <1>10. Owners
    BY <1>3, <1>4 DEF Owners, Preparing
  <1>11. Wire
    BY <1>2, <1>3 DEF Wire, Preparing
  <1> QED
    BY <1>5, <1>6, <1>7, <1>8, <1>9, <1>10, <1>11 DEF IInv

(* The inductive invariant holds in every reachable state, for every       *)
(* buffer size, burst and number of operations.                            *)
THEOREM TransportInvariant == TransportSpec => []IInv
  <1>1. IInv /\ [TransportNext]_svars => IInv'
    BY TypedKept, HandshakeKept, ParsingKept, UnreadKept, ShapeKept,
       OwnersKept, WireKept
       DEF IInv
  <1> QED
    BY <1>1, InitIInv, PTL DEF TransportSpec

(* The state stays of its types: the buffers' locations within their       *)
(* cells, every line one that the module can say.                          *)
THEOREM TransportTypes == TransportSpec => []TransportTypeOK
  <1>1. IInv => TransportTypeOK
    BY DEF IInv, Typed, WifiType, OpType, TraceType, Shape, TransportTypeOK,
           Phases
  <1> QED
    BY <1>1, TransportInvariant, PTL

(* The receive buffer holds, in order, exactly what the module delivered   *)
(* and the parser neither consumed nor flushed.                            *)
THEOREM NothingLost == TransportSpec => []NothingUnreadIsLost
  <1>1. IInv => NothingUnreadIsLost
    BY DEF IInv, Unread, NothingUnreadIsLost
  <1> QED
    BY <1>1, TransportInvariant, PTL

(* No operation leaves anything unread that the next would take for its    *)
(* own answer, nor anything for check_recv_status to fail on.              *)
THEOREM Clean == TransportSpec => []StartsClean
  <1>1. IInv => StartsClean
    BY RxIsUnread DEF IInv, Unread, StartsClean
  <1> QED
    BY <1>1, TransportInvariant, PTL

(* Once the module has answered in time, the driver is not waiting for the *)
(* pin's rise any more: no rise is missed.                                 *)
THEOREM NoMissedRise == TransportSpec => []RiseIsSeen
  <1>1. IInv => RiseIsSeen
    BY DEF IInv, Handshake, RiseIsSeen
  <1> QED
    BY <1>1, TransportInvariant, PTL

(* What goes over the wire for an operation is its own bytes, all of them  *)
(* and no others, unless an earlier send left its bytes behind.            *)
THEOREM OwnBytes == TransportSpec => []SendsOwnBytes
  <1>1. IInv => SendsOwnBytes
    BY DEF IInv, Wire, SendsOwnBytes, Copies
  <1> QED
    BY <1>1, TransportInvariant, PTL

-----------------------------------------------------------------------------
(* The transport implements Commands *)

(* A step that changes none of what Commands sees. *)
LEMMA PromiseStutters ==
  ASSUME op'.n = op.n, op'.ok = op.ok, pc # "idle" <=> pc' # "idle",
         trace'.sent = trace.sent, trace'.executed = trace.executed, trace'.from = trace.from
  PROVE  UNCHANGED Promise!vars
  <1>1. (pc # "idle") = (pc' # "idle")
    OBVIOUS
  <1> QED
    BY <1>1 DEF Promise!vars

(* An answer is taken, or the operation ends. *)
LEMMA PromiseConsumes ==
  ASSUME IInv, scan_match \/ scan_join \/ scan_networks \/ scan_last
  PROVE  [Promise!Next]_(Promise!vars)
  <1>1. /\ Typed /\ Unread /\ Owners /\ Parsing /\ Handshake
        /\ pc = "scan" /\ available(rx) /\ ~op.ok /\ op'.n = op.n
    BY DEF IInv, scan_match, scan_join, scan_networks, scan_last, Returns,
           Parsing, Typed, WifiType, OpType, TraceType
  <1>2. /\ get(rx).of \in 0 .. trace.executed
        /\ trace.sent => get(rx).of = op.n /\ trace.from \union {get(rx).of} = {op.n}
    <2>1. /\ get(rx).of \in Nat /\ get(rx).of <= trace.executed
          /\ trace.sent => get(rx).of = op.n /\ trace.from \subseteq {op.n}
      BY <1>1, RxIsUnread, ConsumedOwners DEF Owners, Numbers
    <2>2. trace.executed \in Int
      BY <1>1 DEF Typed, WifiType, OpType, TraceType, Numbers
    <2> QED
      BY <2>1, <2>2
  <1>3. /\ trace'.sent = trace.sent /\ trace'.executed = trace.executed
        /\ trace'.from \in {trace.from, trace.from \union {get(rx).of}}
    <2>1. trace' \in {Consumed, Accepted, [Accepted EXCEPT !.unread = <<>>]}
      BY DEF scan_match, scan_join, scan_networks, scan_last
    <2> QED
      BY <1>1, <2>1, ConsumedFields DEF Typed, TraceType, OpType, WifiType
  <1>4. trace'.from = trace.from \/ Promise!Hears
    BY <1>2, <1>3 DEF Promise!Hears
  <1>5. CASE pc' # "idle"
    <2>a. op.ok = FALSE
      BY <1>1 DEF Typed, WifiType, OpType, TraceType
    <2>b. ASSUME scan_match PROVE op.kind # "reset"
      BY <2>b, <1>1, <1>5, FormatsLeft DEF scan_match, Parsing
    <2>c. ASSUME scan_match PROVE op'.ok = FALSE
      BY <2>b, <2>c, <1>1 DEF scan_match, Typed, WifiType, OpType, TraceType
    <2>1. op'.ok = op.ok
      BY <2>a, <2>c, <1>5 DEF scan_join, scan_networks, scan_last, Returns
    <2>2. CASE trace'.from = trace.from
      BY <1>1, <1>3, <1>5, <2>1, <2>2, PromiseStutters
    <2>3. CASE Promise!Hears
      <3>1. Promise!Hear
        BY <1>1, <1>3, <1>5, <2>1, <2>3 DEF Promise!Hear
      <3> QED
        BY <3>1 DEF Promise!Next
    <2> QED
      BY <1>4, <2>2, <2>3
  <1>6. CASE pc' = "idle"
    <2>1. trace'.from = trace.from \union {get(rx).of}
      <3>1. trace' \in {Accepted, [Accepted EXCEPT !.unread = <<>>]}
        BY <1>6 DEF scan_match, scan_join, scan_networks, scan_last
      <3> QED
        BY <1>1, <3>1, ConsumedFields DEF Typed, TraceType, OpType, WifiType
    <2>2. op'.ok \in BOOLEAN
      BY <1>1, TypedKept
         DEF TransportNext, Driver, Typed, WifiType, OpType, TraceType
    <2>3. Promise!End(op'.ok)
      BY <1>1, <1>3, <1>6 DEF Promise!End
    <2>4. op'.ok = TRUE => Promise!Succeed
      BY <1>2, <1>4, <2>1, <2>3 DEF Promise!Succeed, Promise!Answered
    <2>5. op'.ok = FALSE => Promise!Fail
      BY <1>4, <2>3 DEF Promise!Fail
    <2> QED
      BY <2>2, <2>4, <2>5 DEF Promise!Next
  <1> QED
    BY <1>5, <1>6

(* The operation ends, with success only after an answer to it. *)
LEMMA PromiseReturns ==
  ASSUME IInv, rising_timeout \/ scan_fail \/ drain \/ take
  PROVE  [Promise!Next]_(Promise!vars)
  <1>1. /\ Typed /\ Unread /\ Owners /\ Parsing /\ Handshake
        /\ pc \notin Preparing \union {"idle"} /\ op.ok = FALSE
    BY DEF IInv, rising_timeout, scan_fail, drain, take, Parsing, Typed,
           WifiType, OpType, TraceType, Preparing
  <1>2. /\ op'.n = op.n /\ trace'.sent = trace.sent /\ trace'.executed = trace.executed
        /\ trace'.from = trace.from
    <2>1. \/ trace' = trace \/ (available(rx) /\ trace' = Consumed)
          \/ trace' = [trace EXCEPT !.unread = <<>>]
      BY DEF rising_timeout, scan_fail, drain, take
    <2>2. op'.n = op.n
      BY <1>1
         DEF rising_timeout, scan_fail, drain, take, Returns, Typed, WifiType,
             OpType, TraceType
    <2> QED
      BY <1>1, <2>1, <2>2, ConsumedFields
         DEF Typed, WifiType, OpType, TraceType
  <1>3. CASE pc' # "idle"
    <2>1. op' = op
      BY <1>3 DEF rising_timeout, scan_fail, drain, take, Returns
    <2> QED
      BY <1>1, <1>2, <1>3, <2>1, PromiseStutters
  <1>4. CASE pc' = "idle"
    <2>1. /\ op'.ok \in BOOLEAN
          /\ op'.ok = TRUE => drain \/ Counted
      <3>1. \/ Returns(Counted, rx) \/ Returns(Counted, Flushed(rx)) \/ Returns(FALSE, rx)
            \/ drain /\ (Returns(TRUE, rx) \/ Returns(TRUE, Taken(rx)))
        BY <1>1, <1>4 DEF rising_timeout, scan_fail, drain, take
      <3>2. Counted \in BOOLEAN
        BY DEF Counted
      <3> QED
        BY <1>1, <3>1, <3>2 DEF Returns, Typed, WifiType, OpType, TraceType
    <2>2. Promise!End(op'.ok)
      BY <1>1, <1>2, <1>4 DEF Promise!End
    <2>3. op'.ok = TRUE => (trace.sent => trace.from = {op.n})
      <3>1. drain => pc = "drain"
        BY DEF drain
      <3> QED
        BY <1>1, <2>1, <3>1 DEF Owners, Counted
    <2>4. op'.ok = TRUE => Promise!Succeed
      BY <1>2, <2>2, <2>3 DEF Promise!Succeed, Promise!Answered
    <2>5. op'.ok = FALSE => Promise!Fail
      BY <1>2, <2>2 DEF Promise!Fail
    <2> QED
      BY <2>1, <2>4, <2>5 DEF Promise!Next
  <1> QED
    BY <1>3, <1>4

(* The data of a receive is judged. *)
LEMMA PromiseTakeEnd ==
  ASSUME IInv, take_end
  PROVE  Promise!Next
  <1> DEFINE text == { i \in 1 .. Len(data) : data[i].is # "pad" }
             from == { data[i].of : i \in text }
  <1>1. /\ pc = "take" /\ op.kind = "receive" /\ trace.sent /\ trace.from = {}
        /\ \A i \in 1 .. Len(data) : data[i].of = op.n
        /\ wifi.of = op.n /\ wifi.phase \in Phases /\ op.n \in Nat
    BY DEF IInv, take_end, Parsing, Handshake, Owners, Preparing, Typed,
           WifiType, OpType, TraceType, Numbers
  <1>2. from = {} \/ from = {op.n}
    BY <1>1
  <1>3. PICK good \in BOOLEAN : /\ Returns(good, rx)
                                /\ good => text # {}
    <2> DEFINE good == \E i \in text : /\ \A j \in text : j <= i
                                       /\ i > 2 /\ data[i].is = "prompt" /\ data[i - 2].is = "OK"
    <2>1. Returns(good, rx)
      BY Zenon DEF take_end
    <2>2. good \in BOOLEAN /\ (good => text # {})
      OBVIOUS
    <2> QED
      BY <2>1, <2>2
  <1>4. text # {} => from = {op.n}
    BY <1>1
  <1>5. trace' = [trace EXCEPT !.from = from]
    BY DEF take_end
  <1> HIDE DEF from, text
  <1>6. /\ trace'.from = from /\ trace'.sent = trace.sent /\ trace'.executed = trace.executed
        /\ pc' = "idle" /\ op'.n = op.n /\ op'.ok = good
    BY <1>3, <1>5 DEF Returns, IInv, Typed, WifiType, OpType, TraceType
  <1>7. Promise!End(good)
    BY <1>1, <1>6 DEF Promise!End
  <1>8. trace'.from = trace.from \/ Promise!Hears
    <2>1. from = {op.n} => op.n <= trace.executed
      <3>1. data = <<>> => text = {}
        BY DEF text
      <3>2. text = {} => from = {}
        BY DEF from
      <3> QED
        BY <1>1, <3>1, <3>2 DEF IInv, Owners
    <2> QED
      BY <1>1, <1>2, <1>6, <2>1 DEF Promise!Hears
  <1>9. CASE good = TRUE
    BY <1>1, <1>3, <1>4, <1>6, <1>7, <1>8, <1>9
       DEF Promise!Succeed, Promise!Answered, Promise!Next
  <1>10. CASE good = FALSE
    BY <1>6, <1>7, <1>8, <1>10 DEF Promise!Fail, Promise!Next
  <1> QED
    BY <1>9, <1>10

(* Every step of the transport is one of Commands or none. *)
LEMMA PromiseStep ==
  ASSUME IInv, [TransportNext]_svars
  PROVE  [Promise!Next]_(Promise!vars)
  <1>0. Typed
    BY DEF IInv
  <1>1. ASSUME NEW kind \in Kinds \ {"reset"}, Begin(kind) PROVE Promise!Next
    <2>1. /\ pc = "idle" /\ pc' # "idle" /\ op'.n = op.n + 1 /\ op'.ok = FALSE
          /\ trace'.sent = FALSE /\ trace'.from = {} /\ trace'.executed = trace.executed
      BY <1>0, <1>1
         DEF Begin, Starts, Started, Typed, WifiType, OpType, TraceType
    <2>2. (pc' # "idle") = TRUE
      BY <2>1
    <2>3. Promise!Issue
      BY <2>1, <2>2 DEF Promise!Issue, Promise!Issued
    <2> QED
      BY <2>3 DEF Promise!Next
  <1>2. CASE scan_next
    <2>1. /\ pc = "scan" /\ pc' # "idle" /\ op'.n = op.n + 1 /\ op'.ok = FALSE
          /\ trace'.sent = FALSE /\ trace'.from = {} /\ trace'.executed = trace.executed
          /\ op.kind = "scan1" /\ available(rx)
      BY <1>0, <1>2
         DEF scan_next, Starts, Started, Typed, WifiType, OpType, TraceType
    <2>2. trace.sent /\ trace.from \subseteq {op.n}
      BY <2>1 DEF IInv, Handshake, Preparing, Owners
    <2>3. op.n <= trace.executed
      BY <2>1, <2>2, ConsumedOwners DEF IInv
    <2>4. (pc' # "idle") = TRUE
      BY <2>1
    <2>5. Promise!Continue
      BY <2>1, <2>2, <2>3, <2>4 DEF Promise!Continue, Promise!Issued
    <2> QED
      BY <2>5 DEF Promise!Next
  <1>3. CASE Transmitted
    <2>1. /\ pc # "idle" /\ pc' # "idle" /\ op' = op /\ trace.sent = FALSE /\ trace'.sent = TRUE
          /\ trace'.from = trace.from /\ trace'.executed = trace.executed
      BY <1>0, <1>3
         DEF Transmitted, Typed, WifiType, OpType, TraceType, IInv, Handshake,
             Preparing
    <2>2. Promise!Give
      BY <2>1 DEF Promise!Give
    <2> QED
      BY <2>2 DEF Promise!Next
  <1>4. CASE Answer
    <2>1. /\ pc' = pc /\ op' = op /\ trace'.sent = trace.sent /\ trace'.from = trace.from
          /\ trace'.executed = wifi.of
          /\ trace.executed < wifi.of /\ wifi.of <= op.n
          /\ wifi.of \in Int /\ op.n \in Int /\ trace.executed \in Int
      BY <1>0, <1>4
         DEF Answer, Typed, WifiType, OpType, TraceType, IInv, Handshake,
             Numbers
    <2>2. Promise!Execute
      BY <2>1 DEF Promise!Execute
    <2> QED
      BY <2>2 DEF Promise!Next
  <1>5. CASE high_timeout
    <2>1. /\ pc = "wait_high" /\ op' = op /\ op.ok = FALSE /\ trace'.sent = trace.sent
          /\ trace'.from = trace.from /\ trace'.executed = trace.executed
      BY <1>0, <1>5
         DEF high_timeout, Typed, WifiType, OpType, TraceType, IInv, Parsing
    <2>2. CASE pc' = "idle"
      <3>1. Promise!Fail
        BY <2>1, <2>2 DEF Promise!Fail, Promise!End
      <3> QED
        BY <3>1 DEF Promise!Next
    <2>3. CASE pc' # "idle"
      BY <2>1, <2>3, PromiseStutters
    <2> QED
      BY <2>2, <2>3
  <1>6. CASE recv
    <2>1. /\ pc = "recv" /\ op' = op /\ trace' = trace
          /\ pc' # "idle"
      BY <1>6, RxIsUnread DEF recv, Awaits, IInv, Unread
    <2> QED
      BY <2>1, PromiseStutters
  <1>7. CASE \/ fill \/ wait_cmddata_rdy_high \/ wait_cmddata_rdy_rising_event
             \/ Expire \/ read_end \/ Ready
    <2>1. /\ op' = op /\ trace' = trace /\ (pc # "idle" <=> pc' # "idle")
      BY <1>7
         DEF fill, wait_cmddata_rdy_high, wait_cmddata_rdy_rising_event,
             Expire, read_end, Ready
    <2> QED
      BY <2>1, PromiseStutters
  <1>8. CASE txIrq \/ read \/ scan_skip
    <2>1. /\ op' = op /\ (pc # "idle" <=> pc' # "idle")
          /\ trace'.sent = trace.sent /\ trace'.from = trace.from /\ trace'.executed = trace.executed
      <3>1. CASE txIrq
        BY <1>0, <3>1 DEF txIrq, Typed, WifiType, OpType, TraceType
      <3>2. CASE read
        <4>1. trace' = trace \/ \E u : trace' = [trace EXCEPT !.unread = u]
          BY <3>2, Zenon DEF read
        <4>2. op' = op /\ pc' = pc
          BY <3>2 DEF read
        <4> QED
          BY <1>0, <4>1, <4>2 DEF Typed, WifiType, OpType, TraceType
      <3>3. CASE scan_skip
        BY <1>0, <3>3, ConsumedFields DEF scan_skip, IInv
      <3> QED
        BY <1>8, <3>1, <3>2, <3>3
    <2> QED
      BY <2>1, PromiseStutters
  <1>9. CASE UNCHANGED svars
    BY <1>9, PromiseStutters DEF svars
  <1> QED
    BY <1>1, <1>2, <1>3, <1>4, <1>5, <1>6, <1>7, <1>8, <1>9,
       PromiseConsumes, PromiseReturns, PromiseTakeEnd DEF TransportNext, Driver

(* The transport implements Commands: the module executes each operation   *)
(* at most once and in the order of issue, and only one that was executed  *)
(* and answered by itself succeeds.                                        *)
THEOREM ImplementsThePromise == TransportSpec => ImplementsCommands
  <1>1. TransportInit => Promise!Init
    BY DEF TransportInit, Promise!Init
  <1> QED
    BY <1>1, PromiseStep, TransportInvariant, PTL
       DEF TransportSpec, ImplementsCommands, Promise!Spec

=============================================================================
