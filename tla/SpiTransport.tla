---------------------------- MODULE SpiTransport ----------------------------
(***************************************************************************)
(* How a command and its answer travel between the driver and the Wi-Fi    *)
(* module: BufferedSpi with its two ring buffers and the interrupt of the  *)
(* module's data-ready pin, and what ATParser and ISM43362 do with the     *)
(* lines that arrive.  Operations come one at a time, since the interface  *)
(* holds its mutex; the interrupt and the time-outs come at any time.      *)
(*                                                                         *)
(* A character of the code is a token here: the number of its command, or, *)
(* in an answer, a line, a prompt or a padding byte with the command that  *)
(* it answers.  Two of them make an SPI word.                              *)
(***************************************************************************)
EXTENDS MyBuffer

CONSTANTS MaxOps,    \* bound: operations
          CommandLen, SendLen  \* tokens of a command, of a send with its data

(* The code's buffers have 2500 cells; what is sent fits into them.        *)
ASSUME TransportAssumption ==
  /\ Size % 2 = 0
  /\ MaxOps \in Nat
  /\ CommandLen \in 1 .. Capacity /\ SendLen \in 1 .. Capacity

Numbers == 0 .. MaxOps

Kinds == {"reset", "command", "query", "join", "scan", "scan1", "receive", "send"}

Line(n, is) == [of |-> n, is |-> is]

(* A prompt is ">" and a space; it is matched, as "prompt", at the second.  *)
Lines == [of : Numbers, is : {"crlf", "text", "failed", "OK", ">", "prompt", "pad"}]

VARIABLES
  tx, rx,   \* _txbuf and _rxbuf
  event,    \* _cmddata_rdy_rising_event: 1 until the awaited rise
  wifi,     \* the module: what it does, for which command, its answer's rest
  pc,       \* what the driver's thread executes
  op,       \* the operation's number, kind and the formats it is to receive,
            \*   and whether it succeeded
  len,      \* len of read, and of the loops that put or take so many
  first,    \* FirstRemoved
  data,     \* the bytes that ATParser::read returns
  trace     \* history: wire, what was transmitted for the operation, whether
            \*   it was (sent), whose lines it accepted (from), what was read
            \*   and not consumed (unread), whether a send that was not
            \*   transmitted is still in _txbuf (stale), and the last that the
            \*   module has executed

svars == <<tx, rx, event, wifi, pc, op, len, first, data, trace>>

(* The data-ready pin: the module takes a command or has an answer. *)
DataReady == wifi.phase \in {"ready", "answer"}

(* nss is low, from enable_nss to disable_nss. *)
Selected == pc \in {"read", "txIrq"} \/ (pc = "fill" /\ op.kind # "send")

(* The recv calls of an operation, check_response's included. *)
Formats(kind) ==
  CASE kind = "reset" -> <<"prompt">>
    [] kind \in {"command", "send"} -> <<"OK", "prompt">>
    [] kind = "query" -> <<"line", "OK", "prompt">>
    [] kind \in {"join", "scan", "scan1"} -> <<"line">>
    [] kind = "receive" -> <<>>

Length(kind) == IF kind = "send" THEN SendLen ELSE CommandLen

TransportTypeOK ==
  /\ tx \in Buffers(Numbers) /\ rx \in Buffers(Lines)
  /\ event \in {0, 1}
  /\ wifi.phase \in {"ready", "busy", "answer", "pause"}
  /\ wifi.of \in Numbers /\ wifi.out \in Seq(Lines \X Lines)
  /\ wifi.phase = "answer" <=> wifi.out # <<>>
  /\ op.n \in Numbers /\ op.kind \in Kinds /\ op.ok \in BOOLEAN
  /\ len \in 0 .. Size + SendLen /\ first \in BOOLEAN
  /\ data \in Seq(Lines) /\ trace.unread \in Seq(Lines)

(* The driver starts with a reset of the module, whose prompt it awaits.   *)
TransportInit ==
  /\ tx = clear(0) /\ rx = clear(Line(0, "pad"))
  /\ event = 1
  /\ wifi = [phase |-> "busy", of |-> 0, out |-> <<>>]
  /\ pc = "recv"
  /\ op = [n |-> 0, kind |-> "reset", formats |-> Formats("reset"), ok |-> FALSE]
  /\ len = 0 /\ first = TRUE /\ data = <<>>
  /\ trace = [wire |-> <<>>, sent |-> TRUE, from |-> {}, unread |-> <<>>,
             stale |-> FALSE, executed |-> -1]

----------------------------------------------------------------------------
(* Sending: buffwrite of a command; printf and write of a send's data. *)

(* Mutant of Emptied: buffwrite does not flush what a send left. *)
NotEmptied(b) == b

Emptied(b) == clear(0)

(* A command's buffwrite flushes _txbuf and then waits for the module;     *)
(* send's printf adds to what is there.                                    *)
Starts(kind) ==
  /\ op.n < MaxOps
  /\ op' = [n |-> op.n + 1, kind |-> kind, formats |-> Formats(kind), ok |-> FALSE]
  /\ len' = 0 /\ data' = <<>>
  /\ IF kind = "send" THEN pc' = "fill" /\ UNCHANGED tx
                      ELSE pc' = "wait_high" /\ tx' = Emptied(tx)
  /\ UNCHANGED <<event, wifi, first>>

Started(kind) ==
  [trace EXCEPT !.wire = <<>>, !.sent = FALSE, !.from = {},
                !.stale = @ /\ ~trace.sent /\ kind = "send"]

Begin(kind) ==
  /\ pc = "idle"
  /\ Starts(kind)
  /\ trace' = Started(kind)
  /\ UNCHANGED rx

fill ==
  /\ pc = "fill"
  /\ tx' = put(tx, op.n)
  /\ len' = len + 1
  /\ pc' = IF len' < Length(op.kind) THEN "fill"
           ELSE IF op.kind = "send" THEN "wait_high" ELSE "txIrq"
  /\ UNCHANGED <<rx, event, wifi, op, first, data, trace>>

(* Mutant of wait_cmddata_rdy_high: the flag is not set. *)
wait_cmddata_rdy_high_unset ==
  /\ pc = "wait_high" /\ DataReady
  /\ pc' = IF op.kind = "send" THEN "txIrq" ELSE "fill"
  /\ UNCHANGED <<tx, rx, event, wifi, op, len, first, data, trace>>

(* The pin is high, so that no rise comes between its reading and the      *)
(* setting of the flag.                                                    *)
wait_cmddata_rdy_high ==
  /\ pc = "wait_high" /\ DataReady
  /\ event' = 1
  /\ pc' = IF op.kind = "send" THEN "txIrq" ELSE "fill"
  /\ UNCHANGED <<tx, rx, wifi, op, len, first, data, trace>>

(* A command that could not be sent has failed; ATParser::write ignores    *)
(* that buffsend returned -1 and the send goes on to await its answer.     *)
high_timeout ==
  /\ pc = "wait_high" /\ ~DataReady
  /\ pc' = IF op.kind = "send" THEN "recv" ELSE "idle"
  /\ trace' = [trace EXCEPT !.stale = op.kind = "send"]
  /\ UNCHANGED <<tx, rx, event, wifi, op, len, first, data>>

(* One word of txIrq's loop; an odd byte is sent with a line feed. *)
txIrq ==
  /\ pc = "txIrq" /\ available(tx)
  /\ LET one == Taken(tx)
     IN  IF available(one)
         THEN /\ tx' = Taken(one)
              /\ trace' = [trace EXCEPT !.wire = @ \o <<get(tx), get(one)>>]
         ELSE /\ tx' = one
              /\ trace' = [trace EXCEPT !.wire = Append(@, get(tx))]
  /\ UNCHANGED <<rx, event, wifi, pc, op, len, first, data>>

(* The module takes the command; one that still has an answer to deliver   *)
(* may drop the answer or the command.                                     *)
Transmitted ==
  /\ pc = "txIrq" /\ ~available(tx)
  /\ \/ wifi' = [phase |-> "busy", of |-> op.n, out |-> <<>>]
     \/ wifi.phase = "answer" /\ UNCHANGED wifi
  /\ pc' = "recv"
  /\ trace' = [trace EXCEPT !.sent = TRUE]
  /\ UNCHANGED <<tx, rx, event, op, len, first, data>>

----------------------------------------------------------------------------
(* Reading an answer into _rxbuf. *)

(* The operation returns; check_response flushes when it fails.  *)
Returns(ok, b) ==
  /\ pc' = "idle"
  /\ op' = [op EXCEPT !.ok = ok]
  /\ rx' = b
  /\ UNCHANGED <<tx, len, first, wifi>>

(* scan returns the networks that it has counted when a recv fails. *)
Counted == op.kind = "scan" /\ trace.from # {}

(* Mutant of Awaits: the flag is set again where the wait begins. *)
AwaitsAnew == pc' = "wait_rising" /\ event' = 1

Awaits == pc' = "wait_rising" /\ UNCHANGED event

(* vrecv and ATParser::read read only when nothing is unread; with unread  *)
(* bytes the second fails.                                                 *)
recv ==
  /\ pc = "recv"
  /\ IF ~available(rx) THEN Awaits /\ UNCHANGED op
     ELSE /\ IF op.kind = "receive" THEN pc' = "idle" ELSE pc' = "scan"
          /\ UNCHANGED <<op, event>>
  /\ UNCHANGED <<tx, rx, wifi, len, first, data, trace>>

(* No rise is awaited if the last one was seen already. *)
wait_cmddata_rdy_rising_event ==
  /\ pc = "wait_rising" /\ event = 0
  /\ pc' = "read" /\ len' = 0 /\ first' = TRUE
  /\ UNCHANGED <<tx, rx, event, wifi, op, data, trace>>

(* Mutant of Expire: the time-out counts only when the rise was missed. *)
ExpireIfMissed ==
  /\ pc = "wait_rising" /\ event = 1 /\ DataReady
  /\ pc' = "expired"
  /\ UNCHANGED <<tx, rx, event, wifi, op, len, first, data, trace>>

(* The time-out is noticed; the rise may still come before the flag is     *)
(* reset.                                                                  *)
Expire ==
  /\ pc = "wait_rising" /\ event = 1
  /\ pc' = "expired"
  /\ UNCHANGED <<tx, rx, event, wifi, op, len, first, data, trace>>

rising_timeout ==
  /\ pc = "expired"
  /\ event' = 0
  /\ Returns(Counted, rx)
  /\ UNCHANGED <<data, trace>>

(* Mutant of Burst: read fills all cells. *)
BurstWhole == Size

Burst == Size - 2

CRLF(n) == <<Line(n, "crlf"), Line(n, "crlf")>>

Padding == <<Line(wifi.of, "pad"), Line(wifi.of, "pad")>>

(* One word of read's loop.  A module that awaits a command pads. *)
read ==
  LET word == IF wifi.out = <<>> THEN Padding ELSE Head(wifi.out)
  IN  /\ pc = "read" /\ DataReady /\ len < Burst
      /\ IF len = 0 /\ word = CRLF(wifi.of) /\ first
         THEN first' = FALSE /\ UNCHANGED <<rx, len, trace>>
         ELSE /\ rx' = put(put(rx, word[1]), word[2])
              /\ len' = len + 2
              /\ trace' = [trace EXCEPT !.unread = @ \o word]
              /\ UNCHANGED first
      /\ wifi' = IF wifi.out = <<>> THEN wifi
                 ELSE [wifi EXCEPT !.out = Tail(@),
                                   !.phase = IF Tail(wifi.out) = <<>> THEN "pause" ELSE @]
      /\ UNCHANGED <<tx, event, pc, op, data>>

read_end ==
  /\ pc = "read" /\ (~DataReady \/ len >= Burst)
  /\ pc' = IF op.kind = "receive" THEN "take" ELSE "scan"
  /\ UNCHANGED <<tx, rx, event, wifi, op, len, first, data, trace>>

----------------------------------------------------------------------------
(* Parsing what was read. *)

Matches(format, line) ==
  IF format = "line" THEN line.is \in {"text", "failed", "OK"} ELSE line.is = format

Consumed == [trace EXCEPT !.unread = Tail(@)]

Accepted == [Consumed EXCEPT !.from = @ \union {get(rx).of}]

(* Mutant of FlushAfterJoin: what follows the OK stays. *)
NoFlushAfterJoin(b) == b

FlushAfterJoin(b) == Flushed(b)

(* vrecv skips lines until one matches its format.                         *)
scan_skip ==
  /\ pc = "scan" /\ available(rx)
  /\ ~Matches(Head(op.formats), get(rx))
  /\ rx' = Taken(rx) /\ trace' = Consumed
  /\ UNCHANGED <<tx, event, wifi, pc, op, len, first, data>>

(* A match, outside connect and scan: the next recv; the padding after the *)
(* prompt; reset expects none.                                             *)
scan_match ==
  /\ pc = "scan" /\ available(rx)
  /\ op.kind \notin {"join", "scan", "scan1"} /\ Matches(Head(op.formats), get(rx))
  /\ rx' = Taken(rx) /\ trace' = Accepted
  /\ op' = [op EXCEPT !.formats = Tail(@), !.ok = op.kind = "reset"]
  /\ pc' = IF Tail(op.formats) # <<>> THEN "recv"
           ELSE IF op.kind = "reset" THEN "idle" ELSE "drain"
  /\ UNCHANGED <<tx, event, wifi, len, first, data>>

(* connect reads line after line until OK or a failure, and then flushes.  *)
scan_join ==
  /\ pc = "scan" /\ available(rx)
  /\ op.kind = "join" /\ Matches("line", get(rx))
  /\ IF get(rx).is = "text"
     THEN pc' = "recv" /\ rx' = Taken(rx) /\ trace' = Consumed /\ UNCHANGED op
     ELSE /\ pc' = "idle" /\ op' = [op EXCEPT !.ok = get(rx).is = "OK"]
          /\ rx' = FlushAfterJoin(Taken(rx))
          /\ trace' = [Accepted EXCEPT !.unread = <<>>]
  /\ UNCHANGED <<tx, event, wifi, len, first, data>>

(* scan reads lines until none comes, and flushes.                         *)
scan_networks ==
  /\ pc = "scan" /\ available(rx)
  /\ op.kind = "scan" /\ Matches("line", get(rx))
  /\ rx' = Taken(rx)
  /\ trace' = IF get(rx).is = "text" THEN Accepted ELSE Consumed
  /\ pc' = "recv"
  /\ UNCHANGED <<tx, event, wifi, op, len, first, data>>

(* With newer firmware it takes one network of an answer, flushes the rest *)
(* and asks for the next with MR, the next operation here, however many    *)
(* they are: after the last operation of the bound nothing follows ...     *)
scan_next ==
  /\ pc = "scan" /\ available(rx)
  /\ op.kind = "scan1" /\ get(rx).is = "text"
  /\ Starts("scan1")
  /\ rx' = Flushed(rx)
  /\ trace' = [Started("scan1") EXCEPT !.unread = <<>>]

(* ... until OK or ERROR is a line.                                        *)
scan_last ==
  /\ pc = "scan" /\ available(rx)
  /\ op.kind = "scan1" /\ get(rx).is \in {"OK", "failed"}
  /\ Returns(get(rx).is # "failed", Flushed(rx))
  /\ trace' = [Accepted EXCEPT !.unread = <<>>]
  /\ UNCHANGED <<event, data>>

(* Nothing more: recv fails, and check_response, or scan, flushes.         *)
scan_fail ==
  /\ pc = "scan" /\ ~available(rx)
  /\ Returns(Counted, Flushed(rx))
  /\ trace' = [trace EXCEPT !.unread = <<>>]
  /\ UNCHANGED <<event, data>>

(* check_response drops the padding, and the byte after it. *)
drain ==
  /\ pc = "drain"
  /\ IF available(rx) /\ get(rx).is = "pad"
     THEN rx' = Taken(rx) /\ trace' = Consumed /\ UNCHANGED <<tx, pc, op, len, first, wifi>>
     ELSE IF available(rx)
     THEN Returns(TRUE, Taken(rx)) /\ trace' = Consumed
     ELSE Returns(TRUE, rx) /\ UNCHANGED trace
  /\ UNCHANGED <<event, data>>

(* ATParser::read copies the bytes that were read ... *)
take ==
  /\ pc = "take" /\ len > 0
  /\ IF available(rx)
     THEN /\ data' = Append(data, get(rx)) /\ len' = len - 1
          /\ rx' = Taken(rx) /\ trace' = Consumed
          /\ UNCHANGED <<tx, pc, op, first, wifi>>
     ELSE Returns(FALSE, rx) /\ UNCHANGED <<data, trace>>
  /\ UNCHANGED event

(* ... and check_recv_status looks for OK and a prompt before the padding. *)
take_end ==
  LET text == { i \in 1 .. Len(data) : data[i].is # "pad" }
      good == \E i \in text : /\ \A j \in text : j <= i
                              /\ i > 2 /\ data[i].is = "prompt" /\ data[i - 2].is = "OK"
  IN  /\ pc = "take" /\ len = 0
      /\ Returns(good, rx)
      /\ trace' = [trace EXCEPT !.from = { data[i].of : i \in text }]
      /\ UNCHANGED <<event, data>>

----------------------------------------------------------------------------
(* The module. *)

(* The interrupt of the pin's rise. *)
DatareadyRising == event' = 0

(* It executes the command.  Its answers, in words: OK, an error, data,    *)
(* and more than read reads.                                               *)
Answers(n) ==
  LET word(a, b) == <<Line(n, a), Line(n, b)>>
  IN  IF n = 0 THEN { << CRLF(n), word(">", "prompt") >> }
      ELSE { << CRLF(n), word("OK", ">"), word("prompt", "pad") >>,
             << CRLF(n), word("failed", ">"), word("prompt", "pad") >>,
             << CRLF(n), word("text", "OK"), word(">", "prompt") >>,
             << CRLF(n), word("text", "text"), word("text", "OK"), word(">", "prompt") >> }

Answer ==
  /\ wifi.phase = "busy"
  /\ \E out \in Answers(wifi.of) : wifi' = [wifi EXCEPT !.phase = "answer", !.out = out]
  /\ DatareadyRising
  /\ trace' = [trace EXCEPT !.executed = wifi.of]
  /\ UNCHANGED <<tx, rx, pc, op, len, first, data>>

(* The answer was read and the pin fell: when nss is up again, the module  *)
(* awaits a command.                                                       *)
Ready ==
  /\ wifi.phase = "pause" /\ ~Selected
  /\ wifi' = [wifi EXCEPT !.phase = "ready"]
  /\ DatareadyRising
  /\ UNCHANGED <<tx, rx, pc, op, len, first, data, trace>>

Driver ==
  \/ fill \/ wait_cmddata_rdy_high \/ high_timeout \/ txIrq \/ Transmitted
  \/ recv \/ wait_cmddata_rdy_rising_event \/ Expire \/ rising_timeout \/ read \/ read_end
  \/ scan_skip \/ scan_match \/ scan_join
  \/ scan_networks \/ scan_next \/ scan_last \/ scan_fail \/ drain \/ take \/ take_end

TransportNext ==
  \/ \E kind \in Kinds \ {"reset"} : Begin(kind)
  \/ Driver
  \/ Answer \/ Ready

TransportSpec == TransportInit /\ [][TransportNext]_svars /\ WF_svars(Driver)

----------------------------------------------------------------------------

(* The receive buffer loses, repeats or reorders nothing: read's limit and *)
(* the rule that nothing is read while something is unread keep it from    *)
(* the element too many after which it would look empty.                   *)
NothingUnreadIsLost == Contents(rx) = trace.unread

(* No operation leaves anything that the next would take for its answer,   *)
(* or that would make check_recv_status fail on pending data.              *)
StartsClean == pc = "idle" => ~available(rx)

(* Although an answer may come after its command has timed out, or a       *)
(* command be dropped, an operation accepts only its own answer, and       *)
(* succeeds only if the module has executed it; none is executed twice or  *)
(* after a later one.  A list of networks keeps the answers apart, too.    *)
Promise ==
  INSTANCE Commands WITH issued <- op.n, busy <- pc # "idle", given <- trace.sent,
                         executed <- trace.executed, heard <- trace.from, ok <- op.ok
ImplementsCommands == Promise!Spec

(* No missed rise: once the module has answered in time, the driver is not *)
(* waiting for the rise any more.                                          *)
RiseIsSeen ==
  pc = "wait_rising" /\ wifi.phase = "answer" /\ wifi.of = op.n /\ trace.sent => event = 0

(* What is transmitted for an operation is its own bytes, all of them,     *)
(* unless a send before it was not: no command ever carries such a send's. *)
SendsOwnBytes ==
  pc = "recv" /\ trace.sent /\ op.kind # "reset" /\ ~trace.stale
    => trace.wire = [i \in 1 .. Length(op.kind) |-> op.n]

(* No command holds the driver for ever, whether the module answers it or  *)
(* not: the operation returns, or a list of networks goes on to the next   *)
(* MR.  (That list ends only if the module's does.  What is assumed of the *)
(* module is one finite answer to a command at most.  MaxOps stops the     *)
(* model, not the code, at an MR: of the last operation only the other     *)
(* kinds count.)                                                           *)
CommandsEnd ==
  /\ pc # "idle" /\ op.kind # "scan1" ~> pc = "idle"
  /\ \A n \in 0 .. MaxOps - 1 : pc # "idle" /\ op.n = n ~> pc = "idle" \/ op.n > n
=============================================================================
