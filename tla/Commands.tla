------------------------------ MODULE Commands ------------------------------
(***************************************************************************)
(* What the transport promises to class ISM43362, which drives the Wi-Fi   *)
(* module with commands: the module executes each of them at most once and *)
(* in the order in which they were issued, if it was given them at all,    *)
(* possibly when the driver has given up already; and one that succeeds    *)
(* was answered by itself, hence executed.                                 *)
(***************************************************************************)
EXTENDS Integers

VARIABLES
  issued,    \* the last command's number; the first is the module's reset
  busy,      \* whether it is under way
  given,     \* whether the module was given it
  executed,  \* the last one that the module has executed, or -1
  heard,     \* those whose answers were taken since it was issued
  ok         \* whether it has succeeded

vars == <<issued, busy, given, executed, heard, ok>>

Init ==
  /\ issued = 0 /\ busy = TRUE /\ given = TRUE
  /\ executed = -1 /\ heard = {} /\ ok = FALSE

Issued ==
  /\ issued' = issued + 1
  /\ given' = FALSE /\ heard' = {}
  /\ busy' = TRUE /\ ok' = FALSE
  /\ UNCHANGED executed

Issue == ~busy /\ Issued

Give ==
  /\ busy /\ ~given
  /\ given' = TRUE
  /\ UNCHANGED <<issued, busy, executed, heard, ok>>

Execute ==
  /\ \E n \in executed + 1 .. issued : executed' = n
  /\ UNCHANGED <<issued, busy, given, heard, ok>>

(* Only what was executed is answered. *)
Hears == heard' \in { heard \union {n} : n \in 0 .. executed }

Hear ==
  /\ busy /\ Hears
  /\ UNCHANGED <<issued, busy, given, executed, ok>>

(* Its own answer, and no other.  Of what it was never given (data whose   *)
(* transmission timed out, without anybody noticing) the module may have   *)
(* said anything.                                                          *)
Answered == given => heard' = {issued}

End(result) == busy /\ busy' = FALSE /\ ok' = result /\ UNCHANGED <<issued, given, executed>>

Succeed == End(TRUE) /\ (Hears \/ UNCHANGED heard) /\ Answered

Fail == End(FALSE) /\ (Hears \/ UNCHANGED heard)

(* A command that was answered has another issued, as long as there are    *)
(* networks to list.                                                       *)
Continue ==
  /\ busy /\ given
  /\ heard \subseteq {issued} /\ issued <= executed
  /\ Issued

Next == Issue \/ Give \/ Execute \/ Hear \/ Succeed \/ Fail \/ Continue

Spec == Init /\ [][Next]_vars
=============================================================================
