-------------------------- MODULE ConnectionProofs --------------------------
(***************************************************************************)
(* Proofs about the network connection, for any number of threads and      *)
(* networks and whichever commands fail: mutual exclusion, that the module *)
(* is made to join one network, the one asked for, and that the status is  *)
(* true after a success.                                                   *)
(***************************************************************************)
EXTENDS Connection, TLAPS

Copies == {"copy_ssid", "copy_pass", "copy_sec"}
Joining == {"C0", "joined", "refused", "C?"}
Attempt == {"C4", "C1", "C2", "C3"} \union Joining

(* What set_credentials has copied so far; when nobody copies, the three   *)
(* are of one network, if any.                                             *)
Copied ==
  /\ \A t \in Threads :
       /\ pc[t] \in Copies \union {"set"} => named[t] \in Networks
       /\ pc[t] = "copy_ssid" => ap.ssid = None
       /\ pc[t] \in {"copy_pass", "copy_sec"} => ap.ssid = named[t]
       /\ pc[t] = "copy_sec" => ap.pass = named[t]
  /\ (\A t \in Threads : pc[t] \notin Copies)
       => ap.pass = ap.ssid /\ ap.sec = ap.ssid

(* Who waits to connect, or does, found an SSID, which only another's      *)
(* set_credentials clears, and which that thread then copies.              *)
HasSsid ==
  \A t \in Threads :
    pc[t] \in Attempt \union {"lock"} =>
      ap.ssid # None \/ \E u \in Threads : pc[u] = "copy_ssid"

(* How far the module has been told the credentials. *)
Told ==
  \A t \in Threads :
    /\ pc[t] \in Joining \union {"C2", "C3"} => module.ssid = ap.ssid
    /\ pc[t] \in Joining \union {"C3"} => module.pass = ap.pass
    /\ pc[t] \in Joining =>
         module.sec = ap.sec /\ ap.sec \notin Unsupported

(* A connect with an SSID finds its own credentials unless overtaken. *)
Own ==
  \A t \in Threads :
    pc[t] \in Attempt \union {"connect", "lock"} =>
      named[t] = None \/ t \in overtaken \/ ap = Of(named[t])

(* The status, also while the lock is held.  After C0 a refused attempt    *)
(* still has to store its failure.                                         *)
Status ==
  /\ told \in {None, Nothing, conn_stat}
  /\ \A t \in Threads : pc[t] \in {"joined", "C?"} => joined \/ lost
  /\ \A t \in Threads : pc[t] = "CD" => conn_stat = "DISCONNECTED"
  /\ connect_status = "OK" /\ conn_stat = "GLOBAL_UP"
       => joined \/ lost \/ \E t \in Threads : pc[t] = "refused"

IInv == ConnTypeOK /\ Copied /\ HasSsid /\ Told /\ Own /\ Status

----------------------------------------------------------------------------
(* Mutual exclusion and the types: every step keeps both.                  *)
LEMMA TypeStep ==
  ASSUME ConnTypeOK, NEW t \in Threads,
         Calls(t) \/ Step(t) \/ Answer(t)
  PROVE  ConnTypeOK'
<1> USE ConnectionAssumption
    DEF ConnTypeOK, Credentials, Stats, Outside, Inside, Goes, link, stat, calls
<1>0. CASE Calls(t)
  BY <1>0 DEF Calls, Call
<1>1. CASE set_credentials(t)
  BY <1>1 DEF set_credentials, Lock, Overtakes
<1>2. CASE copy_ssid(t)
  BY <1>2 DEF copy_ssid, Copy, Proceed
<1>3. CASE copy_pass(t)
  BY <1>3 DEF copy_pass, Copy, Proceed
<1>4. CASE copy_sec(t)
  BY <1>4 DEF copy_sec, Returns
<1>5. CASE connect(t)
  BY <1>5 DEF connect, Proceed
<1>6. CASE lock(t)
  BY <1>6 DEF lock, Lock
<1>7. CASE C4(t)
  BY <1>7 DEF C4, Command, Proceed, Returns, Result
<1>8. CASE C1(t)
  BY <1>8 DEF C1, Command, Proceed, Returns, Result
<1>9. CASE C2(t)
  BY <1>9 DEF C2, Command, Proceed, Returns, Result
<1>10. CASE unsupported(t)
  BY <1>10 DEF unsupported, Returns, Result
<1>11. CASE C3(t)
  BY <1>11 DEF C3, Command, Proceed, Returns, Result
<1>12. CASE C0(t)
  <2>1. CASE Returns(t) /\ Result("NO_CONNECTION") /\ UNCHANGED link
    BY <1>12, <2>1 DEF C0, Returns, Result
  <2>2. ASSUME NEW success \in BOOLEAN,
               joined' = success /\ lost' = FALSE,
               Proceed(t, IF success THEN "joined" ELSE "refused"),
               UNCHANGED <<connect_status, ap, stat, module>>,
               pc[t] = "C0"
        PROVE  ConnTypeOK'
    <3>1. CASE success
      BY <2>2, <3>1 DEF Proceed
    <3>2. CASE ~success
      BY <2>2, <3>2 DEF Proceed
    <3> QED
      BY <3>1, <3>2
  <2> QED
    BY <1>12, <2>1, <2>2 DEF C0
<1>13. CASE join_timeout(t)
  BY <1>13 DEF join_timeout, Returns, Result
<1>14. CASE getIPAddress(t)
  BY <1>14 DEF getIPAddress, Returns, Result
<1>15. CASE no_connection(t)
  BY <1>15 DEF no_connection, Returns
<1>16. CASE disconnect(t)
  BY <1>16 DEF disconnect, Lock, Notify
<1>17. CASE CD(t)
  BY <1>17 DEF CD, Returns, Result
<1>18. CASE attach(t)
  BY <1>18 DEF attach, Returns
<1>19. CASE join(t)
  BY <1>19 DEF join, Notify, Returns, Result
<1>20. CASE join_ok(t)
  BY <1>20 DEF join_ok, Notify, Proceed
<1> QED
  BY <1>0, <1>1, <1>2, <1>3, <1>4, <1>5, <1>6, <1>7, <1>8, <1>9, <1>10, <1>11,
     <1>12, <1>13, <1>14, <1>15, <1>16, <1>17, <1>18, <1>19, <1>20
  DEF Step, Answer

(* Only the mutex's holder copies, and it begins by clearing the SSID.     *)
LEMMA CopiedStep ==
  ASSUME IInv, ConnTypeOK', NEW t \in Threads,
         Calls(t) \/ Step(t) \/ Answer(t)
  PROVE  Copied'
<1> USE ConnectionAssumption
    DEF IInv, Copied, ConnTypeOK, Credentials, Stats, Outside, Inside, Copies,
        Joining, Attempt, Of, Goes, link, stat, calls
<1>1. CASE Calls(t) \/ connect(t)
  BY <1>1 DEF Calls, Call, connect, Proceed
<1>2. CASE no_connection(t) \/ attach(t) \/ disconnect(t)
  BY <1>2 DEF no_connection, attach, disconnect, Lock, Notify, Returns
<1>3. CASE CD(t)
  BY <1>3 DEF CD, Returns, Result
<1>4. CASE set_credentials(t) \/ copy_ssid(t) \/ copy_pass(t) \/ copy_sec(t)
  BY <1>4 DEF set_credentials, Lock, Overtakes, copy_ssid, copy_pass, copy_sec,
              Copy, Proceed, Returns
<1>5. CASE lock(t) \/ C4(t) \/ C1(t) \/ C2(t) \/ unsupported(t) \/ C3(t)
  BY <1>5 DEF lock, Lock, C4, C1, C2, unsupported, C3, Command, Proceed,
              Returns, Result
<1>6. CASE C0(t) \/ join(t) \/ join_ok(t) \/ join_timeout(t) \/ getIPAddress(t)
  BY <1>6 DEF C0, join, join_ok, join_timeout, getIPAddress, Notify, Proceed,
              Returns, Result
<1> QED
  BY <1>1, <1>2, <1>3, <1>4, <1>5, <1>6 DEF Step, Answer

(* connect lets nobody pass without an SSID, and only set_credentials      *)
(* clears it.                                                              *)
LEMMA HasSsidStep ==
  ASSUME IInv, ConnTypeOK', NEW t \in Threads,
         Calls(t) \/ Step(t) \/ Answer(t)
  PROVE  HasSsid'
<1> USE ConnectionAssumption
    DEF IInv, HasSsid, ConnTypeOK, Credentials, Stats, Outside, Inside, Copies,
        Joining, Attempt, Of, Goes, link, stat, calls
<1>1. CASE Calls(t) \/ connect(t)
  BY <1>1 DEF Calls, Call, connect, Proceed
<1>2. CASE no_connection(t) \/ attach(t) \/ disconnect(t)
  BY <1>2 DEF no_connection, attach, disconnect, Lock, Notify, Returns
<1>3. CASE CD(t)
  BY <1>3 DEF CD, Returns, Result
<1>4. CASE set_credentials(t) \/ copy_ssid(t) \/ copy_pass(t) \/ copy_sec(t)
  BY <1>4 DEF Copied, set_credentials, Lock, Overtakes, copy_ssid, copy_pass,
              copy_sec, Copy, Proceed, Returns
<1>5. CASE lock(t) \/ C4(t) \/ C1(t) \/ C2(t) \/ unsupported(t) \/ C3(t)
  BY <1>5 DEF Copied, lock, Lock, C4, C1, C2, unsupported, C3, Command,
              Proceed, Returns, Result
<1>6. CASE C0(t) \/ join(t) \/ join_ok(t) \/ join_timeout(t) \/ getIPAddress(t)
  BY <1>6 DEF C0, join, join_ok, join_timeout, getIPAddress, Notify, Proceed,
              Returns, Result
<1> QED
  BY <1>1, <1>2, <1>3, <1>4, <1>5, <1>6 DEF Step, Answer

(* While a thread sends C1 to C0 nobody copies, so what the module was     *)
(* told before remains what the members say.                               *)
LEMMA ToldStep ==
  ASSUME IInv, ConnTypeOK', NEW t \in Threads,
         Calls(t) \/ Step(t) \/ Answer(t)
  PROVE  Told'
<1> USE ConnectionAssumption
    DEF IInv, Told, ConnTypeOK, Credentials, Stats, Outside, Inside, Copies,
        Joining, Attempt, Of, Goes, link, stat, calls
<1>1. CASE Calls(t) \/ connect(t)
  BY <1>1 DEF Calls, Call, connect, Proceed
<1>2. CASE no_connection(t) \/ attach(t) \/ disconnect(t)
  BY <1>2 DEF no_connection, attach, disconnect, Lock, Notify, Returns
<1>3. CASE CD(t)
  BY <1>3 DEF CD, Returns, Result
<1>4. CASE set_credentials(t) \/ copy_ssid(t) \/ copy_pass(t) \/ copy_sec(t)
  BY <1>4 DEF Copied, set_credentials, Lock, Overtakes, copy_ssid, copy_pass,
              copy_sec, Copy, Proceed, Returns
<1>5. CASE lock(t) \/ C4(t) \/ C1(t) \/ C2(t) \/ unsupported(t) \/ C3(t)
  BY <1>5 DEF Copied, lock, Lock, C4, C1, C2, unsupported, C3, Command,
              Proceed, Returns, Result
<1>6. CASE C0(t) \/ join(t) \/ join_ok(t) \/ join_timeout(t) \/ getIPAddress(t)
  BY <1>6 DEF C0, join, join_ok, join_timeout, getIPAddress, Notify, Proceed,
              Returns, Result
<1> QED
  BY <1>1, <1>2, <1>3, <1>4, <1>5, <1>6 DEF Step, Answer

(* set_credentials marks the threads that it overtakes; one that it does   *)
(* not mark was called with the same network.                              *)
LEMMA OwnStep ==
  ASSUME IInv, ConnTypeOK', NEW t \in Threads,
         Calls(t) \/ Step(t) \/ Answer(t)
  PROVE  Own'
<1> USE ConnectionAssumption
    DEF IInv, Own, ConnTypeOK, Credentials, Stats, Outside, Inside, Copies,
        Joining, Attempt, Of, Goes, link, stat, calls
<1>1. CASE Calls(t) \/ connect(t)
  BY <1>1 DEF Calls, Call, connect, Proceed
<1>2. CASE no_connection(t) \/ attach(t) \/ disconnect(t)
  BY <1>2 DEF no_connection, attach, disconnect, Lock, Notify, Returns
<1>3. CASE CD(t)
  BY <1>3 DEF CD, Returns, Result
<1>4. CASE set_credentials(t)
  BY <1>4 DEF Copied, set_credentials, Lock, Overtakes
<1>5. CASE copy_ssid(t)
  BY <1>5 DEF Copied, copy_ssid, Copy, Proceed
<1>6. CASE copy_pass(t)
  <2> SUFFICES ASSUME NEW u \in Threads,
                      pc'[u] \in Attempt \union {"connect", "lock"},
                      named'[u] # None, u \notin overtaken'
               PROVE  ap' = Of(named'[u])
    OBVIOUS
  <2>1. /\ pc[t] = "copy_pass" /\ pc' = [pc EXCEPT ![t] = "copy_sec"]
        /\ named' = named /\ overtaken' = overtaken
        /\ ap' = [ap EXCEPT !.pass = named[t]]
    BY <1>6 DEF copy_pass, Copy, Proceed
  <2>2. u # t /\ pc[u] \in {"connect", "lock"}
    BY <2>1
  <2>3. ap = Of(named[u])
    BY <2>1, <2>2
  <2>4. named[u] = named[t]
    BY <2>1, <2>3 DEF Copied
  <2> QED
    BY <2>1, <2>3, <2>4
<1>7. CASE copy_sec(t)
  BY <1>7 DEF Copied, copy_sec, Returns
<1>8. CASE lock(t) \/ C4(t) \/ C1(t) \/ C2(t) \/ unsupported(t) \/ C3(t)
  BY <1>8 DEF Copied, lock, Lock, C4, C1, C2, unsupported, C3, Command,
              Proceed, Returns, Result
<1>9. CASE C0(t) \/ join(t) \/ join_ok(t) \/ join_timeout(t) \/ getIPAddress(t)
  BY <1>9 DEF C0, join, join_ok, join_timeout, getIPAddress, Notify, Proceed,
              Returns, Result
<1> QED
  BY <1>1, <1>2, <1>3, <1>4, <1>5, <1>6, <1>7, <1>8, <1>9 DEF Step, Answer

(* Only who has joined sets the status to GLOBAL_UP, and only who then has *)
(* an address sets the result to OK.                                       *)
LEMMA StatusStep ==
  ASSUME IInv, ConnTypeOK', NEW t \in Threads,
         Calls(t) \/ Step(t) \/ Answer(t)
  PROVE  Status'
<1> USE ConnectionAssumption
    DEF IInv, Status, ConnTypeOK, Credentials, Stats, Outside, Inside,
        Goes, link, stat, calls
<1>1. CASE Calls(t) \/ connect(t)
  BY <1>1 DEF Calls, Call, connect, Proceed
<1>2. CASE no_connection(t) \/ attach(t) \/ disconnect(t)
  BY <1>2 DEF no_connection, attach, disconnect, Lock, Notify, Returns
<1>3. CASE CD(t)
  BY <1>3 DEF CD, Returns, Result
<1>4. CASE set_credentials(t) \/ copy_ssid(t) \/ copy_pass(t) \/ copy_sec(t)
  BY <1>4 DEF set_credentials, Lock, Overtakes, copy_ssid, copy_pass,
              copy_sec, Copy, Proceed, Returns
<1>5. CASE lock(t) \/ C4(t) \/ C1(t) \/ C2(t) \/ unsupported(t) \/ C3(t)
  BY <1>5 DEF lock, Lock, C4, C1, C2, unsupported, C3, Command,
              Proceed, Returns, Result
<1>6. CASE C0(t) \/ join(t) \/ join_ok(t) \/ join_timeout(t) \/ getIPAddress(t)
  BY <1>6 DEF C0, join, join_ok, join_timeout, getIPAddress, Notify, Proceed,
              Returns, Result
<1> QED
  BY <1>1, <1>2, <1>3, <1>4, <1>5, <1>6 DEF Step, Answer

----------------------------------------------------------------------------

(* One thread's step, the loss of the network, or none.                    *)
LEMMA StepIInv == IInv /\ [ConnNext]_cvars => IInv'
<1> SUFFICES ASSUME IInv, [ConnNext]_cvars PROVE IInv'
  OBVIOUS
<1>1. ASSUME NEW t \in Threads, Calls(t) \/ Step(t) \/ Answer(t)
      PROVE  IInv'
  <2>1. ConnTypeOK'
    BY <1>1, TypeStep DEF IInv
  <2> QED
    BY <1>1, <2>1, CopiedStep, HasSsidStep, ToldStep, OwnStep, StatusStep
    DEF IInv
<1>2. CASE LinkLost
  BY <1>2 DEF IInv, LinkLost, ConnTypeOK, Copied, HasSsid, Told, Own, Status,
              calls, stat, Of, Stats
<1>3. CASE UNCHANGED cvars
  BY <1>3 DEF IInv, cvars, calls, stat, link, ConnTypeOK, Copied, HasSsid, Told,
              Own, Status, Of, Stats
<1> QED
  BY <1>1, <1>2, <1>3 DEF ConnNext

(* The inductive invariant. *)
THEOREM Invariance == ConnSpec => []IInv
<1>1. ConnInit => IInv
  <2> SUFFICES ASSUME ConnInit PROVE IInv
    OBVIOUS
  <2>1. ConnTypeOK
    <3>1. Of(None) \in Credentials(Networks \union {None})
      BY DEF Of, Credentials
    <3> QED
      BY <3>1, ConnectionAssumption DEF ConnInit, ConnTypeOK, Stats, Outside, Inside
  <2>2. \A t \in Threads : pc[t] = "idle"
    BY DEF ConnInit
  <2>3. Copied /\ HasSsid /\ Told /\ Own
    BY <2>2 DEF ConnInit, Copied, HasSsid, Told, Own, Of, Copies, Joining, Attempt
  <2>4. Status
    BY <2>2 DEF ConnInit, Status
  <2> QED
    BY <2>1, <2>3, <2>4 DEF IInv
<1> QED
  BY <1>1, StepIInv, PTL DEF ConnSpec

(* Whatever early return a call takes and whichever command fails, the     *)
(* mutex is held by the one thread that is between its lock and its        *)
(* return, and free if there is none.                                      *)
THEOREM MutexIsHeld == ConnSpec => []ConnTypeOK
<1>1. IInv => ConnTypeOK
  BY DEF IInv
<1> QED
  BY <1>1, Invariance, PTL

(* The module is made to join one network whose credentials were set       *)
(* together: the one asked for, unless another thread's were set between.  *)
THEOREM JoinsOne == ConnSpec => []JoinsOwnNetwork
<1>1. IInv => JoinsOwnNetwork
  <2> SUFFICES ASSUME IInv, NEW t \in Threads, pc[t] \in Joining
               PROVE  \E n \in Networks \ Unsupported :
                        module = Of(n) /\ (named[t] \in {None, n} \/ t \in overtaken)
    BY DEF JoinsOwnNetwork, Joining
  <2>1. \A u \in Threads : pc[u] \notin Copies
    BY DEF IInv, ConnTypeOK, Inside, Joining, Copies
  <2>2. ap = Of(ap.ssid) /\ ap.ssid \in Networks
    BY <2>1 DEF IInv, ConnTypeOK, Copied, HasSsid, Attempt, Copies, Credentials, Of
  <2>3. module = ap /\ ap.ssid \notin Unsupported
    BY <2>2 DEF IInv, ConnTypeOK, Told, Credentials, Of
  <2>4. named[t] \in {None, ap.ssid} \/ t \in overtaken
    BY <2>2 DEF IInv, Own, Attempt, Of
  <2> QED
    BY <2>2, <2>3, <2>4
<1> QED
  BY <1>1, Invariance, PTL

(* What is told is the status, and a status of success is a joined network *)
(* unless the module has lost it.                                          *)
THEOREM StatusStaysTrue == ConnSpec => []StatusIsTrue
<1>1. IInv => StatusIsTrue
  BY ConnectionAssumption DEF IInv, StatusIsTrue, Status, ConnTypeOK, Inside
<1> QED
  BY <1>1, Invariance, PTL
=============================================================================
