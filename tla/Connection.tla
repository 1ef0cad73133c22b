----------------------------- MODULE Connection -----------------------------
(***************************************************************************)
(* ISM43362Interface's connection to a Wi-Fi network: the credentials that *)
(* one thread sets and another's connect uses, the commands that make the  *)
(* module join and leave, and what is told of it.  A call is a sequence of *)
(* steps, one per command; from "lock" to its return it holds _mutex, but  *)
(* connect first looks at the SSID without it, and connect with an SSID is *)
(* two calls.  Every command may fail, before the module has executed it   *)
(* or after, and the module may lose its network at any time.              *)
(*                                                                         *)
(* An SSID, a passphrase or a security is the network that it belongs to.  *)
(***************************************************************************)
EXTENDS Integers

CONSTANTS Threads,      \* the application's
          Networks,     \* what may be named to set_credentials
          Unsupported,  \* those whose security the driver does not know
          None

ASSUME ConnectionAssumption ==
  None \notin Threads \union Networks /\ Unsupported \subseteq Networks

VARIABLES
  mutex,           \* _mutex: the thread that holds it, or None
  pc,              \* per thread, what its call does next, or "idle"
  named,           \* per thread, the network that its call names, or None
  overtaken,       \* history: the threads for whom another's set_credentials
                   \*   came between the two halves of connect with an SSID
  ap,              \* ap_ssid, ap_pass, ap_sec
  connect_status,  \* _connect_status
  conn_stat,       \* _conn_stat, and the driver's _conn_status
  told,            \* what _conn_stat_cb was last called with, or Nothing;
                   \*   None if it is not attached
  module,          \* what C1, C2 and C3 set in the module
  joined,          \* whether the module has joined a network
  lost             \* history: it has lost the network that it joined last

calls == <<mutex, pc, named, overtaken>>
stat == <<conn_stat, told>>
link == <<joined, lost>>
cvars == <<calls, ap, connect_status, stat, module, link>>

Credentials(T) == [ssid : T, pass : T, sec : T]

Of(n) == [ssid |-> n, pass |-> n, sec |-> n]

Stats == {"DISCONNECTED", "CONNECTING", "GLOBAL_UP"}

Nothing == "nothing"

(* Where a thread does not hold the mutex. *)
Outside == {"idle", "set", "connect", "lock", "disconnect", "attach"}

Inside == {"copy_ssid", "copy_pass", "copy_sec",
           "C4", "C1", "C2", "C3", "C0", "joined", "refused", "C?", "CD"}

ConnTypeOK ==
  /\ mutex \in Threads \union {None}
  /\ pc \in [Threads -> Outside \union Inside]
  /\ \A t \in Threads : mutex = t <=> pc[t] \in Inside
  /\ named \in [Threads -> Networks \union {None}]
  /\ overtaken \subseteq Threads
  /\ {ap, module} \subseteq Credentials(Networks \union {None})
  /\ connect_status \in {"OK", "NO_CONNECTION", "PARAMETER", "UNSUPPORTED",
                         "AUTH_FAILURE", "DHCP_FAILURE"}
  /\ conn_stat \in Stats /\ told \in Stats \union {Nothing, None}
  /\ {joined, lost} \subseteq BOOLEAN

(* The constructor; the module has no network yet. *)
ConnInit ==
  /\ mutex = None
  /\ pc = [t \in Threads |-> "idle"]
  /\ named = [t \in Threads |-> None] /\ overtaken = {}
  /\ ap = Of(None)
  /\ connect_status = "NO_CONNECTION"
  /\ conn_stat = "DISCONNECTED" /\ told = None
  /\ module = Of(None)
  /\ joined = FALSE /\ lost = FALSE

----------------------------------------------------------------------------
(* Calls, and the mutex. *)

Goes(t, label) == pc' = [pc EXCEPT ![t] = label]

(* A call of one of the functions; set_credentials and connect with an     *)
(* SSID name a network.                                                    *)
Call(t, function, n) ==
  /\ pc[t] = "idle"
  /\ Goes(t, function)
  /\ named' = [named EXCEPT ![t] = n]
  /\ UNCHANGED <<mutex, overtaken, ap, connect_status, stat, module, link>>

Lock(t, from, to) ==
  pc[t] = from /\ mutex = None /\ mutex' = t /\ Goes(t, to) /\ UNCHANGED named

(* The next step of the same call. *)
Proceed(t, label) == Goes(t, label) /\ UNCHANGED <<mutex, named, overtaken>>

(* The mutex is unlocked, if it is held, and the call over. *)
Returns(t) ==
  /\ Goes(t, "idle")
  /\ mutex' = None
  /\ named' = [named EXCEPT ![t] = None]
  /\ overtaken' = overtaken \ {t}

----------------------------------------------------------------------------
(* set_credentials. *)

(* Another's call of connect was to use the credentials that go now. *)
Overtakes(t) ==
  overtaken' = overtaken \union { u \in Threads \ {t} : pc[u] \in {"connect", "lock"} }

(* Mutant of set_credentials: the mutex is not taken. *)
set_credentials_unlocked(t) ==
  /\ pc[t] = "set"
  /\ Goes(t, "copy_ssid") /\ UNCHANGED <<mutex, named>>
  /\ ap' = [ap EXCEPT !.ssid = None]
  /\ Overtakes(t)
  /\ UNCHANGED <<connect_status, stat, module, link>>

(* It clears the SSID, and then copies one value after another.  Refused   *)
(* parameters change nothing.                                              *)
set_credentials(t) ==
  /\ Lock(t, "set", "copy_ssid")
  /\ ap' = [ap EXCEPT !.ssid = None]
  /\ Overtakes(t)
  /\ UNCHANGED <<connect_status, stat, module, link>>

Copy(t, from, field, to) ==
  /\ pc[t] = from
  /\ ap' = [ap EXCEPT ![field] = named[t]]
  /\ Proceed(t, to)
  /\ UNCHANGED <<connect_status, stat, module, link>>

copy_ssid(t) == Copy(t, "copy_ssid", "ssid", "copy_pass")
copy_pass(t) == Copy(t, "copy_pass", "pass", "copy_sec")

(* With the last one set_credentials returns, and connect with an SSID,    *)
(* which has called it, goes on.                                           *)
copy_sec(t) ==
  /\ pc[t] = "copy_sec"
  /\ ap' = [ap EXCEPT !.sec = named[t]]
  /\ \/ Returns(t)
     \/ Goes(t, "connect") /\ mutex' = None /\ UNCHANGED <<named, overtaken>>
  /\ UNCHANGED <<connect_status, stat, module, link>>

----------------------------------------------------------------------------
(* connect. *)

(* strlen(ap_ssid), without the mutex: no SSID, no connection. *)
connect(t) ==
  /\ pc[t] = "connect"
  /\ IF ap.ssid = None
     THEN Goes(t, "idle") /\ named' = [named EXCEPT ![t] = None]
                          /\ overtaken' = overtaken \ {t} /\ UNCHANGED mutex
     ELSE Proceed(t, "lock")
  /\ UNCHANGED <<ap, connect_status, stat, module, link>>

lock(t) ==
  /\ Lock(t, "lock", "C4")
  /\ UNCHANGED <<overtaken, ap, connect_status, stat, module, link>>

(* Mutant of Result: a failure is not stored. *)
ResultUnstored(status) ==
  connect_status' = IF status = "OK" THEN status ELSE connect_status

Result(status) == connect_status' = status

(* A command that makes the module's values m: connect goes on when it is  *)
(* confirmed and fails, whether it was executed or not, when it is not.    *)
Command(t, label, m, next, failure) ==
  /\ pc[t] = label
  /\ \/ module' = m /\ Proceed(t, next) /\ UNCHANGED connect_status
     \/ module' \in {module, m} /\ Returns(t) /\ Result(failure)
  /\ UNCHANGED <<ap, stat, link>>

(* dhcp, whose failure leaves _connect_status. *)
C4(t) == Command(t, "C4", module, "C1", connect_status)

C1(t) == Command(t, "C1", [module EXCEPT !.ssid = ap.ssid], "C2", "PARAMETER")

C2(t) == Command(t, "C2", [module EXCEPT !.pass = ap.pass], "C3", "PARAMETER")

C3(t) ==
  /\ ap.sec \notin Unsupported
  /\ Command(t, "C3", [module EXCEPT !.sec = ap.sec], "C0", "PARAMETER")

(* The security is judged only now. *)
unsupported(t) ==
  /\ pc[t] = "C3" /\ ap.sec \in Unsupported
  /\ Returns(t) /\ Result("UNSUPPORTED")
  /\ UNCHANGED <<ap, stat, module, link>>

(* C0: the module leaves its network and tries to join, which succeeds or  *)
(* not, as its answer will say, if it comes; or it does not get so far.    *)
C0(t) ==
  /\ pc[t] = "C0"
  /\ \/ Returns(t) /\ Result("NO_CONNECTION") /\ UNCHANGED link
     \/ \E success \in BOOLEAN :
          /\ joined' = success /\ lost' = FALSE
          /\ Proceed(t, IF success THEN "joined" ELSE "refused")
          /\ UNCHANGED connect_status
  /\ UNCHANGED <<ap, stat, module>>

(* The driver's status is set and update_conn_state_cb called, which calls *)
(* the callback if the status has changed.                                 *)
Notify(s) ==
  /\ conn_stat' = s
  /\ told' = IF s # conn_stat /\ told # None THEN s ELSE told

(* A line of the answer says JOIN, and maybe Failed. *)
join(t) ==
  /\ Notify("CONNECTING")
  /\ \/ pc[t] = "joined" /\ UNCHANGED <<calls, connect_status>>
     \/ pc[t] = "refused" /\ Returns(t) /\ Result("AUTH_FAILURE")
  /\ UNCHANGED <<ap, module, link>>

join_ok(t) ==
  /\ pc[t] = "joined"
  /\ Notify("GLOBAL_UP")
  /\ Proceed(t, "C?")
  /\ UNCHANGED <<ap, connect_status, module, link>>

(* Mutant of join_timeout: it reads on. *)
join_timeout_retried(t) == pc[t] \in {"joined", "refused"} /\ UNCHANGED cvars

(* No further line comes in time. *)
join_timeout(t) ==
  /\ pc[t] \in {"joined", "refused"}
  /\ Returns(t) /\ Result("NO_CONNECTION")
  /\ UNCHANGED <<ap, stat, module, link>>

getIPAddress(t) ==
  /\ pc[t] = "C?"
  /\ Returns(t)
  /\ \E status \in {"OK", "DHCP_FAILURE"} : Result(status)
  /\ UNCHANGED <<ap, stat, module, link>>

----------------------------------------------------------------------------
(* disconnect and attach; the link. *)

(* Mutant of no_connection: it returns with the mutex. *)
no_connection_locked(t) ==
  /\ pc[t] = "disconnect" /\ mutex = None
  /\ connect_status # "OK"
  /\ mutex' = t /\ Goes(t, "idle")
  /\ UNCHANGED <<named, overtaken, ap, connect_status, stat, module, link>>

no_connection(t) ==
  /\ pc[t] = "disconnect" /\ mutex = None
  /\ connect_status # "OK"
  /\ Returns(t)
  /\ UNCHANGED <<ap, connect_status, stat, module, link>>

(* The status is told before the command is sent. *)
disconnect(t) ==
  /\ connect_status = "OK"
  /\ Lock(t, "disconnect", "CD")
  /\ Notify("DISCONNECTED")
  /\ UNCHANGED <<overtaken, ap, connect_status, module, link>>

CD(t) ==
  /\ pc[t] = "CD"
  /\ Returns(t)
  /\ \/ joined' = FALSE /\ Result("NO_CONNECTION")
     \/ joined' \in {joined, FALSE} /\ UNCHANGED connect_status
  /\ UNCHANGED <<ap, stat, module, lost>>

(* An application attaches its callback, or none. *)
attach(t) ==
  /\ pc[t] = "attach" /\ mutex = None
  /\ told' \in {Nothing, None}
  /\ Returns(t)
  /\ UNCHANGED <<ap, connect_status, conn_stat, module, link>>

(* The module loses its network, and tells nobody. *)
LinkLost ==
  /\ joined
  /\ joined' = FALSE /\ lost' = TRUE
  /\ UNCHANGED <<calls, ap, connect_status, stat, module>>

(* The thread's own steps, and the module's lines, which need not come. *)
Step(t) ==
  \/ set_credentials(t) \/ copy_ssid(t) \/ copy_pass(t) \/ copy_sec(t)
  \/ connect(t) \/ lock(t)
  \/ C4(t) \/ C1(t) \/ C2(t) \/ unsupported(t) \/ C3(t) \/ C0(t)
  \/ join_timeout(t) \/ getIPAddress(t)
  \/ no_connection(t) \/ disconnect(t) \/ CD(t) \/ attach(t)

Answer(t) == join(t) \/ join_ok(t)

Calls(t) ==
  \/ \E n \in Networks : Call(t, "set", n)
  \/ \E function \in {"connect", "disconnect", "attach"} : Call(t, function, None)

ConnNext == LinkLost \/ \E t \in Threads : Calls(t) \/ Step(t) \/ Answer(t)

(* The operating system hands the mutex to the threads that await it in    *)
(* turn, and every command is answered or times out.                       *)
ConnSpec == ConnInit /\ [][ConnNext]_cvars /\ \A t \in Threads : SF_cvars(Step(t))

----------------------------------------------------------------------------

(* What the module is made to join is one network, whose SSID, passphrase  *)
(* and security were set together, and a supported one, whatever other     *)
(* threads set meanwhile and whichever commands of earlier attempts failed *)
(* half-way.  It is the one that connect was called with ("ssid Name of    *)
(* the network to connect to", ISM43362Interface.h) unless another's       *)
(* set_credentials came between connect's two halves.                      *)
JoinsOwnNetwork ==
  \A t \in Threads :
    pc[t] \in {"C0", "joined", "refused", "C?"} =>
      \E n \in Networks \ Unsupported :
        module = Of(n) /\ (named[t] \in {None, n} \/ t \in overtaken)

(* What the application was told last, if anything, is the status.  When   *)
(* connect's last result was success and the status is GLOBAL_UP, the      *)
(* module has joined a network, unless it has lost it since: whatever      *)
(* failed in a later connect or disconnect, it does not leave both behind. *)
StatusIsTrue ==
  /\ told \in {None, Nothing, conn_stat}
  /\ mutex = None /\ connect_status = "OK" /\ conn_stat = "GLOBAL_UP" => joined \/ lost

(* Every call returns: no early return keeps the mutex, and no answer that *)
(* the module withholds, wherever it stops, makes a call wait for ever.    *)
(* (The lines that answer C0 are assumed to end: connect reads on as long  *)
(* as they come in time and are neither OK nor a failure.)                 *)
CallsReturn == \A t \in Threads : pc[t] # "idle" ~> pc[t] = "idle"
=============================================================================
