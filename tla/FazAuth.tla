------------------------------ MODULE FazAuth ------------------------------
(***************************************************************************)
(* Authorization of devices in the FortiAnalyzer.  The first heartbeat of  *)
(* a VM and a timer each call a function of their own over HTTP and wait   *)
(* for it; it logs in to the FortiAnalyzer, lists the devices that are     *)
(* connected, and authorizes what it has listed.  A VM connects whenever   *)
(* it likes, before or after its first heartbeat, and has only one such.   *)
(*                                                                         *)
(* The FortiAnalyzer and the timer are external.                           *)
(***************************************************************************)
EXTENDS Naturals, FiniteSets

CONSTANTS
    VM,
    Timer,      \* faz-auth-scheduler
    MaxFaults   \* bound on calls that fail or take too long

ASSUME TimerAssumption == Timer \notin VM
ASSUME MaxFaultsAssumption == MaxFaults \in Nat

\* What calls the handler; each has at most one call of it at a time.
Caller == VM \cup {Timer}

VARIABLES
    settings,   \* is the integration on, and are handler and FortiAnalyzer known?
    device,     \* VM -> what the FortiAnalyzer knows of it
    caller,     \* where each caller is
    handler,    \* where the handler that it called is
    listed,     \* the devices that this handler has listed
    faults

vars == <<settings, device, caller, handler, listed, faults>>

Connected == {v \in VM : device[v] # "unknown"}

-----------------------------------------------------------------------------
Init ==
    /\ settings \in [enabled : BOOLEAN, handlerName : BOOLEAN, fazIp : BOOLEAN]
    /\ device = [v \in VM |-> "unknown"]
    /\ caller = [c \in Caller |-> "idle"]
    /\ handler = [c \in Caller |-> "none"]
    /\ listed = [c \in Caller |-> {}]
    /\ faults = 0

\* A device that its configuration tells to send its logs there.
Connect(v) ==
    /\ device[v] = "unknown"
    /\ device' = [device EXCEPT ![v] = "waiting"]
    /\ UNCHANGED <<settings, caller, handler, listed, faults>>

\* How a call ends for its caller: the timer comes again, a heartbeat is only
\* once the first one, and one that fails is not answered.
End(c, result) == IF c = Timer THEN "idle" ELSE result

\* createAuthorizationRequest: nothing to do, an error, or a call of the handler.
CreateAuthorizationRequest(c) ==
    /\ caller' = [caller EXCEPT ![c] =
           IF ~settings.enabled THEN End(c, "answered")
           ELSE IF ~settings.handlerName THEN End(c, "failed") ELSE "waiting"]
    /\ handler' = [handler EXCEPT ![c] =
           IF settings.enabled /\ settings.handlerName THEN "called" ELSE "none"]

\* onVmFullyConfigured, before the heartbeat is answered.
FirstHeartbeat(v) ==
    /\ caller[v] = "idle"
    /\ CreateAuthorizationRequest(v)
    /\ UNCHANGED <<settings, device, listed, faults>>

\* Every 12 minutes; the bound is that its last handler is no longer running.
TimerFires ==
    /\ caller[Timer] = "idle" /\ handler[Timer] = "none"
    /\ CreateAuthorizationRequest(Timer)
    /\ UNCHANGED <<settings, device, listed, faults>>

-----------------------------------------------------------------------------
(* The handler. *)

Goto(c, from, to) ==
    /\ handler[c] = from
    /\ handler' = [handler EXCEPT ![c] = to]

\* Mutant: without the address of the FortiAnalyzer it tries again.
ExecuteInvocableAgain(c) ==
    /\ Goto(c, "called", IF settings.fazIp THEN "login" ELSE "called")
    /\ UNCHANGED <<settings, device, caller, listed, faults>>

\* executeInvocable: without the address of the FortiAnalyzer it gives up.
ExecuteInvocable(c) ==
    /\ Goto(c, "called", IF settings.fazIp THEN "login" ELSE "none")
    /\ UNCHANGED <<settings, device, caller, listed, faults>>

\* The credentials are those that deployment has put into the key vault.
Login(c) ==
    /\ Goto(c, "login", "list")
    /\ UNCHANGED <<settings, device, caller, listed, faults>>

\* Mutant: only the device that the request names; the timer names none.
ListDevicesOfRequest(c) ==
    /\ Goto(c, "list", "authorize")
    /\ listed' = [listed EXCEPT ![c] = Connected \cap {c}]
    /\ UNCHANGED <<settings, device, caller, faults>>

\* All devices, whatever the request names.
ListDevices(c) ==
    /\ Goto(c, "list", "authorize")
    /\ listed' = [listed EXCEPT ![c] = Connected]
    /\ UNCHANGED <<settings, device, caller, faults>>

AuthorizeDevice(c) ==
    /\ Goto(c, "authorize", "none")
    /\ device' = [v \in VM |-> IF v \in listed[c] THEN "authorized" ELSE device[v]]
    /\ listed' = [listed EXCEPT ![c] = {}]
    /\ UNCHANGED <<settings, caller, faults>>

\* An error is logged; execution is never extended, since extendExecution of what
\* is thrown here is always false.
HandlerFails(c) ==
    /\ handler[c] # "none"
    /\ faults < MaxFaults /\ faults' = faults + 1
    /\ handler' = [handler EXCEPT ![c] = "none"]
    /\ listed' = [listed EXCEPT ![c] = {}]
    /\ UNCHANGED <<settings, device, caller>>

\* The handler answers the same whether it has failed or not.
Answered(c) ==
    /\ caller[c] = "waiting" /\ handler[c] = "none"
    /\ caller' = [caller EXCEPT ![c] = End(c, "answered")]
    /\ UNCHANGED <<settings, device, handler, listed, faults>>

\* Mutant: a call that takes too long takes its handler with it.
CallFailsForBoth(c) ==
    /\ caller[c] = "waiting"
    /\ faults < MaxFaults /\ faults' = faults + 1
    /\ caller' = [caller EXCEPT ![c] = "failed"]
    /\ handler' = [handler EXCEPT ![c] = "none"]
    /\ UNCHANGED <<settings, device, listed>>

\* The call does not get through, or takes longer than the caller waits: then the
\* handler goes on by itself.
CallFails(c) ==
    /\ caller[c] = "waiting"
    /\ faults < MaxFaults /\ faults' = faults + 1
    /\ caller' = [caller EXCEPT ![c] = End(c, "failed")]
    /\ \/ handler[c] = "called" /\ handler' = [handler EXCEPT ![c] = "none"]
       \/ UNCHANGED handler
    /\ UNCHANGED <<settings, device, listed>>

HandlerStep(c) == ExecuteInvocable(c) \/ Login(c) \/ ListDevices(c) \/ AuthorizeDevice(c)

Next ==
    \/ \E v \in VM : Connect(v) \/ FirstHeartbeat(v)
    \/ TimerFires
    \/ \E c \in Caller : HandlerStep(c) \/ HandlerFails(c) \/ Answered(c) \/ CallFails(c)

Spec == Init /\ [][Next]_vars

\* The timer keeps firing, handlers run on, and their answers arrive.
Fairness ==
    /\ WF_vars(TimerFires)
    /\ \A c \in Caller : WF_vars(HandlerStep(c)) /\ WF_vars(Answered(c))

FairSpec == Spec /\ Fairness

-----------------------------------------------------------------------------
(* Properties *)

\* Every variable has its type; the timer never gets stuck in a failed call; and
\* only a handler that is about to authorize devices has a list of them.
TypeOK ==
    /\ settings \in [enabled : BOOLEAN, handlerName : BOOLEAN, fazIp : BOOLEAN]
    /\ device \in [VM -> {"unknown", "waiting", "authorized"}]
    /\ caller \in [Caller -> {"idle", "waiting", "answered", "failed"}]
    /\ caller[Timer] \in {"idle", "waiting"}
    /\ handler \in [Caller -> {"none", "called", "login", "list", "authorize"}]
    /\ listed \in [Caller -> SUBSET VM]
    /\ \A c \in Caller : listed[c] # {} => handler[c] = "authorize"
    /\ faults \in 0..MaxFaults

Integrated == settings.enabled /\ settings.handlerName /\ settings.fazIp

\* Where the integration is set up, every device that connects is authorized in
\* the end: also one that connects after its first heartbeat, or whose request
\* failed, and for which nobody asks again.
EveryDeviceIsAuthorized ==
    \A v \in VM : (Integrated /\ device[v] = "waiting") ~> (device[v] = "authorized")

\* A first heartbeat that waits for the FortiAnalyzer is answered or fails; it
\* does not wait for ever.
HeartbeatsEnd == \A v \in VM : (caller[v] = "waiting") ~> (caller[v] \in {"answered", "failed"})

=============================================================================
