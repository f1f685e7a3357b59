--------------------------- MODULE FazAuth_proofs ---------------------------
(***************************************************************************)
(* What holds of the authorization of devices for any set of VMs and any   *)
(* number of faults.                                                       *)
(***************************************************************************)
EXTENDS FazAuth, TLAPS

USE TimerAssumption, MaxFaultsAssumption

\* The first heartbeat of a VM finds no handler of an earlier one.
Unasked == \A v \in VM : caller[v] = "idle" => handler[v] = "none"

Inv == TypeOK /\ Unasked

LEMMA RequestInv ==
    ASSUME Inv, NEW c \in Caller, caller[c] = "idle", handler[c] = "none",
           CreateAuthorizationRequest(c), UNCHANGED <<settings, device, listed, faults>>
    PROVE  Inv'
<1> USE DEF CreateAuthorizationRequest, End, Caller
<1>1. /\ caller' \in [Caller -> {"idle", "waiting", "answered", "failed"}]
      /\ caller'[Timer] \in {"idle", "waiting"}
      /\ handler' \in [Caller -> {"none", "called", "login", "list", "authorize"}]
  BY DEF Inv, TypeOK
<1>2. \A x \in Caller : listed[x] # {} => x # c /\ handler'[x] = handler[x]
  BY DEF Inv, TypeOK
<1>3. Unasked'
  BY DEF Inv, TypeOK, Unasked
<1> QED
  BY <1>1, <1>2, <1>3 DEF Inv, TypeOK

LEMMA Inductive == Inv /\ [Next]_vars => Inv'
<1> SUFFICES ASSUME Inv, [Next]_vars PROVE Inv'
  OBVIOUS
<1> USE DEF Inv, TypeOK, Unasked
<1>1. ASSUME NEW v \in VM, Connect(v) PROVE Inv'
  BY <1>1 DEF Connect
<1>2. ASSUME NEW v \in VM, FirstHeartbeat(v) PROVE Inv'
  <2>1. v \in Caller /\ caller[v] = "idle" /\ handler[v] = "none"
    BY <1>2 DEF FirstHeartbeat, Caller
  <2> QED
    BY <1>2, <2>1, RequestInv DEF FirstHeartbeat
<1>3. CASE TimerFires
  <2>1. Timer \in Caller
    BY DEF Caller
  <2> QED
    BY <1>3, <2>1, RequestInv DEF TimerFires
<1>4. ASSUME NEW c \in Caller, HandlerStep(c) PROVE Inv'
  <2> USE DEF Caller, Goto
  <2>1. CASE ExecuteInvocable(c) \/ Login(c)
    BY <2>1 DEF ExecuteInvocable, Login
  <2>2. CASE ListDevices(c)
    BY <2>2 DEF ListDevices, Connected
  <2>3. CASE AuthorizeDevice(c)
    BY <2>3 DEF AuthorizeDevice
  <2> QED
    BY <1>4, <2>1, <2>2, <2>3 DEF HandlerStep
<1>5. ASSUME NEW c \in Caller, HandlerFails(c) PROVE Inv'
  BY <1>5 DEF HandlerFails, Caller
<1>6. ASSUME NEW c \in Caller, Answered(c) PROVE Inv'
  BY <1>6 DEF Answered, End, Caller
<1>7. ASSUME NEW c \in Caller, CallFails(c) PROVE Inv'
  BY <1>7 DEF CallFails, End, Caller
<1>8. CASE UNCHANGED vars
  BY <1>8 DEF vars
<1> QED
  BY <1>1, <1>2, <1>3, <1>4, <1>5, <1>6, <1>7, <1>8 DEF Next

\* The variables have their types, and a list of devices is held only by a
\* handler that is about to authorize them.
THEOREM TypeCorrect == Spec => []TypeOK
<1>1. Init => Inv
  BY DEF Init, Inv, TypeOK, Unasked, Caller
<1>2. Inv => TypeOK
  BY DEF Inv
<1> QED
  BY <1>1, <1>2, Inductive, PTL DEF Spec

=============================================================================
