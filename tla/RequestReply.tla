--------------------------- MODULE RequestReply ---------------------------
(***************************************************************************)
(* What a caller of an asynchronous request is promised, whatever carries  *)
(* the request.  AIBus.send_message (a message to another agent) and       *)
(* ComputeKernel.do_* (a task for a compute node) both implement it: the   *)
(* caller suspends once, comes back once, and comes back either with the   *)
(* answer somebody really gave to that request or with nothing.            *)
(***************************************************************************)
CONSTANT Requests

VARIABLES
  caller,    \* caller[r]: where the coroutine that issued r stands
  answered   \* the requests somebody has answered

vars == <<caller, answered>>

CallerState == {"idle", "fired", "waiting", "returned", "gaveup"}

TypeOK ==
  /\ caller \in [Requests -> CallerState]
  /\ answered \subseteq Requests

Init ==
  /\ caller = [r \in Requests |-> "idle"]
  /\ answered = {}

Ask(r) ==
  /\ caller[r] = "idle"
  /\ caller' = [caller EXCEPT ![r] = "waiting"]
  /\ UNCHANGED answered

\* The request is refused before anybody sees it.
Refuse(r) ==
  /\ caller[r] = "idle"
  /\ caller' = [caller EXCEPT ![r] = "gaveup"]
  /\ UNCHANGED answered

\* A request nobody waits for.
Fire(r) ==
  /\ caller[r] = "idle"
  /\ caller' = [caller EXCEPT ![r] = "fired"]
  /\ UNCHANGED answered

\* An answer may come after its caller has given up.
Answer(r) ==
  /\ caller[r] \in {"fired", "waiting", "gaveup"}
  /\ r \notin answered
  /\ answered' = answered \cup {r}
  /\ UNCHANGED caller

Return(r) ==
  /\ caller[r] = "waiting"
  /\ r \in answered
  /\ caller' = [caller EXCEPT ![r] = "returned"]
  /\ UNCHANGED answered

GiveUp(r) ==
  /\ caller[r] = "waiting"
  /\ caller' = [caller EXCEPT ![r] = "gaveup"]
  /\ UNCHANGED answered

Next ==
  \E r \in Requests :
    Ask(r) \/ Refuse(r) \/ Fire(r) \/ Answer(r) \/ Return(r) \/ GiveUp(r)

Spec == Init /\ [][Next]_vars

\* A caller does not wait for ever.
FairSpec == Spec /\ \A r \in Requests : WF_vars(Return(r) \/ GiveUp(r))
=============================================================================
