------------------------------- MODULE CtxLoad -------------------------------
(***************************************************************************)
(* What sdmacmd_ctx_load promises its callers, without the mutex, the      *)
(* descriptor, the interrupt and the pulse: a call loads the caller's      *)
(* context into the caller's slot once and then returns 0.                 *)
(***************************************************************************)
CONSTANTS Thread, NoThread
VARIABLES call, ctx

vars == <<call, ctx>>

Init ==
  /\ call = [t \in Thread |-> "idle"]
  /\ ctx  = [t \in Thread |-> NoThread]

Request(t) ==
  /\ call[t] \in {"idle", "ok"}
  /\ call' = [call EXCEPT ![t] = "busy"]
  /\ ctx'  = [ctx EXCEPT ![t] = NoThread]

Load(t) ==
  /\ call[t] = "busy" /\ ctx[t] = NoThread
  /\ ctx' = [ctx EXCEPT ![t] = t]
  /\ UNCHANGED call

Return(t) ==
  /\ call[t] = "busy" /\ ctx[t] = t
  /\ call' = [call EXCEPT ![t] = "ok"]
  /\ UNCHANGED ctx

Next == \E t \in Thread : Request(t) \/ Load(t) \/ Return(t)

Spec == Init /\ [][Next]_vars
=============================================================================
