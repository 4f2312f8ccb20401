------------------------- MODULE ProducerLifecycle -------------------------
(***************************************************************************)
(* What a request producer may rely on, whatever the RPC does: its anext   *)
(* is never entered again before the last one answered nor after a close   *)
(* was asked for, its aclose() or close() is called at most once, and      *)
(* never while an anext is in progress (an async generator would raise     *)
(* "asynchronous generator is already running").                           *)
(***************************************************************************)
EXTENDS Naturals

VARIABLES producer, closeCalls

lifecycleVars == <<producer, closeCalls>>

LifecycleInit == producer = "fresh" /\ closeCalls = 0

Pull ==
  /\ producer \in {"fresh", "idle"}
  /\ closeCalls = 0
  /\ producer' = "running" /\ UNCHANGED closeCalls

Yield == producer = "running" /\ producer' = "idle" /\ UNCHANGED closeCalls

Finish == producer = "running" /\ producer' = "over" /\ UNCHANGED closeCalls

Close ==
  /\ producer \in {"idle", "over"}
  /\ closeCalls = 0
  /\ producer' = "closing" /\ closeCalls' = 1

CloseEnds == producer = "closing" /\ producer' = "closed" /\ UNCHANGED closeCalls

LifecycleNext == Pull \/ Yield \/ Finish \/ Close \/ CloseEnds

LifecycleSpec == LifecycleInit /\ [][LifecycleNext]_lifecycleVars
=============================================================================
