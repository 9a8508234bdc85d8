----------------------------- MODULE TunnelProofs -----------------------------
(***************************************************************************)
(* Proofs about Tunnel, for any number of goroutines and failures.         *)
(***************************************************************************)
EXTENDS Tunnel, TLAPS

\* The goroutine that dials holds the lock and found no connection.
DialerLocks ==
  /\ \A w \in Workers : pc[w] = "connecting" => mu = w
  /\ mu # Nil => wsConn = Nil

\* In its ctx.Done case the loop never ticks again, and WsConn stays nil once
\* the loop has cleared it.
LastCase ==
  /\ last => ctxDone /\ pc[Loop] \in {"closing", "waiting", "exited"}
  /\ pc[Loop] = "exited" => last
  /\ last /\ pc[Loop] # "closing" => wsConn = Nil

IInv == TypeOK /\ DialerLocks /\ LastCase /\ ConnTracked

\* What ensureTunnelClosed does, whoever calls it.
LEMMA CloseStep ==
  ASSUME IInv, NEW t \in Threads, EnsureTunnelClosed(t) PROVE IInv'
<1> USE TunnelAssumption DEF Threads
<1>1. TypeOK'
  BY DEF IInv, EnsureTunnelClosed, AfterClose, TypeOK, PCs
<1>2. DialerLocks'
  BY DEF IInv, EnsureTunnelClosed, AfterClose, TypeOK, DialerLocks
<1>3. LastCase'
  BY DEF IInv, EnsureTunnelClosed, AfterClose, TypeOK, LastCase
<1>4. ConnTracked'
  BY DEF IInv, EnsureTunnelClosed, ConnTracked
<1>5. QED
  BY <1>1, <1>2, <1>3, <1>4 DEF IInv

\* The steps of an openTunnel goroutine.
LEMMA WorkerStepKeeps ==
  ASSUME IInv, NEW w \in Workers, WorkerStep(w) \/ Receive(w) \/ Drop(w)
  PROVE  IInv'
<1> USE TunnelAssumption DEF Threads, Go, Fail, IInv
<1>1. CASE Lock(w)
  BY <1>1 DEF Lock, TypeOK, PCs, DialerLocks, LastCase, ConnTracked
<1>2. CASE Connect(w)
  <2>1. TypeOK'
    BY <1>2 DEF Connect, TypeOK, PCs
  <2>2. mu = w /\ wsConn = Nil /\ open = {}
    BY <1>2 DEF Connect, TypeOK, DialerLocks, ConnTracked
  <2>3. DialerLocks'
    BY <1>2, <2>2 DEF Connect, TypeOK, DialerLocks
  <2>4. LastCase' /\ ConnTracked'
    BY <1>2, <2>2 DEF Connect, TypeOK, LastCase, ConnTracked
  <2>5. QED
    BY <2>1, <2>3, <2>4
<1>3. CASE Setup(w)
  BY <1>3 DEF Setup, TypeOK, PCs, DialerLocks, LastCase, ConnTracked
<1>4. CASE Receive(w) \/ ReadFails(w) \/ Respond(w)
  <2>1. /\ \E to \in {"handling", "reading", "closing"} : pc' = [pc EXCEPT ![w] = to]
        /\ UNCHANGED <<mu, wsConn, open, seen, last, leader, config, ctxDone, faults>>
    BY <1>4 DEF Receive, ReadFails, Respond
  <2>2. QED
    BY <2>1 DEF TypeOK, PCs, DialerLocks, LastCase, ConnTracked
<1>5. CASE Drop(w)
  BY <1>5 DEF Drop, TypeOK, DialerLocks, LastCase, ConnTracked
<1>6. CASE EnsureTunnelClosed(w)
  BY <1>6, CloseStep
<1>7. QED
  BY <1>1, <1>2, <1>3, <1>4, <1>5, <1>6 DEF WorkerStep

\* The steps of the reconcile loop.
LEMMA LoopStepKeeps ==
  ASSUME IInv, LoopStep PROVE IInv'
<1> USE TunnelAssumption DEF Threads, Go, Fail, IInv
<1>1. CASE Tick \/ LoadConfig \/ TickFails
  <2>1. /\ pc[Loop] \in {"idle", "isLeader"}
        /\ \E to \in {"idle", "isLeader", "check", "closing"} :
             pc' = [pc EXCEPT ![Loop] = to]
        /\ UNCHANGED <<mu, wsConn, open, last, leader, config, ctxDone>>
    BY <1>1 DEF Tick, LoadConfig, TickFails
  <2>2. faults' \in [FaultKinds -> 0..MaxFaults]
    BY <1>1 DEF Tick, LoadConfig, TickFails, TypeOK
  <2>3. seen' \in BOOLEAN
    BY <1>1, Zenon DEF Tick, LoadConfig, TickFails, TypeOK
  <2>4. TypeOK'
    BY <2>1, <2>2, <2>3 DEF TypeOK, PCs
  <2>5. QED
    BY <2>1, <2>4 DEF TypeOK, DialerLocks, LastCase, ConnTracked
<1>2. CASE Check
  <2>1. TypeOK'
    BY <1>2 DEF Check, TypeOK, PCs
  <2>2. /\ \A w \in Workers : pc'[w] = "connecting" => pc[w] = "connecting"
        /\ pc[Loop] = "check" /\ pc'[Loop] # "exited"
        /\ UNCHANGED <<mu, wsConn, open, last, ctxDone>>
    BY <1>2 DEF Check, TypeOK
  <2>3. QED
    BY <2>1, <2>2 DEF DialerLocks, LastCase, ConnTracked
<1>3. CASE Shutdown
  BY <1>3 DEF Shutdown, TypeOK, PCs, DialerLocks, LastCase, ConnTracked
<1>4. CASE EnsureTunnelClosed(Loop)
  BY <1>4, CloseStep
<1>5. QED
  BY <1>1, <1>2, <1>3, <1>4 DEF LoopStep

\* IInv is inductive.
THEOREM Inductive == Spec => []IInv
<1>1. Init => IInv
  <2> SUFFICES ASSUME Init PROVE IInv
    OBVIOUS
  <2>1. TypeOK
    <3>1. pc \in [Threads -> PCs]
      BY DEF Init, PCs
    <3>2. seen \in BOOLEAN /\ last \in BOOLEAN /\ leader \in BOOLEAN /\ ctxDone \in BOOLEAN
      BY DEF Init
    <3>3. faults \in [FaultKinds -> 0..MaxFaults]
      BY TunnelAssumption DEF Init
    <3>4. QED
      BY <3>1, <3>2, <3>3 DEF Init, TypeOK
  <2>2. DialerLocks /\ LastCase /\ ConnTracked
    BY TunnelAssumption DEF Init, Threads, DialerLocks, LastCase, ConnTracked
  <2>3. QED
    BY <2>1, <2>2 DEF IInv
<1>2. IInv /\ [Next]_vars => IInv'
  <2> SUFFICES ASSUME IInv, [Next]_vars PROVE IInv'
    OBVIOUS
  <2>1. CASE LeaderChanges \/ ConfigChanges \/ CtxDone
    <3>1. /\ leader' \in BOOLEAN /\ config' \in {"absent", "disabled", "enabled"}
          /\ ctxDone' \in BOOLEAN /\ (ctxDone => ctxDone')
      BY <2>1 DEF LeaderChanges, ConfigChanges, CtxDone, IInv, TypeOK
    <3>2. UNCHANGED <<pc, mu, wsConn, open, seen, last, faults>>
      BY <2>1 DEF LeaderChanges, ConfigChanges, CtxDone
    <3>3. QED
      BY <3>1, <3>2 DEF IInv, TypeOK, DialerLocks, LastCase, ConnTracked
  <2>2. CASE LoopStep
    BY <2>2, LoopStepKeeps
  <2>3. ASSUME NEW w \in Workers, Drop(w) \/ Receive(w) \/ WorkerStep(w)
        PROVE  IInv'
    BY <2>3, WorkerStepKeeps
  <2>4. ASSUME NEW t \in Threads, Wait(t) PROVE IInv'
    BY <2>4, TunnelAssumption DEF Wait, AfterClose, Threads, IInv, TypeOK, PCs,
       DialerLocks, LastCase, ConnTracked
  <2>5. CASE UNCHANGED vars
    BY <2>5 DEF vars, IInv, TypeOK, DialerLocks, LastCase, ConnTracked
  <2>6. QED
    BY <2>1, <2>2, <2>3, <2>4, <2>5 DEF Next, Stopped
<1>3. QED
  BY <1>1, <1>2, PTL DEF Spec

\* However ticks, dials, failures and closes interleave, every open websocket
\* is the one in tunnel.WsConn.
THEOREM ConnTrackedHolds == Spec => []ConnTracked
<1>1. IInv => ConnTracked
  BY DEF IInv
<1>2. QED
  BY <1>1, Inductive, PTL

\* When the reconcile loop has returned no connection is left open, and none is
\* opened afterwards.
THEOREM ShutdownCleanHolds == Spec => []ShutdownClean
<1>1. IInv => ShutdownClean
  BY TunnelAssumption DEF IInv, TypeOK, LastCase, ConnTracked, ShutdownClean
<1>2. QED
  BY <1>1, Inductive, PTL
\* The tunnel object and its goroutines never leave their types.
THEOREM TypeOKHolds == Spec => []TypeOK
<1>1. IInv => TypeOK
  BY DEF IInv
<1>2. QED
  BY <1>1, Inductive, PTL

-----------------------------------------------------------------------------
(***************************************************************************)
(* One goroutine at a time.  NoOverlap is not inductive: it says nothing   *)
(* of the time at which the loop closes the connection.  As long as LXD    *)
(* answers, no connection drops and every goroutine runs before the next   *)
(* tick, and until the daemon shuts down: there is one goroutine at most,  *)
(* whose connection is the tunnel's unless the loop waits for it to end,   *)
(* and when the loop leaves its select none is still to start.             *)
(***************************************************************************)
OneGoroutine == \A v, w \in Workers : pc[v] # "none" /\ pc[w] # "none" => v = w

ServesTunnel(w) ==
  /\ pc[w] \in {"none", "start", "connecting", "setup", "reading", "handling", "closing"}
  /\ pc[w] = "start" => pc[Loop] = "idle"
  /\ pc[w] = "closing" => pc[Loop] = "waiting"
  /\ pc[w] \in {"setup", "reading", "handling"} =>
       pc[Loop] = "waiting" \/ (wsConn = w /\ w \in open)

LoopWaits ==
  pc[Loop] = "waiting" =>
    wsConn = Nil /\ \A w \in Workers : pc[w] \notin {"start", "connecting"}

Calm == Undisturbed /\ ~last => /\ OneGoroutine /\ LoopWaits
                                /\ \A w \in Workers : ServesTunnel(w)


\* Failures are counted for good, and each of these kinds of failure disturbs.
LEMMA FailDisturbs ==
  ASSUME IInv, NEW kind \in FaultKinds, Fail(kind), Undisturbed'
  PROVE  Undisturbed /\ kind \notin {"lxd", "drop", "slow"}
  BY DEF IInv, TypeOK, Fail, Undisturbed, FaultKinds

\* The calm of the first two conjuncts and of every goroutine, without its
\* condition.
CalmNow == /\ OneGoroutine /\ LoopWaits
           /\ \A w \in Workers : ServesTunnel(w)

\* The steps of the loop: it starts a goroutine only when it found no
\* connection, and then there is none, and it waits for the one it has cut off.
LEMMA CalmLoop ==
  ASSUME IInv, CalmNow, ~last, LoopStep, Undisturbed', ~last'
  PROVE  CalmNow'
<1> USE TunnelAssumption DEF Threads, Go, CalmNow, FaultKinds, IInv, TypeOK
<1>1. CASE Tick
  <2>1. \A w \in Workers : pc[w] # "start"
    BY <1>1, FailDisturbs DEF Tick
  <2>2. QED
    BY <1>1, <2>1 DEF Tick, OneGoroutine, LoopWaits, ServesTunnel
<1>2. CASE LoadConfig \/ TickFails
  <2>1. /\ pc[Loop] = "isLeader"
        /\ \E to \in {"closing", "check", "idle"} : pc' = [pc EXCEPT ![Loop] = to]
        /\ UNCHANGED <<wsConn, open>>
    BY <1>2 DEF LoadConfig, TickFails
  <2>2. QED
    BY <2>1 DEF OneGoroutine, LoopWaits, ServesTunnel
<1>3. CASE Check
  <2>1. \A w \in Workers : pc[w] \notin {"start", "connecting", "closing"}
    BY <1>3 DEF Check, ServesTunnel, DialerLocks
  <2>2. CASE /\ wsConn = Nil
             /\ \E w \in Workers : pc' = [pc EXCEPT ![Loop] = "idle", ![w] = "start"]
    <3>1. \A w \in Workers : pc[w] = "none"
      BY <1>3, <2>1, <2>2 DEF Check, ServesTunnel
    <3>2. QED
      BY <1>3, <2>2, <3>1 DEF Check, OneGoroutine, LoopWaits, ServesTunnel
  <2>3. CASE \E to \in {"closing", "idle"} : pc' = [pc EXCEPT ![Loop] = to]
    BY <1>3, <2>1, <2>3 DEF Check, OneGoroutine, LoopWaits, ServesTunnel
  <2>4. QED
    BY <1>3, <2>2, <2>3 DEF Check
<1>4. CASE EnsureTunnelClosed(Loop)
  <2>1. \A w \in Workers : pc[w] \notin {"start", "connecting", "closing"}
    BY <1>4 DEF EnsureTunnelClosed, ServesTunnel, DialerLocks
  <2>2. CASE wsConn = Nil
    <3>1. \A w \in Workers : pc[w] = "none"
      BY <1>4, <2>1, <2>2 DEF EnsureTunnelClosed, ServesTunnel
    <3>2. QED
      BY <1>4, <2>2, <3>1 DEF EnsureTunnelClosed, AfterClose, OneGoroutine,
         LoopWaits, ServesTunnel
  <2>3. CASE wsConn # Nil
    BY <1>4, <2>1, <2>3 DEF EnsureTunnelClosed, OneGoroutine, LoopWaits,
       ServesTunnel
  <2>4. QED
    BY <2>2, <2>3
<1>5. CASE Shutdown
  BY <1>5 DEF Shutdown
<1>6. QED
  BY <1>1, <1>2, <1>3, <1>4, <1>5 DEF LoopStep

\* The steps of a goroutine: only one that the loop waits for finds its
\* connection closed, and has then nothing to close itself.
LEMMA CalmWorker ==
  ASSUME IInv, CalmNow, NEW w \in Workers,
         Drop(w) \/ Receive(w) \/ WorkerStep(w), Undisturbed'
  PROVE  CalmNow'
<1> USE TunnelAssumption DEF Threads, Go, CalmNow, FaultKinds, IInv, TypeOK
<1>1. CASE Drop(w)
  BY <1>1, FailDisturbs DEF Drop
<1>2. CASE Lock(w)
  BY <1>2 DEF Lock, OneGoroutine, LoopWaits, ServesTunnel
<1>3. CASE Connect(w)
  BY <1>3 DEF Connect, OneGoroutine, LoopWaits, ServesTunnel
<1>4. CASE Setup(w)
  <2>1. /\ pc[w] = "setup" /\ pc' = [pc EXCEPT ![w] = "reading"]
        /\ UNCHANGED <<wsConn, open>>
    BY <1>4, FailDisturbs DEF Setup
  <2>2. QED
    BY <2>1 DEF OneGoroutine, LoopWaits, ServesTunnel
<1>5. CASE Receive(w) \/ ReadFails(w) \/ Respond(w)
  <2>1. /\ pc[w] \in {"reading", "handling"} /\ UNCHANGED <<wsConn, open>>
        /\ \E to \in {"reading", "handling", "closing"} :
             /\ pc' = [pc EXCEPT ![w] = to]
             /\ to = "closing" => w \notin open
    BY <1>5 DEF Receive, ReadFails, Respond
  <2>2. QED
    BY <2>1 DEF OneGoroutine, LoopWaits, ServesTunnel
<1>6. CASE EnsureTunnelClosed(w)
  <2>1. pc[Loop] = "waiting" /\ wsConn = Nil
    BY <1>6 DEF EnsureTunnelClosed, ServesTunnel, LoopWaits
  <2>2. QED
    BY <1>6, <2>1 DEF EnsureTunnelClosed, AfterClose, OneGoroutine, LoopWaits,
       ServesTunnel
<1>7. QED
  BY <1>1, <1>2, <1>3, <1>4, <1>5, <1>6 DEF WorkerStep

\* No step undoes a failure or the end of the loop.
LEMMA CalmBefore ==
  ASSUME IInv, Next, Undisturbed', ~last' PROVE Undisturbed /\ ~last
<1> USE DEF FaultKinds
<1>1. CASE LeaderChanges \/ ConfigChanges \/ CtxDone \/ Stopped
  BY <1>1 DEF LeaderChanges, ConfigChanges, CtxDone, Stopped, vars, Undisturbed
<1>2. CASE LoopStep
  BY <1>2, FailDisturbs DEF LoopStep, Tick, LoadConfig, TickFails, Check,
     Shutdown, EnsureTunnelClosed, Undisturbed
<1>3. ASSUME NEW w \in Workers, Drop(w) \/ Receive(w) \/ WorkerStep(w)
      PROVE  Undisturbed /\ ~last
  BY <1>3, FailDisturbs DEF Drop, Receive, WorkerStep, Lock, Connect, Setup,
     ReadFails, Respond, EnsureTunnelClosed, Undisturbed
<1>4. ASSUME NEW t \in Threads, Wait(t) PROVE Undisturbed /\ ~last
  BY <1>4 DEF Wait, Undisturbed
<1>5. QED
  BY <1>1, <1>2, <1>3, <1>4 DEF Next

LEMMA CalmStep == IInv /\ Calm /\ [Next]_vars => Calm'
<1>1. SUFFICES ASSUME IInv, Calm, Next, Undisturbed', ~last' PROVE CalmNow'
  <2>1. CASE UNCHANGED vars
    BY <2>1 DEF vars, Calm, Undisturbed, OneGoroutine, LoopWaits, ServesTunnel
  <2>2. QED
    BY <1>1, <2>1 DEF Calm, CalmNow
<1>2. Undisturbed /\ ~last /\ CalmNow
  BY <1>1, CalmBefore DEF Calm, CalmNow
<1>3. CASE LeaderChanges \/ ConfigChanges \/ CtxDone \/ Stopped
  BY <1>2, <1>3 DEF LeaderChanges, ConfigChanges, CtxDone, Stopped, vars,
     CalmNow, OneGoroutine, LoopWaits, ServesTunnel
<1>4. CASE LoopStep
  BY <1>1, <1>2, <1>4, CalmLoop
<1>5. ASSUME NEW w \in Workers, Drop(w) \/ Receive(w) \/ WorkerStep(w)
      PROVE  CalmNow'
  BY <1>1, <1>2, <1>5, CalmWorker
<1>6. ASSUME NEW t \in Threads, Wait(t) PROVE CalmNow'
  <2>1. t = Loop /\ \A w \in Workers : pc[w] = "none"
    BY <1>2, <1>6 DEF Wait, CalmNow, ServesTunnel, Counted, Threads
  <2>2. QED
    BY <1>2, <1>6, <2>1, TunnelAssumption
       DEF Wait, AfterClose, Threads, IInv, TypeOK, CalmNow, OneGoroutine,
           LoopWaits, ServesTunnel
<1>7. QED
  BY <1>1, <1>3, <1>4, <1>5, <1>6 DEF Next

LEMMA CalmInit == Init => Calm
  BY TunnelAssumption DEF Init, Calm, Threads, OneGoroutine, LoopWaits,
     ServesTunnel

\* Wg.Wait does what it is for: without disturbances the loop never decides
\* while two goroutines are past their start.
THEOREM NoOverlapHolds == Spec => []NoOverlap
<1>1. IInv /\ Calm => NoOverlap
  BY TunnelAssumption DEF IInv, LastCase, Calm, OneGoroutine, NoOverlap
<1>2. QED
  BY <1>1, CalmStep, CalmInit, Inductive, PTL DEF Spec
=============================================================================
