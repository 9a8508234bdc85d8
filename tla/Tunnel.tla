------------------------------- MODULE Tunnel -------------------------------
(***************************************************************************)
(* The reverse tunnel from the database leader's microcloudd to the        *)
(* cluster manager (cmd/microcloudd/cluster_manager_tunnel.go).            *)
(*                                                                         *)
(* One reconcile loop ticks every ten seconds: it compares what the        *)
(* cluster wants (it leads the database and the configuration enables the  *)
(* tunnel) with tunnel.WsConn, and starts a goroutine (Wg.Go) that runs    *)
(* openTunnel, or closes the connection and waits for the goroutine        *)
(* (Wg.Wait).  The goroutine itself closes the tunnel when a read or a     *)
(* write fails.  tunnel.Mu guards WsConn; it is held during the dial.      *)
(***************************************************************************)
EXTENDS Integers, FiniteSets

CONSTANTS
  Workers,    \* openTunnel goroutines that may exist at once
  Loop,       \* the reconcile goroutine
  Nil,
  Faults,     \* the kinds of failures that may happen
  MaxFaults   \* how many failures of each kind a behaviour has at most

Threads == Workers \cup {Loop}

\* A query of a tick, the dial, a query of LXD after it or the connection fails,
\* or a goroutine that was started has not run at all by the next tick.
FaultKinds == {"tick", "connect", "lxd", "drop", "slow"}

ASSUME TunnelAssumption ==
  /\ Loop \notin Workers /\ Nil \notin Workers /\ Nil # Loop
  /\ Faults \subseteq FaultKinds
  /\ MaxFaults \in Nat

VARIABLES
  pc,        \* where each goroutine is; "none" for one that does not run
  mu,        \* the goroutine that dials while it holds tunnel.Mu, or Nil
  wsConn,    \* tunnel.WsConn, named by the goroutine that dialled it, or Nil
  open,      \* websockets that neither end has closed
  seen,      \* needsTunnel as the loop read it
  last,      \* the loop is in its ctx.Done case
  leader, config,  \* what the cluster wants
  ctxDone,   \* the daemon is shutting down
  faults     \* failures of each kind so far

vars == <<pc, mu, wsConn, open, seen, last, leader, config, ctxDone, faults>>

PCs == {"none", "idle", "isLeader", "check", "closing", "waiting", "exited",
        "start", "connecting", "setup", "reading", "handling"}

(***************************************************************************)
(* The type invariant of the tunnel object and its goroutines.             *)
(***************************************************************************)
TypeOK ==
  /\ pc \in [Threads -> PCs]
  /\ mu \in Workers \cup {Nil} /\ wsConn \in Workers \cup {Nil}
  /\ open \subseteq Workers
  /\ seen \in BOOLEAN /\ last \in BOOLEAN
  /\ leader \in BOOLEAN /\ ctxDone \in BOOLEAN
  /\ config \in {"absent", "disabled", "enabled"}
  /\ faults \in [FaultKinds -> 0..MaxFaults]

Init ==
  /\ pc = [t \in Threads |-> IF t = Loop THEN "idle" ELSE "none"]
  /\ mu = Nil /\ wsConn = Nil /\ open = {}
  /\ seen = FALSE /\ last = FALSE /\ leader = FALSE /\ config = "absent"
  /\ ctxDone = FALSE
  /\ faults = [k \in FaultKinds |-> 0]

-----------------------------------------------------------------------------
Go(t, from, to) == pc[t] = from /\ pc' = [pc EXCEPT ![t] = to]

Fail(kind) ==
  /\ kind \in Faults /\ faults[kind] < MaxFaults
  /\ faults' = [faults EXCEPT ![kind] = @ + 1]

\* The goroutines tunnel.Wg counts.
Counted == {w \in Workers : pc[w] # "none"}

\* The state the tunnel should be in.
Wanted == leader /\ config = "enabled" /\ ~ctxDone

-----------------------------------------------------------------------------
(* The environment.                                                         *)

\* The database elects another leader, or this daemon.
LeaderChanges ==
  /\ leader' = ~leader
  /\ UNCHANGED <<pc, mu, wsConn, open, seen, last, config, ctxDone, faults>>

\* clusterManagerPost, clusterManagerPut and clusterManagerDelete.
ConfigChanges ==
  /\ \/ config = "absent" /\ config' = "disabled"
     \/ config = "disabled" /\ config' \in {"enabled", "absent"}
     \/ config = "enabled" /\ config' \in {"disabled", "absent"}
  /\ UNCHANGED <<pc, mu, wsConn, open, seen, last, leader, ctxDone, faults>>

\* The daemon's shutdown context is cancelled.
CtxDone ==
  /\ ~ctxDone /\ ctxDone' = TRUE
  /\ UNCHANGED <<pc, mu, wsConn, open, seen, last, leader, config, faults>>

\* The cluster manager or the network ends a connection.
Drop(w) ==
  /\ w \in open /\ Fail("drop")
  /\ open' = open \ {w}
  /\ UNCHANGED <<pc, mu, wsConn, seen, last, leader, config, ctxDone>>

-----------------------------------------------------------------------------
(* The reconcile loop.                                                      *)

\* ensureTunnel up to the leader check.
Tick ==
  /\ Go(Loop, "idle", IF leader THEN "isLeader" ELSE "closing")
  /\ IF \E w \in Workers : pc[w] = "start" THEN Fail("slow")
                                            ELSE UNCHANGED faults
  /\ UNCHANGED <<mu, wsConn, open, seen, last, leader, config, ctxDone>>

\* LoadClusterManager and LoadClusterManagerReverseTunnel.
LoadConfig ==
  /\ Go(Loop, "isLeader", IF config = "absent" THEN "closing" ELSE "check")
  /\ seen' = (config = "enabled")
  /\ UNCHANGED <<mu, wsConn, open, last, leader, config, ctxDone, faults>>

\* A query of the tick fails, or MicroCloud is not initialised: try again at
\* the next tick.
TickFails ==
  /\ Go(Loop, "isLeader", "idle") /\ Fail("tick")
  /\ UNCHANGED <<mu, wsConn, open, seen, last, leader, config, ctxDone>>

\* Mutant: a tunnel that was disabled is not closed.
CheckOpensOnly ==
  /\ pc[Loop] = "check" /\ mu = Nil
  /\ \/ /\ seen /\ wsConn = Nil
        /\ \E w \in Workers :
             /\ pc[w] = "none"
             /\ pc' = [pc EXCEPT ![Loop] = "idle", ![w] = "start"]
     \/ ~(seen /\ wsConn = Nil) /\ Go(Loop, "check", "idle")
  /\ UNCHANGED <<mu, wsConn, open, seen, last, leader, config, ctxDone, faults>>

\* ensureTunnel's decision; its read of WsConn takes the lock.
Check ==
  /\ pc[Loop] = "check" /\ mu = Nil
  /\ \/ /\ seen /\ wsConn = Nil
        /\ \E w \in Workers :
             /\ pc[w] = "none"
             /\ pc' = [pc EXCEPT ![Loop] = "idle", ![w] = "start"]
     \/ /\ ~seen /\ wsConn # Nil
        /\ Go(Loop, "check", "closing")
     \/ /\ seen = (wsConn # Nil)
        /\ Go(Loop, "check", "idle")
  /\ UNCHANGED <<mu, wsConn, open, seen, last, leader, config, ctxDone, faults>>

\* The loop's select sees ctx.Done.
Shutdown ==
  /\ ctxDone
  /\ Go(Loop, "idle", "closing")
  /\ last' = TRUE
  /\ UNCHANGED <<mu, wsConn, open, seen, leader, config, ctxDone, faults>>

\* Where a goroutine goes after ensureTunnelClosed: a worker ends, the loop
\* waits for the next tick or, in its ctx.Done case, returns.
AfterClose(t) == IF t # Loop THEN "none" ELSE IF last THEN "exited" ELSE "idle"

\* ensureTunnelClosed up to Wg.Wait, called by the loop or by a worker.
EnsureTunnelClosed(t) ==
  /\ pc[t] = "closing" /\ mu = Nil
  /\ pc' = [pc EXCEPT ![t] = IF wsConn = Nil THEN AfterClose(t) ELSE "waiting"]
  /\ open' = open \ {wsConn}
  /\ wsConn' = Nil
  /\ UNCHANGED <<mu, seen, last, leader, config, ctxDone, faults>>

\* Mutant: Wg.Wait does not wait.
WaitNot(t) ==
  /\ pc[t] = "waiting"
  /\ pc' = [pc EXCEPT ![t] = AfterClose(t)]
  /\ UNCHANGED <<mu, wsConn, open, seen, last, leader, config, ctxDone, faults>>

\* Wg.Wait returns when every openTunnel goroutine has ended; the goroutine
\* that calls it from openTunnel is one of them.
Wait(t) ==
  /\ pc[t] = "waiting" /\ Counted = {}
  /\ pc' = [pc EXCEPT ![t] = AfterClose(t)]
  /\ UNCHANGED <<mu, wsConn, open, seen, last, leader, config, ctxDone, faults>>

-----------------------------------------------------------------------------
(* openTunnel.                                                              *)

\* Mutant: WsConn is not checked again under the lock.
LockUnchecked(w) ==
  /\ mu = Nil
  /\ Go(w, "start", "connecting") /\ mu' = w
  /\ UNCHANGED <<wsConn, open, seen, last, leader, config, ctxDone, faults>>

\* The lock, and the second look at WsConn.
Lock(w) ==
  /\ mu = Nil
  /\ \/ wsConn # Nil /\ Go(w, "start", "none") /\ UNCHANGED mu
     \/ wsConn = Nil /\ Go(w, "start", "connecting") /\ mu' = w
  /\ UNCHANGED <<wsConn, open, seen, last, leader, config, ctxDone, faults>>

\* Mutant: the dial does not use the daemon's context.
ConnectIgnoresContext(w) ==
  /\ mu' = Nil
  /\ \/ /\ Go(w, "connecting", "setup")
        /\ wsConn' = w /\ open' = open \cup {w}
        /\ UNCHANGED faults
     \/ /\ Go(w, "connecting", "none")
        /\ Fail("connect")
        /\ UNCHANGED <<wsConn, open>>
  /\ UNCHANGED <<seen, last, leader, config, ctxDone>>

\* Mutant: the return after a failed dial is missing.
ConnectNoReturn(w) ==
  /\ mu' = Nil
  /\ Go(w, "connecting", "setup")
  /\ \/ ~ctxDone /\ wsConn' = w /\ open' = open \cup {w} /\ UNCHANGED faults
     \/ Fail("connect") /\ wsConn' = Nil /\ open' = open \cup {Nil}
  /\ UNCHANGED <<seen, last, leader, config, ctxDone>>

\* ConnectTunnel dials with the daemon's context; WsConn is set before the
\* lock is released.
Connect(w) ==
  /\ mu' = Nil
  /\ \/ /\ ~ctxDone /\ Go(w, "connecting", "setup")
        /\ wsConn' = w /\ open' = open \cup {w}
        /\ UNCHANGED faults
     \/ /\ Go(w, "connecting", "none")
        /\ IF ctxDone THEN UNCHANGED faults ELSE Fail("connect")
        /\ UNCHANGED <<wsConn, open>>
  /\ UNCHANGED <<seen, last, leader, config, ctxDone>>

\* The LXD server's certificate and address are read.  If that fails the
\* deferred conn.Close runs, and WsConn stays as it is.
Setup(w) ==
  /\ \/ Go(w, "setup", "reading") /\ UNCHANGED <<open, faults>>
     \/ /\ Go(w, "setup", "none") /\ Fail("lxd")
        /\ open' = open \ {w}
  /\ UNCHANGED <<mu, wsConn, seen, last, leader, config, ctxDone>>

\* ReadJSON returns a request ...
Receive(w) ==
  /\ w \in open
  /\ Go(w, "reading", "handling")
  /\ UNCHANGED <<mu, wsConn, open, seen, last, leader, config, ctxDone, faults>>

\* Mutant: a failed read is tried again.
ReadFailsRetries(w) ==
  /\ w \notin open /\ pc[w] = "reading"
  /\ UNCHANGED vars

\* ... or fails because the connection is closed.
ReadFails(w) ==
  /\ w \notin open
  /\ Go(w, "reading", "closing")
  /\ UNCHANGED <<mu, wsConn, open, seen, last, leader, config, ctxDone, faults>>

\* handleTunnelRequest answers every request, with LXD's response or an error
\* status; WriteJSON fails when the connection is closed by then.
Respond(w) ==
  /\ Go(w, "handling", IF w \in open THEN "reading" ELSE "closing")
  /\ UNCHANGED <<mu, wsConn, open, seen, last, leader, config, ctxDone, faults>>

-----------------------------------------------------------------------------
LoopStep ==
  \/ Tick \/ LoadConfig \/ TickFails \/ Check \/ Shutdown
  \/ EnsureTunnelClosed(Loop)

WorkerStep(w) ==
  \/ Lock(w) \/ Connect(w) \/ Setup(w) \/ ReadFails(w) \/ Respond(w)
  \/ EnsureTunnelClosed(w)

\* The loop has returned.
Stopped == pc[Loop] = "exited" /\ UNCHANGED vars

Next ==
  \/ LeaderChanges \/ ConfigChanges \/ CtxDone
  \/ LoopStep
  \/ \E w \in Workers : Drop(w) \/ Receive(w) \/ WorkerStep(w)
  \/ \E t \in Threads : Wait(t)
  \/ Stopped

Spec == Init /\ [][Next]_vars

(***************************************************************************)
(* Fairness: the ticker ticks and goroutines that can run do run; select   *)
(* chooses at random between a tick and ctx.Done.  Requests, failures and  *)
(* changes of the configuration need not happen.                           *)
(***************************************************************************)
FairSpec ==
  /\ Spec
  /\ WF_vars(LoopStep) /\ SF_vars(Shutdown)
  /\ \A w \in Workers : WF_vars(WorkerStep(w))
  /\ \A t \in Threads : WF_vars(Wait(t))

-----------------------------------------------------------------------------
(* Properties.                                                              *)

\* Every open websocket is the one in tunnel.WsConn: two goroutines started
\* by successive ticks never both keep a connection, and none is leaked when
\* the tunnel is closed while it is being set up.
ConnTracked == \A w \in open : wsConn = w

\* When the loop has returned no connection is left and none is dialled later,
\* although ensureTunnelClosed does not wait for a goroutine that has not
\* dialled yet.
ShutdownClean == pc[Loop] = "exited" => wsConn = Nil /\ open = {}

\* Once the cluster's wish is stable, so is the tunnel: it is open and serves,
\* or is closed, for ever.  (ReconcileClusterManagerTunnel "ensures the tunnel
\* to cluster manager is in the right state".)
Reconciled ==
  /\ <>[]Wanted => <>[](open # {})
  /\ <>[]~leader \/ <>[](config # "enabled") \/ <>[]ctxDone => <>[](open = {})

\* When the daemon shuts down the loop returns: OnStop waits for it.
ShutdownCompletes == ctxDone ~> pc[Loop] = "exited"

\* LXD has always answered, no connection has dropped and no goroutine was slow.
Undisturbed == \A k \in {"lxd", "drop", "slow"} : faults[k] = 0

\* The loop starts no new connection before the goroutine of the one it closed
\* has ended: without disturbances at most one goroutine is past its start
\* whenever the loop decides (Wg.Wait in ensureTunnelClosed).
NoOverlap ==
  Undisturbed /\ pc[Loop] \in {"idle", "isLeader", "check"} =>
    \A v, w \in Workers :
      pc[v] \notin {"none", "start"} /\ pc[w] \notin {"none", "start"} => v = w

\* As long as LXD answers and no connection drops, failed ticks and failed dials
\* do not keep the loop from reconciling the tunnel, however leadership,
\* configuration and shutdown interleave with them.
ReconciledUndisturbed == []Undisturbed => Reconciled

\* Nor do they keep the loop from returning when the daemon shuts down.
ShutdownUndisturbed == []Undisturbed => ShutdownCompletes
=============================================================================
