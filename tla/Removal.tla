------------------------------- MODULE Removal -------------------------------
(***************************************************************************)
(* DELETE /services/cluster/{name}: removeClusterMember                    *)
(* (api/services_cluster.go) takes a system out of LXD first, then out of  *)
(* MicroCeph and MicroOVN concurrently, and out of MicroCloud last.  A     *)
(* request may fail half way or die with its daemon, and is then sent      *)
(* again, possibly while the first one still runs, and nothing keeps       *)
(* requests for different systems apart.                                   *)
(*                                                                         *)
(* What the services themselves do is modelled from how this handler uses  *)
(* them: a cluster has members, MicroCeph also has disks, pools with a     *)
(* replication factor, and a monmap, which it keeps clean when a member    *)
(* leaves a cluster of three or more.                                      *)
(***************************************************************************)
EXTENDS Integers, FiniteSets, FiniteSetsExt

CONSTANTS
  Names,      \* systems
  Reqs,       \* requests
  Targets,    \* what the requests may ask for: the system each one removes
  Present,    \* the services whose state directory the daemon that serves it has
  Disks,      \* MicroCeph's disks
  Location,   \* the system each disk is in
  Pools,      \* MicroCeph's pools
  Default,    \* "" in the code: the size new pools get
  PoolSize    \* the replication factor each pool starts with

Ceph == "MicroCeph"
Services == {"LXD", "MicroOVN", Ceph, "MicroCloud"}
First == "LXD"
Last == "MicroCloud"

ASSUME RemovalAssumption ==
  /\ Targets \subseteq [Reqs -> Names]
  /\ Present \in [Reqs -> SUBSET Services] /\ \A r \in Reqs : Last \in Present[r]
  /\ IsFiniteSet(Names)
  /\ IsFiniteSet(Disks) /\ Location \in [Disks -> Names]
  /\ Default \in Pools /\ PoolSize \in [Pools -> Nat]

VARIABLES
  name,     \* the system each request removes
  members,  \* the systems in each service's cluster
  mon,      \* the systems in MicroCeph's monmap
  size,     \* the replication factor of each pool
  stage,    \* each request's hook of each service
  count,    \* diskCount, as a request has computed it
  exists,   \* memberExists of each request
  ret,      \* each request: "none" not sent, "checking", "running", or its end
  crossed   \* history: MicroCeph's hook has run for two systems at once

vars == <<name, members, mon, size, stage, count, exists, ret, crossed>>

Hook == {"todo", "counting", "resizing", "deleting", "ok", "err"}
Ends == {"refused", "ok", "notFound", "err", "lost"}

\* The disks of these systems.
DiskTotal(S) == Cardinality({d \in Disks : Location[d] \in S})

(***************************************************************************)
(* The type invariant.                                                     *)
(***************************************************************************)
TypeOK ==
  /\ name \in [Reqs -> Names]
  /\ members \in [Services -> SUBSET Names]
  /\ mon \subseteq Names
  /\ size \in [Pools -> Nat]
  /\ stage \in [Reqs -> [Services -> Hook]]
  /\ count \in [Reqs -> Nat]
  /\ exists \in [Reqs -> BOOLEAN]
  /\ ret \in [Reqs -> {"none", "checking", "running"} \cup Ends]
  /\ crossed \in BOOLEAN

\* MicroCloud knows every system; a service may lack some that were removed by
\* hand or never added.  Pools are no larger than the number of disks.
Init ==
  /\ name \in Targets
  /\ \E S \in SUBSET Names :
       members = [s \in Services |-> IF s = Ceph THEN S ELSE Names]
  /\ mon = members[Ceph]
  /\ size = [p \in Pools |-> Min({PoolSize[p], DiskTotal(members[Ceph])})]
  /\ stage = [r \in Reqs |-> [s \in Services |-> "todo"]]
  /\ count = [r \in Reqs |-> 0]
  /\ exists = [r \in Reqs |-> FALSE]
  /\ ret = [r \in Reqs |-> "none"]
  /\ crossed = FALSE

-----------------------------------------------------------------------------
Running(r) == ret[r] = "running"

\* The handler up to MicroCeph's members: only in a cluster of two does the
\* monmap matter.  A query that fails refuses the request.
Begin(r) ==
  /\ ret[r] = "none"
  /\ LET n == name[r]
         ofTwo == /\ Ceph \in Present[r]
                  /\ Cardinality(members[Ceph]) = 2 /\ n \in members[Ceph]
     IN \E to \in {"refused", IF ofTwo THEN "checking" ELSE "running"} :
          ret' = [ret EXCEPT ![r] = to]
  /\ UNCHANGED <<name, members, mon, size, stage, count, exists, crossed>>

\* The monitors are asked for, after the members: one that is still in the
\* monmap is not removed.
CheckMonmap(r) ==
  /\ ret[r] = "checking"
  /\ \/ ret' = [ret EXCEPT ![r] = "refused"]
     \/ name[r] \notin mon /\ ret' = [ret EXCEPT ![r] = "running"]
  /\ UNCHANGED <<name, members, mon, size, stage, count, exists, crossed>>

\* Mutant: a failed hook counts as done.
OkOrFailed(r, S) == \A s \in S : stage[r][s] \in {"ok", "err"}

\* The hooks of these services have succeeded.
Ok(r, S) == \A s \in S : stage[r][s] = "ok"

\* RunConcurrent's order, over the services that are there.
CanStart(r, s) ==
  /\ s \in Present[r]
  /\ \/ s = First
     \/ s # Last /\ Ok(r, Present[r] \cap {First})
     \/ s = Last /\ Ok(r, Present[r] \ {Last})

SetStage(r, s, to) == stage' = [stage EXCEPT ![r][s] = to]

\* The request is inside MicroCeph's hook.
InCeph(r) ==
  Running(r) /\ stage[r][Ceph] \in {"counting", "resizing", "deleting"}

\* The hook asks for the service's members; a system that is not one of them
\* was removed by hand, and there is nothing to do.
Look(r, s) ==
  /\ Running(r) /\ stage[r][s] = "todo" /\ CanStart(r, s)
  /\ \/ /\ name[r] \notin members[s]
        /\ SetStage(r, s, "ok") /\ UNCHANGED exists
     \/ /\ name[r] \in members[s]
        /\ SetStage(r, s, IF s = Ceph THEN "counting" ELSE "deleting")
        /\ exists' = [exists EXCEPT ![r] = TRUE]
  /\ crossed' = (crossed \/ (s = Ceph /\ \E q \in Reqs :
                                InCeph(q) /\ name[q] # name[r]))
  /\ UNCHANGED <<name, members, mon, size, count, ret>>

\* Mutant: the system's own disks are counted.
RemainingOfAll(r) == members[Ceph]

\* The members whose disks remain.
Remaining(r) == members[Ceph] \ {name[r]}

\* Mutant: the system's disks are taken off twice.
CountDisksTwice(r) ==
  /\ Running(r) /\ stage[r][Ceph] = "counting"
  /\ count' = [count EXCEPT ![r] = DiskTotal(Remaining(r)) - DiskTotal({name[r]})]
  /\ SetStage(r, Ceph, "resizing")
  /\ UNCHANGED <<name, members, mon, size, exists, ret, crossed>>

\* The hook for MicroCeph counts the disks that stay ...
CountDisks(r) ==
  /\ Running(r) /\ stage[r][Ceph] = "counting"
  /\ count' = [count EXCEPT ![r] = DiskTotal(Remaining(r))]
  /\ SetStage(r, Ceph, "resizing")
  /\ UNCHANGED <<name, members, mon, size, exists, ret, crossed>>

\* ... and shrinks the pools that are larger than that, or else sets the
\* default size.
ResizePools(r) ==
  /\ Running(r) /\ stage[r][Ceph] = "resizing"
  /\ LET large == {p \in Pools \ {Default} : size[p] > count[r]}
         poolsToUpdate == IF large = {} THEN {Default} ELSE large
     IN size' = [p \in Pools |-> IF p \in poolsToUpdate THEN count[r]
                                                        ELSE size[p]]
  /\ SetStage(r, Ceph, "deleting")
  /\ UNCHANGED <<name, members, mon, count, exists, ret, crossed>>

\* A service refuses to remove its last member.
CanLeave(n, s) == n \in members[s] /\ members[s] # {n}

\* Mutant: only MicroCloud's deletion is waited for.
DeleteClusterMemberAsync(r, s) ==
  /\ Running(r) /\ stage[r][s] = "deleting"
  /\ CanLeave(name[r], s)
  /\ members' = [members EXCEPT ![Last] = IF s = Last THEN @ \ {name[r]} ELSE @]
  /\ SetStage(r, s, "ok")
  /\ UNCHANGED <<name, mon, size, count, exists, ret, crossed>>

\* DeleteClusterMember of service s.  MicroCeph forgets the monitor only in a
\* cluster of three or more.
DeleteClusterMember(r, s) ==
  /\ Running(r) /\ stage[r][s] = "deleting"
  /\ CanLeave(name[r], s)
  /\ members' = [members EXCEPT ![s] = @ \ {name[r]}]
  /\ mon' = IF s = Ceph /\ Cardinality(members[s]) > 2
            THEN mon \ {name[r]} ELSE mon
  /\ SetStage(r, s, "ok")
  /\ UNCHANGED <<name, size, count, exists, ret, crossed>>

\* Any query of the hook fails, or the deletion does: also because the system
\* is no member any more.
HookFails(r, s) ==
  /\ Running(r)
  /\ \/ stage[r][s] = "todo" /\ CanStart(r, s)
     \/ stage[r][s] \in {"counting", "resizing", "deleting"}
  /\ SetStage(r, s, "err")
  /\ UNCHANGED <<name, members, mon, size, count, exists, ret, crossed>>

\* Mutant: the hooks that still run are not waited for.
FailedAtOnce(r) == \E s \in Services : stage[r][s] = "err"

\* RunConcurrent returns an error: nothing runs any more, and the concurrent
\* hooks have all been called unless LXD's failed.
Failed(r) ==
  /\ \E s \in Present[r] : stage[r][s] = "err"
  /\ \A s \in Present[r] : stage[r][s] \in {"todo", "ok", "err"}
  /\ Ok(r, Present[r] \cap {First}) =>
       \A s \in Present[r] \ {Last} : stage[r][s] # "todo"

\* The answer.
Answer(r) ==
  /\ Running(r)
  /\ \/ Failed(r) /\ ret' = [ret EXCEPT ![r] = "err"]
     \/ /\ Ok(r, Present[r])
        /\ ret' = [ret EXCEPT ![r] = IF exists[r] THEN "ok" ELSE "notFound"]
  /\ UNCHANGED <<name, members, mon, size, stage, count, exists, crossed>>

\* The daemon that serves the request dies.
Crash(r) ==
  /\ ret[r] \in {"checking", "running"}
  /\ ret' = [ret EXCEPT ![r] = "lost"]
  /\ UNCHANGED <<name, members, mon, size, stage, count, exists, crossed>>

\* An administrator removes a system by hand, from the monmap ...
MonLeaves(n) ==
  /\ n \in mon /\ Cardinality(mon) > 1
  /\ mon' = mon \ {n}
  /\ UNCHANGED <<name, members, size, stage, count, exists, ret, crossed>>

\* ... or from a service.
RemoveByHand(n, s) ==
  /\ s \in {"LXD", "MicroOVN"} /\ CanLeave(n, s)
  /\ members' = [members EXCEPT ![s] = @ \ {n}]
  /\ UNCHANGED <<name, mon, size, stage, count, exists, ret, crossed>>

\* Every request of the instance has been answered.
Idle == (\A r \in Reqs : ret[r] \in Ends) /\ UNCHANGED vars

Next ==
  \/ \E r \in Reqs :
       \/ Begin(r) \/ CheckMonmap(r) \/ CountDisks(r) \/ ResizePools(r)
       \/ Answer(r) \/ Crash(r)
       \/ \E s \in Services :
            Look(r, s) \/ DeleteClusterMember(r, s) \/ HookFails(r, s)
  \/ \E n \in {name[r] : r \in Reqs} :
       MonLeaves(n) \/ \E s \in Services : RemoveByHand(n, s)
  \/ Idle

Spec == Init /\ [][Next]_vars

-----------------------------------------------------------------------------
(* Properties.                                                              *)

\* MicroCloud forgets a system last: whatever fails, dies or runs at the same
\* time, a system that is still in a service is one MicroCloud knows about and
\* can be asked to remove again.  A service that one of the serving daemons
\* does not have is not in its list of existing services and is left out.
MicroCloudKnows ==
  \A s \in Services :
    (\A r \in Reqs : s \in Present[r]) => members[s] \subseteq members["MicroCloud"]

\* A request that succeeds, or finds nothing to do, leaves the system in no
\* service its daemon has, whatever earlier requests for it left behind.
RemovedEverywhere ==
  \A r \in Reqs : ret[r] \in {"ok", "notFound"} =>
    \A s \in Present[r] : name[r] \notin members[s]

\* No pool ever asks for more replicas than there are disks: the handler shrinks
\* the pools before it takes the system's disks away.  Other requests may do as
\* they like, but for MicroCeph's hook running for another system meanwhile.
PoolsFit ==
  ~crossed =>
    \A p \in Pools \ {Default} : size[p] <= DiskTotal(members[Ceph])

\* The monmap never names a system that has left MicroCeph, which would leave
\* "the cluster broken as it tries to reach the removed node".
MonmapClean == mon \subseteq members[Ceph]

\* What RunConcurrent sees of a request's hooks, and of how it ended.
Status(h) == IF h \in {"counting", "resizing", "deleting"} THEN "running" ELSE h
Hooks(r) == [s \in Present[r] |-> Status(stage[r][s])]
Returned(r) == IF ret[r] \in {"ok", "notFound"} THEN "ok"
               ELSE IF ret[r] = "err" THEN "err" ELSE "none"

\* removeClusterMember runs its hook as RunConcurrent promises: in its order,
\* with no hook left running when it answers, and with an error if one failed.
RC(r) == INSTANCE RunConcurrent
           WITH Services <- Present[r], st <- Hooks(r), ret <- Returned(r)
ImplementsRunConcurrent ==
  /\ \A r \in Reqs : RC(r)!Init
  /\ [][\A r \in Reqs : RC(r)!Next \/ UNCHANGED RC(r)!rcVars]_vars
=============================================================================
