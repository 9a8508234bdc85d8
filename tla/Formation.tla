------------------------------ MODULE Formation ------------------------------
(***************************************************************************)
(* How `microcloud init` and `microcloud add` form the clusters:           *)
(* setupCluster, addPeers and waitForJoin (cmd/microcloud/main_init.go) on *)
(* the system that runs the command, and servicesPut (api/services.go) on  *)
(* the system that joins.  The command bootstraps the services nobody has, *)
(* lets every peer join MicroCloud, issues the tokens of the other         *)
(* services, lets the local system and then the peers join them, and adds  *)
(* the disks of the systems MicroCeph already had.  Every call may fail    *)
(* and the command may be killed; it can then be run again.                *)
(*                                                                         *)
(* The services are modelled from how this code uses them: a cluster has   *)
(* members, and a token lets the named system join once.  The LXD devices  *)
(* that setupCluster configures afterwards are not part of this module.    *)
(***************************************************************************)
EXTENDS Integers, FiniteSets

CONSTANTS
  Systems,      \* c.systems: the systems to be clustered, Local included
  Local,        \* the system that runs the command
  Outsiders,    \* systems that join a service on their own at any time
  Services,     \* the services that are set up
  Reusable,     \* those some systems may already have a cluster of
  Selected,     \* the systems with a disk selected for MicroCeph
  MaxAttempts   \* how often the command is run

ASSUME FormationAssumption ==
  /\ Local \in Systems /\ Systems \cap Outsiders = {}
  /\ IsFiniteSet(Systems \cup Outsiders)
  /\ {"MicroCloud", "LXD"} \subseteq Services
  /\ Services \subseteq {"MicroCloud", "LXD", "MicroCeph", "MicroOVN"}
  /\ Reusable \subseteq Services \ {"MicroCloud", "LXD"}
  /\ Selected \subseteq Systems
  /\ "MicroCeph" \notin Services => Selected = {}
  /\ MaxAttempts \in Nat \ {0}

VARIABLES
  members,    \* the systems in each service's cluster
  tokens,     \* the join tokens each service would accept
  stray,      \* tokens nothing deletes: the command died, or was not told
  disks,      \* the systems whose selected disk is still to be added
  adds,       \* how often AddDisk was called for the disk of a system
  known,      \* c.state: the members of each service, {} if not clustered
  size,       \* clusterSizes
  cfg,        \* joinConfig: the services whose tokens each system is sent
  reverts,    \* the tokens the reverter deletes
  pc,         \* where the command is
  loop,       \* the loop of addPeers that calls waitForJoin
  todo,       \* the systems its current loop still has to handle
  peer,       \* the system it handles
  hook,       \* RunConcurrent's hook of each service, here or on the joiner
  err,        \* the err that the joiner's hooks share
  clustered,  \* waitForJoin: the services it still waits for
  attempts,   \* the number of this run
  late,       \* joins that may outlive the command that asked for them
  meddled     \* history: services an outsider joined while this run went on

services == <<members, tokens, stray, disks, adds>>
plan == <<known, size, cfg, reverts>>
run == <<attempts, late, meddled>>
vars == <<services, plan, pc, loop, todo, peer, hook, err, clustered, run>>

Nodes == Systems \cup Outsiders
Ends == {"done", "failed", "killed"}
Steps == {"bootstrap", "cloud", "issue", "local", "peers", "request", "poll",
          "disks"}

(***************************************************************************)
(* The type invariant.                                                     *)
(***************************************************************************)
TypeOK ==
  /\ members \in [Services -> SUBSET Nodes]
  /\ tokens \subseteq Services \X Systems
  /\ stray \subseteq Services \X Systems
  /\ disks \subseteq Systems
  /\ adds \in [Systems -> Nat]
  /\ known \in [Services -> SUBSET Nodes]
  /\ size \in [Services -> Nat]
  /\ cfg \in [Systems -> SUBSET Services]
  /\ reverts \subseteq Services \X Systems
  /\ pc \in Steps \cup Ends
  /\ loop \in {"cloud", "local", "peers"}
  /\ todo \subseteq Systems
  /\ peer \in Systems
  /\ hook \in [Services -> {"todo", "running", "ok", "err"}]
  /\ err \in {"ok", "err"}
  /\ clustered \subseteq Services
  /\ attempts \in 1..MaxAttempts
  /\ late \subseteq Services \X Systems
  /\ meddled \subseteq Services

Idle == [s \in Services |-> "todo"]

\* `microcloud init`: some of the systems may already share a MicroCeph or a
\* MicroOVN cluster, with others or without.
Init ==
  /\ members \in [Services -> SUBSET Nodes]
  /\ \A s \in Services :
       members[s] # {} => s \in Reusable /\ members[s] \cap Systems # {}
  /\ tokens = {} /\ stray = {}
  /\ disks = Selected
  /\ adds = [n \in Systems |-> 0]
  /\ known = members
  /\ size = [s \in Services |-> 0]
  /\ cfg = [n \in Systems |-> {}]
  /\ reverts = {}
  /\ pc = "bootstrap" /\ loop = "cloud" /\ todo = {} /\ peer = Local
  /\ hook = Idle /\ err = "ok" /\ clustered = {}
  /\ attempts = 1 /\ late = {} /\ meddled = {}

-----------------------------------------------------------------------------
(* RunConcurrent, as the command and the joiner call it.                    *)

\* The services a hook runs for: a joiner has those it was sent tokens for.
Group == IF pc = "request" THEN cfg[peer] ELSE Services

\* Tokens are issued for all services at once; MicroCloud comes first and LXD
\* last in bootstrapping and in joining.
First == IF pc = "issue" THEN {} ELSE {"MicroCloud"} \cap Group
Last == IF pc = "issue" THEN {} ELSE {"LXD"} \cap Group

Ok(S) == \A s \in S : hook[s] = "ok"

\* The hook of a service can be called.
Callable(s) ==
  /\ s \in Group /\ hook[s] = "todo"
  /\ s \notin First => Ok(First)
  /\ s \in Last => Ok(Group \ Last)

\* Mutant: the hooks that still run are not waited for.
FailedAtOnce == \E s \in Group : hook[s] = "err"

\* RunConcurrent returns an error: nothing runs any more, and all of the
\* concurrent hooks have been called unless the first failed.
Failed ==
  /\ \E s \in Group : hook[s] = "err"
  /\ \A s \in Group : hook[s] # "running"
  /\ Ok(First) => \A s \in Group \ Last : hook[s] # "todo"

SetHook(s, to) == hook' = [hook EXCEPT ![s] = to]

(* The end of an attempt.                                                   *)

\* The joiner's hooks that have not joined when the command gives up; what it
\* has sent there goes on.
InFlight ==
  IF pc = "request" /\ ~Failed
  THEN {<<s, peer>> : s \in {x \in cfg[peer] : hook[x] = "todo"}} ELSE {}

\* The command ends, and with it all that only it knows.
End(how) ==
  /\ pc' = how
  /\ known' = [s \in Services |-> {}]
  /\ size' = [s \in Services |-> 0]
  /\ cfg' = [n \in Systems |-> {}]
  /\ reverts' = {}
  /\ loop' = "cloud" /\ todo' = {} /\ peer' = Local
  /\ hook' = Idle /\ err' = "ok" /\ clustered' = {}
  /\ late' = InFlight
  /\ UNCHANGED <<attempts, meddled>>

\* The command fails: the reverter deletes the tokens it knows, and logs those
\* it cannot delete.
Abort ==
  /\ End("failed")
  /\ \E kept \in SUBSET reverts :
       /\ tokens' = tokens \ (reverts \ kept)
       /\ stray' = stray \cup kept
  /\ UNCHANGED <<members, disks, adds>>

\* A call of the command outside RunConcurrent fails: IssueToken for
\* MicroCloud, the join request (or its five minutes), ClusterMembers, AddDisk.
CallFails == pc \in {"cloud", "request", "poll", "disks"} /\ Abort

\* RunConcurrent returns an error: to the command, or to the joiner, which
\* passes it on.
HooksFail == pc \in {"bootstrap", "issue", "request"} /\ Failed /\ Abort

\* The command is killed, and with it the tokens it has just been issued are
\* forgotten.
Kill ==
  /\ pc \in Steps
  /\ End("killed")
  /\ stray' = stray \cup tokens
  /\ UNCHANGED <<members, tokens, disks, adds>>

-----------------------------------------------------------------------------
(* setupCluster, up to addPeers.                                            *)

\* A service that some system has needs no bootstrap.
SkipBootstrap(s) ==
  /\ pc = "bootstrap" /\ Callable(s) /\ known[s] # {}
  /\ SetHook(s, "ok")
  /\ UNCHANGED <<services, plan, pc, loop, todo, peer, err, clustered, run>>

\* Bootstrap of the local service; it may fail before or after the cluster
\* exists.
Bootstrap(s) ==
  /\ pc = "bootstrap" /\ Callable(s) /\ known[s] = {}
  /\ \E exists, ok \in BOOLEAN :
       /\ ok => exists
       /\ members' = [members EXCEPT ![s] = IF exists THEN {Local} ELSE @]
       /\ known' = [known EXCEPT ![s] = IF ok THEN {Local} ELSE @]
       /\ SetHook(s, IF ok THEN "ok" ELSE "err")
  /\ UNCHANGED <<tokens, stray, disks, adds, size, cfg, reverts, pc, loop, todo,
                 peer, err, clustered, run>>

\* Mutant: the size of a reused cluster is not taken over.
SizesFresh == [s \in Services |-> 1]

\* addPeers: the size each cluster had when the systems were asked.
Sizes == [s \in Services |-> Cardinality(known[s])]

\* The peers that are not in MicroCloud join it first.
AddPeers ==
  /\ pc = "bootstrap" /\ Ok(Services)
  /\ size' = Sizes
  /\ todo' = Systems \ (known["MicroCloud"] \cup {Local})
  /\ pc' = "cloud" /\ hook' = Idle
  /\ UNCHANGED <<services, known, cfg, reverts, loop, peer, err, clustered,
                 run>>

-----------------------------------------------------------------------------
(* addPeers.                                                                *)

\* waitForJoin sends a request to join with the tokens of S.
Request(n, S) ==
  /\ pc' = "request" /\ peer' = n
  /\ cfg' = [cfg EXCEPT ![n] = S]
  /\ todo' = todo \ {n}
  /\ UNCHANGED <<hook, err>>

\* A peer gets a MicroCloud token, which no reverter knows, and a request.
JoinCloud(n) ==
  /\ pc = "cloud" /\ n \in todo
  /\ tokens' = tokens \cup {<<"MicroCloud", n>>}
  /\ loop' = "cloud"
  /\ Request(n, {"MicroCloud"})
  /\ UNCHANGED <<members, stray, disks, adds, known, size, reverts, clustered,
                 run>>

\* All are in MicroCloud: the tokens of the other services are next.
IssueTokens ==
  /\ pc = "cloud" /\ todo = {}
  /\ pc' = "issue" /\ todo' = Systems /\ peer' \in Systems
  /\ UNCHANGED <<services, plan, loop, hook, err, clustered, run>>

\* Only a system that was not in the cluster needs a token.
NeedsToken(s, n) == s # "MicroCloud" /\ n \notin known[s]

\* No token for this service.
SkipToken(s) ==
  /\ pc = "issue" /\ Callable(s) /\ ~NeedsToken(s, peer)
  /\ SetHook(s, "ok")
  /\ UNCHANGED <<services, plan, pc, loop, todo, peer, err, clustered, run>>

\* IssueToken, or RemoteIssueToken on a member of the reused cluster.
IssueToken(s) ==
  /\ pc = "issue" /\ Callable(s) /\ NeedsToken(s, peer)
  /\ tokens' = tokens \cup {<<s, peer>>}
  /\ SetHook(s, "running")
  /\ UNCHANGED <<members, stray, disks, adds, plan, pc, loop, todo, peer, err,
                 clustered, run>>

\* It fails; if only the answer is lost, the token exists.
IssueTokenFails(s) ==
  /\ pc = "issue" /\ Callable(s) /\ NeedsToken(s, peer)
  /\ \E lost \in SUBSET {<<s, peer>>} :
       tokens' = tokens \cup lost /\ stray' = stray \cup lost
  /\ SetHook(s, "err")
  /\ UNCHANGED <<members, disks, adds, plan, pc, loop, todo, peer, err,
                 clustered, run>>

\* Under the mutex the token goes to the reverter and to the peer's request.
RecordToken(s) ==
  /\ pc = "issue" /\ hook[s] = "running"
  /\ reverts' = reverts \cup {<<s, peer>>}
  /\ cfg' = [cfg EXCEPT ![peer] = @ \cup {s}]
  /\ SetHook(s, "ok")
  /\ UNCHANGED <<services, known, size, pc, loop, todo, peer, err, clustered,
                 run>>

\* RunConcurrent returns without an error; on to the next system.
NextPeer ==
  /\ pc = "issue" /\ Ok(Services)
  /\ todo' = todo \ {peer}
  /\ hook' = Idle
  /\ \/ peer' \in todo' /\ UNCHANGED pc
     \/ todo' = {} /\ pc' = "local" /\ UNCHANGED peer
  /\ UNCHANGED <<services, plan, loop, err, clustered, run>>

\* The local system joins the clusters it needs before the peers do.
JoinLocal ==
  /\ pc = "local"
  /\ IF cfg[Local] = {}
     THEN /\ pc' = "peers" /\ todo' = {n \in Systems \ {Local} : cfg[n] # {}}
          /\ UNCHANGED <<loop, peer, cfg, hook, err>>
     ELSE loop' = "local" /\ Request(Local, cfg[Local])
  /\ UNCHANGED <<services, known, size, reverts, clustered, run>>

JoinPeer(n) ==
  /\ pc = "peers" /\ n \in todo
  /\ loop' = "peers"
  /\ Request(n, cfg[n])
  /\ UNCHANGED <<services, known, size, reverts, clustered, run>>

\* Mutant: systems that are not part of MicroCloud are not left out.
DiskHostsAll == known["MicroCeph"]

\* Mutant: everyone in MicroCeph by now is asked for a disk.
DiskHostsNow == members["MicroCeph"] \cap Systems

\* The systems that MicroCeph had before addPeers.
DiskHosts == known["MicroCeph"] \cap Systems

\* addPeers returns; its reverter stays, as a hook of setupCluster's.
PeersJoined ==
  /\ pc = "peers" /\ todo = {}
  /\ pc' = "disks"
  /\ todo' = IF "MicroCeph" \in Services THEN DiskHosts ELSE {}
  /\ UNCHANGED <<services, plan, loop, peer, hook, err, clustered, run>>

-----------------------------------------------------------------------------
(* servicesPut, on the system that joins.                                   *)

\* Join: the cluster takes the system and its token, or not; a later part of
\* Join may fail.  MicroCeph adds its disk.  The result goes to the shared err.
Join(s) ==
  /\ pc = "request" /\ Callable(s)
  /\ \E joined, ok \in BOOLEAN :
       /\ ok => joined
       /\ joined => <<s, peer>> \in tokens /\ peer \notin members[s]
       /\ members' = [members EXCEPT ![s] = IF joined THEN @ \cup {peer} ELSE @]
       /\ tokens' = IF joined THEN tokens \ {<<s, peer>>} ELSE tokens
       /\ adds' = [adds EXCEPT ![peer] =
                     IF s = "MicroCeph" /\ joined /\ peer \in disks THEN @ + 1 ELSE @]
       /\ err' = IF ok THEN "ok" ELSE "err"
  /\ SetHook(s, "running")
  /\ UNCHANGED <<stray, disks, plan, pc, loop, todo, peer, clustered, run>>

\* The hook returns what the shared err is by now.
JoinReturns(s) ==
  /\ pc = "request" /\ s \in Group /\ hook[s] = "running"
  /\ SetHook(s, err)
  /\ UNCHANGED <<services, plan, pc, loop, todo, peer, err, clustered, run>>

-----------------------------------------------------------------------------
(* waitForJoin, once the request was answered.                              *)

\* The request succeeded; now the peer must appear in every service.
Joined ==
  /\ pc = "request" /\ Ok(Group)
  /\ pc' = "poll" /\ clustered' = Group
  /\ hook' = Idle /\ err' = "ok"
  /\ UNCHANGED <<services, plan, loop, todo, peer, run>>

\* Mutant: any size will do.
AppearedAtOnce(s) == Cardinality(members[s]) >= size[s]

\* The cluster has grown by one.
Appeared(s) == Cardinality(members[s]) = size[s] + 1

\* One look at the members of a service, from the local system.
Poll(s) ==
  /\ pc = "poll" /\ s \in clustered
  /\ Local \in members[s] /\ Appeared(s)
  /\ clustered' = clustered \ {s}
  /\ size' = [size EXCEPT ![s] = @ + 1]
  /\ UNCHANGED <<services, known, cfg, reverts, pc, loop, todo, peer, hook, err,
                 run>>

\* waitForJoin returns to its loop; a system's tokens are not sent again.
Clustered ==
  /\ pc = "poll" /\ clustered = {}
  /\ pc' = loop /\ peer' = Local
  /\ cfg' = [cfg EXCEPT ![peer] = {}]
  /\ UNCHANGED <<services, known, size, reverts, loop, todo, hook, err,
                 clustered, run>>

\* Mutant: no time limit.
TimesOutNever == FALSE

\* Thirty seconds are over, whatever the next look would find.
TimesOut == pc = "poll" /\ clustered # {} /\ Abort

-----------------------------------------------------------------------------
(* setupCluster, after addPeers.                                            *)

AddDisk(n) ==
  /\ pc = "disks" /\ n \in todo
  /\ adds' = [adds EXCEPT ![n] = IF n \in disks THEN @ + 1 ELSE @]
  /\ todo' = todo \ {n}
  /\ UNCHANGED <<members, tokens, stray, disks, plan, pc, loop, peer, hook, err,
                 clustered, run>>

Success ==
  /\ pc = "disks" /\ todo = {}
  /\ End("done")
  /\ UNCHANGED services

\* The command is run again: `init` if MicroCloud was not bootstrapped, else
\* `add`, which needs a new system.  Neither takes a new system that is in LXD.
\* Disks in use are not offered again.  What the last run left in flight has
\* ended, one way or the other, before the systems are asked for their state.
Retry ==
  /\ pc \in {"failed", "killed"} /\ attempts < MaxAttempts
  /\ LET new == IF Local \in members["MicroCloud"]
                THEN Systems \ members["MicroCloud"] ELSE Systems
     IN new # {} /\ new \cap members["LXD"] = {}
  /\ attempts' = attempts + 1 /\ late' = {} /\ meddled' = {}
  /\ known' = members
  /\ disks' = {n \in disks : adds[n] = 0}
  /\ adds' = [n \in Systems |-> 0]
  /\ pc' = "bootstrap"
  /\ UNCHANGED <<members, tokens, stray, size, cfg, reverts, loop, todo, peer,
                 hook, err, clustered>>

\* A join that outlives its command: it still needs its token.
LateJoin(s, n) ==
  /\ pc \in {"failed", "killed"}
  /\ <<s, n>> \in late /\ <<s, n>> \in tokens
  /\ members[s] # {} /\ n \notin members[s]
  /\ members' = [members EXCEPT ![s] = @ \cup {n}]
  /\ tokens' = tokens \ {<<s, n>>}
  /\ adds' = [adds EXCEPT ![n] = IF s = "MicroCeph" /\ n \in disks THEN @ + 1 ELSE @]
  /\ UNCHANGED <<stray, disks, plan, pc, loop, todo, peer, hook, err, clustered, run>>

\* Somebody else lets a system join a service that has a cluster, such as with
\* `microceph cluster join`.
OutsiderJoins(o, s) ==
  /\ s \in Reusable /\ members[s] # {} /\ o \notin members[s]
  /\ members' = [members EXCEPT ![s] = @ \cup {o}]
  /\ meddled' = IF pc \in Steps THEN meddled \cup {s} ELSE meddled
  /\ UNCHANGED <<tokens, stray, disks, adds, plan, pc, loop, todo, peer, hook,
                 err, clustered, attempts, late>>

\* Nothing is left to do.
Ended == pc \in Ends /\ UNCHANGED vars

\* What the command and the joiner do by themselves; any call may fail, too.
Progress ==
  \/ HooksFail \/ AddPeers \/ IssueTokens \/ NextPeer \/ JoinLocal
  \/ PeersJoined \/ Joined \/ Clustered \/ TimesOut \/ Success
  \/ \E s \in Services :
       \/ SkipBootstrap(s) \/ Bootstrap(s) \/ SkipToken(s) \/ IssueToken(s)
       \/ RecordToken(s) \/ Join(s) \/ JoinReturns(s)
       \/ Poll(s)
  \/ \E n \in Systems : JoinCloud(n) \/ JoinPeer(n) \/ AddDisk(n)

Next ==
  \/ Progress \/ CallFails \/ Kill \/ Retry \/ Ended
  \/ \E s \in Services :
       IssueTokenFails(s) \/ \E n \in Systems : LateJoin(s, n)
  \/ \E o \in Outsiders, s \in Services : OutsiderJoins(o, s)

Spec == Init /\ [][Next]_vars /\ WF_vars(Progress)

-----------------------------------------------------------------------------
(* Properties.                                                              *)

\* The tokens nothing deletes.
Leftover == stray \cup ({"MicroCloud"} \X Systems)

\* When the command succeeds, every system is in every service, also in those
\* it reused and in those an earlier attempt left half formed, and although a
\* joiner may answer "ok" for a service that failed: its hooks share one err.
\* The tokens have then been used up.  Only the services that somebody else
\* changed during this run are another matter.
SuccessMeansClustered ==
  pc = "done" => /\ \A s \in Services \ meddled : Systems \subseteq members[s]
                 /\ tokens \subseteq Leftover \cup (meddled \X Systems)

\* No join token survives a failed command unless deleting it failed (which is
\* logged) or its answer was lost.  MicroCloud's own tokens, which addPeers
\* never hands to its reverter, are the exception.
TokensRevoked ==
  pc \in {"failed", "killed"} => tokens \subseteq Leftover

\* MicroCeph is asked for each selected disk once: by the joiner, which may
\* outlive the command, or by the command if the system was in MicroCeph before.
\* On success none was forgotten.
DisksOnce ==
  /\ \A n \in Systems : adds[n] <= 1
  /\ pc = "done" /\ "MicroCeph" \notin meddled => \A n \in disks : adds[n] = 1

\* waitForJoin looks for the peer by counting: whatever failed before, a service
\* nobody else changed has the expected size exactly if the peer is in it, and
\* the local system, which is asked for the members, is then in it too.
PollSeesPeer ==
  pc = "poll" =>
    \A s \in clustered \ meddled :
      /\ Appeared(s) <=> peer \in members[s]
      /\ peer \in members[s] => Local \in members[s]

\* waitForJoin "waits until the cluster appears in the database": the expected
\* size means that the peer is there, and is reached when it is.
CountMeansPeer ==
  pc = "poll" => \A s \in clustered : Appeared(s) <=> peer \in members[s]

\* Every run of the command ends: no order of joins waits for a cluster that
\* only a later join would form.
CommandEnds == [](pc \in Steps => <>(pc \in Ends))
=============================================================================
