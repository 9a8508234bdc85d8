# MicroCloud in TLA+

A TLA+ development kept beside MicroCloud's code. It models how a MicroCloud
daemon establishes trust with new systems, how the command line plans what to
set up and forms clusters with them, how a system is removed again, and how a
daemon keeps the cluster manager's configuration, its heartbeat and its tunnel.
TLC checks the models on small instances; TLAPS proves the safety properties of
the passing runs for any number of systems, requests and so on. Several of them
name an exception, as the code does not rule it out: a session that was replaced
while its handler ran, a removal beside another one, a cluster that somebody else
changes meanwhile. What goes wrong then is under Known counterexamples.

## The system

MicroCloud sets up and grows clusters of LXD, MicroCeph and MicroOVN. On every
system runs a daemon, `microcloudd`; the CLI `microcloud` talks to the local
daemon and, through it or directly, to the others.

| Component | State | Operations | Hard parts |
|---|---|---|---|
| Session (`service/session.go`, `service/service_handler.go`, `api/session*.go`, `api/services_auth.go`) | the handler's one session pointer, passphrase, temporary trust store, fingerprints seen, failed attempts, two Go channels, two locks | open a session over a websocket (initiator or joiner), join intent, stop, PostJoin hook | goroutines of four kinds; pointers captured in one transaction and used in another; closed channels; timeouts |
| Websocket gateway (`client/websocket.go`) | connection, context, message queue | read loop, Write, WriteClose | hang-up races with every step of a session |
| Cluster formation (`cmd/microcloud/main_init.go`, `add.go`, `api/services.go`, `services_tokens.go`) | what the CLI knows of the systems, join tokens, reverter; the clusters themselves | bootstrap, join MicroCloud, issue tokens, join the services, add disks, configure LXD | every call can fail half way; concurrent hooks; sizes read earlier; runs that are repeated |
| Member removal (`api/services_cluster.go`) | members of each service, monmap, pool sizes | `DELETE /services/cluster/{name}` | ordered hooks; failures, crashes, repeated and overlapping requests |
| RunConcurrent (`service/service_handler.go`) | hooks running | first, concurrent, last | errors while other hooks run |
| Reverse tunnel (`cmd/microcloudd/cluster_manager_tunnel.go`) | `WsConn`, `Mu`, `Wg` | reconcile tick, dial, read and answer, close, shutdown | a goroutine per dial, self-waiting, drops, shutdown |
| Cluster manager records (`database/`, `api/cluster_manager.go`, `cluster_manager_task.go`) | one row and its settings | join, change, delete, status task on the leader | read and write in separate transactions |
| Client side of trust (`cmd/microcloud/session.go`, `join.go`, `ask.go`) | intents by name, what the user selected, the systems registered | table of intents, confirm, reply; wait for confirmation | a reading goroutine that outlives the selection, late intents, timeouts on both sides |
| Multicast discovery (`multicast/`) | responder and lookup sockets | respond, lookup, stop | lost datagrams, cancellation |
| System information and versions (`service/system_information.go`, `version.go`) | none (computed) | conflicts between clusters, what a system supports | combinations of pools, networks and clusters that exist |
| Questions (`ask.go`) and commands (`main_init.go`, `add.go`, `services.go`) | services, available disks, the plan per system | ask for clusters, disks, Ceph's networks, OVN or a fan network, validate | answers of one question limit the next; systems that have part of it already |
| Preseed (`preseed.go`) | the file | validate, parse, match disk filters | filters with bounds, systems named and not |
| Tables (`cmd/tui`) | rows, cursor, filter, selection | keys, inserted rows | indexes of shown and of all rows, rows arriving from a goroutine |
| Service clients, API proxies, other commands | none | request building and printing | - |

The components interact through HTTP requests between daemons, a websocket
between CLI and daemon, the handler's session pointer (shared by all handlers of
a daemon), microcluster's hooks, and the clusters of the four services, which
outlive every process.

What makes each correct, in a line: a session trusts only what its own client
has agreed to, shows it only what was signed for it, always ends, and answers every
request; a formed cluster has every system in every service, and a failed
command leaves no usable token behind; a plan uses every disk once, asks LXD only
for what it can do, is built when the command succeeds, and what was there before
stays when it fails; who is trusted is who was selected, on both sides; a deleted
cluster manager stays deleted and a configured one gets its heartbeats; a removal that reports success has removed the
system from everything, and one that fails can be repeated; the tunnel is open
exactly when the cluster wants it, its connection is never leaked, and it does
not keep the daemon from stopping.

## Modules

| Module | Models | Proofs | Runs |
|---|---|---|---|
| `Session` | the sessions of one daemon | `SessionProofs` | SessionSafety, SessionLive, SessionTransaction |
| `Tunnel` | the reconcile loop and its goroutines | `TunnelProofs` | TunnelAll, TunnelHang |
| `RunConcurrent` | abstract: what `Handler.RunConcurrent` promises | `RemovalProofs` | (through `Removal`) |
| `Removal` | `removeClusterMember` | `RemovalProofs` | RemovalAgain |
| `Formation` | `setupCluster` up to the disks, `addPeers`, `waitForJoin`, `servicesPut` | `FormationProofs` | FormationFaults |
| `Listing` | loops that pass some entries of a list on, in its order | `ListingProofs` | (through `Table`, `SystemInfo`) |
| `SystemInfo` | what is known of the systems, what they support, entries of LXD's configuration; extends `Listing` | `SetupProofs` | (through `Setup`) |
| `Plan` | init, add and service add up to the plan: checks and questions; extends `SystemInfo` | `SetupProofs` | (through `Setup`) |
| `Preseed` | the plan made from a file; extends `Plan` | `SetupProofs` | (through `Setup`) |
| `Setup` | the rest of `setupCluster` on a plan of either, and its reverter; extends `Preseed` | `SetupProofs` | SetupAll, SetupWipe |
| `Table` | the selectable table; extends `Listing` | `TrustProofs` | (through `Trust`) |
| `Trust` | initiator's CLI, joiners, discovery and the daemons in between; extends `Table` | `TrustProofs` | TrustAll |
| `Manager` | the cluster manager's records, the API and the status task | `ManagerProofs` | ManagerAll, ManagerLost |

The `MC` modules give names to model values and the functions, worlds and files
that the configurations need. `PROJECT.json` maps every definition to the lines
it models.

### Session

One daemon; the requests of a behaviour are given as sets. `Conns` are websocket
handlers of both roles and also name the `Session` object each of them creates;
`Joins`, `Stops` and `Hooks` are the requests of the other three endpoints. A
goroutine is a program counter `pc[t]` and the session pointer `ptr[t]` that it
captured. `sessionLock` is `rd`, `wr` and `want` (Go's RWMutex lets no new reader
in while a writer waits), `Session.lock` is `mu`. The two unbuffered channels
are only open or closed: a send and its receive are one step, `Stop` closes and
drains them, a send on a closed channel is the state `panicked`, and a send
that `Stop`'s drain received is `swallowed`.

`hmac[j]` is the session whose passphrase signed a join request, `Nil` for a
wrong one; a certificate is a fingerprint; the messages on the websocket are
steps. A client confirms whatever certificates it likes, shown before or not, or
sends what cannot be parsed. `on[c]` is the session whose channel a handler waits
on: it is looked up in the Handler each time, so that a handler whose session was
replaced goes on with the other one's.

Nothing in the code keeps two clients apart that both connect before either has
started its session, and nothing in the model does. Three history variables name
what follows from it: `replaced` are the sessions that were replaced while their
handler ran, `agreed` what each client has confirmed or, on a joiner, was shown,
and `late` the join requests that were between their check and their delivery when
a session started.

### Tunnel

The reconcile loop is one thread, each `openTunnel` goroutine another; `Mu` is
only held across steps by the goroutine that dials. A connection is named by the
goroutine that dialled it, `open` are those neither end has closed. Failures
have a kind (`tick`, `connect`, `lxd`, `drop`, `slow`), and each kind happens at
most `MaxFaults` times, so that liveness properties can say what remains true
after failures instead of excluding them.

### RunConcurrent and Removal

`RunConcurrent` is the contract of the ordered, partly concurrent hook: the
first service alone, then all others but one at once, then the last one; an
error ends it, but only after the hooks that are running. `Removal` is the
handler that uses it with LXD first and MicroCloud last, and is shown to
implement it by a refinement mapping for each request
(`ImplementsRunConcurrent`). MicroCeph is modelled as far as the handler uses
it: disks, each on a system (`Location`), of which those of members count
(`DiskTotal`), pools with a replication factor, a monmap that is cleaned only in
clusters of three or more. `name[r]` is the system a
request removes, one of the inputs `Targets`. `Present[r]` are the services whose state directory the
daemon that serves a request has; the others it leaves out. The members and the
monitors of MicroCeph are two queries, the second made only in a cluster of two
(`Begin`, `CheckMonmap`). Requests for different systems run at once; the history
variable `crossed` says that MicroCeph's hook has run for two of them together.

### Formation

The command is a program counter through `setupCluster` and `addPeers`; the hooks
of `RunConcurrent` (bootstrap, issue tokens, and the joiner's `Join`) are in
`hook`. `known` is the membership it read at the beginning, `size` the count that
`waitForJoin` increments, `reverts` what the reverter will delete. The joiner's
hooks write and then read one shared `err`, as `servicesPut` does: the model
has every interleaving of the two. What only the command knows is reset when it
ends. A join that the command has asked for outlives it (`late`, `LateJoin`) as long
as its token is there; it is taken to have ended before the next attempt asks the
systems for their state. Outsiders join a reused cluster at any time; `meddled` is the
history of the services they changed during the present run. `waitForJoin` times out
by its clock alone. `Retry` runs it again (`init`, or `add` once MicroCloud exists) on whatever
the previous attempt left, under the conditions the commands check. Disks are only
selected where MicroCeph is among the services (`FormationAssumption`): the
question for them is skipped without it (`ask.go:638-640`).

### SystemInfo, Plan, Preseed and Setup

A *world* is what a command finds: which command it is, the systems that are
members or about to join, the services installed, who is in which cluster, disks,
interfaces with the subnets they have addresses in, the pools and networks of
LXD, and whether there is a default route. The command runs on one of the systems,
on a member if there is a MicroCloud, and a system with OSDs is in a MicroCeph
cluster (`WorldsAssumption`). The operators of `SystemInfo` are
the queries of `SystemInformation` and `LXDService` on a world; an entry of a
plan is a record of name, source and wipe.

`Plan` has one action per question or check, in the order of the command
(`phase`). A question is an existential choice; `askRetry` repeats one until it is
accepted and leaves nothing of the refused rounds, so an action stands for the
last round. `avail` is `c.state[...].AvailableDisks`, which the questions for local
and remote storage share; `plan` is `c.systems`. `Preseed` is the one action
`RunPreseed` over a file: what is valid, the uplinks, the underlay, the disks
named or matched by filters (the set of disks they are true of), the networks of
Ceph. Go's unordered maps appear where they matter: which system comes last
decides whether a second filter adds a second disk (`LocalUsed`). Where a loop passes
some entries of a list on, their order is that of the list (`Listing`): the local
disks that a file gives a system, and the pools that are created, for which
`FinalNames` takes "remote-fs" last.

`Setup` then has `setupCluster`: the disks that the command adds, replication,
pending pools and networks per member, their creation, the profile, the
volumes. Each call may fail, and LXD refuses what is there already, what is not
pending on every member, and to delete what is in use; these rules are marked
external. How systems come into the clusters is `Formation`'s, here it is
the step `Form`; the two meet at the disks of MicroCeph, `inCeph` of `Setup` being
`DiskHosts` of `Formation`. Members of a MicroCeph that was there may disagree about
who is in it; the code asks one of them, whichever Go's map yields first (`CephViews`).
The reverter ignores every failure of a deletion; `undeleted` is the history of what
it could have deleted and did not.

### Table and Trust

`Table` is the state of `selectableTable`: rows are only ever appended (no code
sends the messages that remove or disable one), the selection is a set of
indexes of all rows, the cursor an index of the rows that the filter shows;
`picked` records, apart from the code, which rows were under the cursor. `Matching`
are the rows the filter lets through, and `Shown`, their `Listing`, is the code's
`filterMap`.

`Trust` composes it with the goroutine that feeds it (`reader`), the websocket as a
queue (`inbox`), the initiator's daemon as three phases, and the joiners. Datagrams
are sets: they may be lost, doubled, or come after the session has ended. A
request between daemons is one step; what its goroutines can do is `Session`'s.
Data races are choices: the map of intents written while it is read may crash the
command (`MapRace`), and so may the reading goroutine when it takes the reply
for an intent. The initiator's requests to joiners do not hang on the session's
context: they go on when the session has timed out (`Confirm`), and only the answer
to the client is then lost. `askRetry` does not ask when the context ended the table
(`TableKilled`); it does when the table could not start (`TableFails`).

### Manager

Requests and status tasks are processes with a program counter and the row they
have loaded; a database transaction is one step. The tables have their unique and
foreign keys and AUTOINCREMENT ids, by which updates and deletes go; the columns
of the last status are left out, as no step depends on them. A value of the
interval is a number, not set, or not a number.

## Runs

Every configuration is checked for deadlock; each module has an explicit idle
step for behaviours in which all requests of the instance have been served.

| Run | Question | Instance |
|---|---|---|
| SessionSafety | Is what clients are shown and what gets trusted right? | two handlers of either role, at once or in sequence, a join request, a hook, no wrong passphrase allowed, a socket that may not close |
| SessionLive | Does every session end, is every request answered, does the limit on guesses hold, is a certificate shown once, is what a joiner is told true? | one session, two join requests with one certificate, a stop, a hook, no wrong passphrase allowed; fair |
| TunnelAll | Is a connection ever leaked, and does the loop reach the wanted state? | two goroutines, one failure of each of five kinds; fair |
| RemovalAgain | Do removals repeated, overlapping or after a crash do what they say? | three systems, two requests for one of them or for two, one served by a daemon without LXD, from any MicroCeph cluster |
| FormationFaults | What holds after success, after failure and after a second attempt, and does counting find the peer? | three systems, an outsider that joins at any time, four services, any reused MicroCeph cluster, two attempts |
| SetupAll | Do the plans of all commands fit the systems, does LXD accept them, is success success, and what does a failure leave? | two systems, two disks, two interfaces, two subnets; families of worlds and files |
| TrustAll | Are those confirmed the ones selected, is trust mutual, does a lookup survive losses? | two joiners of different versions, one in the preseed file; a table showing one row, two filters; both modes; fair |
| ManagerAll | Does a deleted cluster manager stay deleted, do heartbeats go on? | two requests of any kind, one task, two members, two leader changes, one failing query; fair |

The other runs end in a counterexample; each states what the repository itself
says of the code:

| Run | Counterexample |
|---|---|
| SessionTransaction | A stop request runs in a read transaction next to a join request's: the join request sends on the closed channel and panics, or its intent is swallowed by the drain and it is told it succeeded. |
| TunnelHang | After a dropped connection the goroutine waits for itself in `Wg.Wait`; the loop joins it there and shutdown never completes. |
| SetupWipe | The user selects no disk to be wiped, and the disk for the pool "local" is planned with `source.wipe`: `toWipe` is overwritten by the selected disks. |
| ManagerLost | The task loads the row to record its outcome, a request changes the addresses and is answered with success, the task stores the row it has loaded. |

### What the properties say

- `TrustedWasAgreed`: a session's trust store has what its own client agreed to, and
  nothing of sessions before or after it, also when a Stop failed half way. Clients of
  replaced sessions are the exception: what they confirm goes to the session that
  replaced theirs, since `Allow` is called on the Handler's session.
- `ShownIsSigned`: a client is shown intents signed with its own session's passphrase.
  The check and the delivery are two transactions 100 ms apart; requests between the
  two when a session started (`late`) are the exception, and the only one.
- `ForwardedOnce`, `SuccessMeansJoined`: a certificate is shown once and a stop does not
  read as a join, unless sessions were replaced.
- `GuessBound`: the limit on wrong passphrases, while the session's websocket is open.
- `RemovedEverywhere`, `MicroCloudKnows`: of the services that the serving daemons have.
- `PoolsFit`: pools are shrunk before their disks go, as long as MicroCeph's hook has
  not run for two systems at once.
- `SuccessMeansClustered`, `DisksOnce`: after success, of the services that nobody else
  changed during the run; that no disk is added twice holds in any case.
- `PollSeesPeer`: counting members finds the peer, and the local system can be asked,
  in any service that nobody else changed during the run.

- `DiskOneUse`: with any answers a disk is a source of "local" or a disk of MicroCeph,
  not both, and never one that is an OSD already; a system has one local disk.
- `PoolsEverywhere`: a pool is created cluster-wide exactly if every system defines
  its part. It holds of preseed files, too: filters that leave out a system are refused.
- `LXDAccepts`: nothing that the questions planned exists already, is defined twice
  or lacks its uplink.
- `RevertLeaves`: what LXD had before stays; a run that fails before the profile is
  written leaves none of its own pools and networks but UPLINK, which the reverter
  tries to delete before the network that uses it, and what LXD fails to delete
  without a reason (`undeleted`).
- `SuccessMeansBuilt`: pools, networks, volumes and the configuration naming them,
  disks and replication are as planned when the command reports success.
- `ConfirmedAsSelected`: who is sent a confirmation has the name of a row that was
  under the cursor when it was selected, whatever was typed or inserted.
- `TrustMutual`: registered systems have been told, told systems were confirmed.
- `LookupFinds`: lost datagrams alone do not keep a joiner searching.
- `DeletedStays`: no request or task that had loaded a cluster manager brings it back
  after a deletion that was answered OK.
- `HeartbeatsGoOn`: while a cluster manager is configured with an interval that
  parses, the leader's task comes to sending again and again, and every ticker
  takes over a positive interval.

### Known counterexamples

These were found with the same modules; the property named fails when the cfg of the
run named checks it, with the change given if there is one.

- `ActiveSessionKept` (SessionSafety): two clients connect before either has sent its
  first message; both pass the check for an active session (`api/session.go:56`), and the
  second session replaces the first while it is active.
- `PostJoinReturns` (SessionSafety): the session ends while its system joins, and
  PostJoin sends on a closed channel (`cmd/microcloudd/main.go:183`).
- `Reconciled` (TunnelAll): LXD does not answer after the dial, `WsConn` stays set with
  nobody reading, and the loop takes the tunnel for connected
  (`cluster_manager_tunnel.go:184`).
- `MonmapClean` (RemovalAgain): requests for two different systems run at once, each saw
  three members (`api/services_cluster.go:71`), and the second deletion, in a cluster of
  two, leaves its system in the monmap.
- `CountMeansPeer` (FormationFaults): an outsider joins the reused MicroCeph while the
  command runs; the size `waitForJoin` looks for (`main_init.go:412`) is reached without the
  peer, or missed with it, and the command times out although the peer is there.
- `PoolsFit` without `~crossed` (RemovalAgain): MicroCeph's hook runs for two systems at
  once, each counts the other's disks as remaining, and the pools end up larger than
  the number of disks (`api/services_cluster.go:122-139`).
- `TrustedWasAgreed` without `UNION {agreed[d] : d \in replaced}`, and
  `SuccessMeansJoined` without `replaced # {}` (SessionSafety): what that race leads
  to. The handler of the replaced session allows its certificates in, and stops, the
  other one's session.
- `ShownIsSigned` without `late` (SessionSafety): a request that one session has
  authenticated is delivered to the next (`api/session_join.go:49`).

What reading the code for the newer modules showed, and the modules contain
without a property that says so:

- The goroutine that renders intents may take the reply to the selection. In the
  interactive mode it then asks for the fingerprint of a certificate that is nil
  and the command crashes (`ask.go:1757-1762`); with preseed the reply is dropped and
  the command waits until the session ends. The other way round, a late intent is
  read as the reply and reported as a refusal (`session.go:120-126`).
- Of two systems with one host name the last one to send its intent is confirmed,
  whichever row was selected. Answering no to "Retry selecting systems?" goes on
  with no system. A row that arrives when the table has just quit is dropped.
- In a preseed file, filters for local storage are tried on disks that filters for
  Ceph took already, and two that match give a system two entries for "local".
- `getTargetCephNetworks` asserts the type of a service that preseed has removed or
  never had: it panics when MicroCeph is missing while systems are added, or when a
  listed system has a MicroCeph already (`ask.go:594-598`).
- A Stop that fails to close the multicast socket leaves a session that is active and
  has no handler: the daemon refuses every new one until it is restarted
  (`service/session.go:181`).
- Answering no to distributed storage, where a MicroCeph with OSDs exists, still sets
  up the pool "remote". If MicroCeph's public network is MicroCloud's and its
  internal one is not, the public one is set to the internal one.
- The range of the uplink is only validated by init and preseed; add and service add
  do not validate it. service add does not look for conflicting clusters.
- An unparsable `update_interval_seconds` is stored, and stops the heartbeats. If the
  transaction of a join fails, the cluster stays enrolled at the cluster manager. A
  setting can be stored for a cluster manager that has replaced the one meant.

### Bounds

Two join requests are the least in which one can be registered while another is
being sent (SessionLive), and two sessions the least in which a request can outlive the
session that authenticated it and one can replace another (SessionSafety); more of
either adds only requests that wait, or further sessions for which the theorems
speak. The limit of failed attempts (50 in the code) matters only at its last two
values, so it is 1 and 0. Two tunnel goroutines are those of two successive ticks. Three systems are
the least in which a MicroCeph cluster can pass from "large enough" to two nodes,
and in which an attempt can fail with one peer half joined, one joined and one
system left for `add`. Both middle services are present wherever hooks race.
Two systems are the least where one has what the other lacks: a disk, an
interface, a pool, a cluster; two disks the least that two questions can compete
for. The worlds of SetupAll are families, one per kind of question (storage on new
systems, on added ones and for an added service; Ceph's subnets; networks;
refusals; preseed), since the answers to one kind do not depend on the details of
another; every condition a query distinguishes occurs in one of them, members that
disagree about their MicroCeph included, which service add does not check. In
TrustAll two joiners are enough for an intent that comes while another is handled,
and one displayed row for the cursor to leave the window; with three the safety
properties hold as well, while liveness is out of reach. In ManagerAll two requests
are the least in which one deletes and one creates what a task has in its hand.
SessionSafety uses the symmetry of the requests of each kind and of the
fingerprints; no run with a liveness property uses symmetry.

### Fairness

Weak fairness is assumed for goroutines (the Go scheduler runs what can run), for
a session's timeout, for the joiner's five minutes, and for the progress of the
CLI, all of whose calls have deadlines. `Formation`'s fairness excludes the
failure of calls: the command has to end by itself, not because something breaks.
`Tunnel` has strong fairness for the shutdown case, as Go's `select` picks at
random among ready cases. In `Trust` the lookup's sender is weakly fair (it sleeps a
second and sends again), and answers and their receipt are strongly fair: of
datagrams sent again and again one arrives. Nothing else of it is fair, neither
users nor daemons. In `Manager` each task is weakly fair: its ticker fires and its
calls return or fail. New requests, failures, changes of leadership and
configuration, kills and outsiders are never fair.

## Proofs

| Theorems | Say |
|---|---|
| `SessionProofs!TypeOKHolds` | the lock state, the session fields and the attempt counter stay in range |
| `SessionProofs!GuessBoundHolds` | at most AllowedFailedJoinAttempts + 1 wrong passphrases per open session, for any number of requests |
| `SessionProofs!Ownership`, `TrustedHolds` | for any number of clients at once: a handler works on its own session unless that was replaced, and only what a session's client agreed to is trusted, but for the clients of replaced sessions |
| `SessionProofs!SignedHolds` | what a client is shown was signed for its own session, but for requests between check and delivery when a session started |
| `SessionProofs!ShownHolds`, `SuccessHolds` | each certificate is shown once to a client whose session was not replaced; as long as none was, a client told "joined" has joined |
| `TunnelProofs!TypeOKHolds`, `ConnTrackedHolds`, `ShutdownCleanHolds` | types; no connection is leaked or survives the loop, for any number of goroutines and failures |
| `TunnelProofs!NoOverlapHolds` | as long as nothing drops, hangs or is slow, goroutines of two ticks do not overlap |
| `RemovalProofs!TypeOKHolds`, `MicroCloudKnowsHolds`, `RemovedEverywhereHolds` | types; MicroCloud forgets last; success means removed everywhere (of the services the daemons have), for any systems and requests |
| `RemovalProofs!CephInductive`, `PoolsFitHolds` | until MicroCeph's hook has run for two systems at once: no pool wants more replicas than there are disks |
| `RemovalProofs!RunConcurrentImplemented` | every request's hooks implement `RunConcurrent` |
| `FormationProofs!TypeCorrect`, `TokensRevokedHolds` | types; no deletable token survives a failed command, also while outsiders join |
| `FormationProofs!PictureRight`, `SuccessMeansClusteredHolds`, `PollSeesPeerHolds`, `DisksOnceHolds` | of services that nobody else changed during the run: what the command believes of them is right, success means every system is in them, and the count is as expected exactly if the peer is in; no disk is added twice, and on success each was added |
| `SetupProofs!PlanInductive`, `DiskOneUseHolds`, `PoolsEverywhereHolds` | for any systems, disks, answers and preseed files: a disk has one use, and a pool is created exactly if every system defines its part |
| `SetupProofs!SetupInductive`, `TypeOKHolds`, `LXDAcceptsHolds`, `RevertLeavesHolds`, `SuccessMeansBuiltHolds` | types; LXD has no reason to refuse what was planned by questions; what was there stays after a failure at any step; success means the plan was built |
| `TrustProofs!BaseHolds`, `TypeOKHolds`, `TrustMutualHolds`, `ConfirmedAsSelectedHolds` | types, the cursor's included; registered systems were told and told ones confirmed; confirmed ones are those selected |
| `ManagerProofs!Inductive`, `TypeOKHolds`, `DeletedStaysHolds` | tables keep types and constraints; a deleted cluster manager stays deleted, for any requests and tasks |

The assumptions are those named in the modules (`SessionAssumption` and so on):
disjoint sets of requests, finite sets of systems and disks, positive bounds, and
what is said of worlds and of selected disks above. No theorem has another hypothesis:
where a property has an exception it is part of the property, in terms of what has
happened (`replaced`, `late`, `crossed`, `meddled`, `undeleted`), and for behaviours
with such a history nothing more is claimed. Without the exceptions the properties are
false (see Known counterexamples).

How the invariants are strengthened:

- *Session, types.* A goroutine in a transaction holds a pointer to a session
  (`PtrOK`); without it a step through a nil pointer would leave the types.
- *Session, ownership.* `OwnInv`: between StartSession and its StopSession a handler's
  session is the Handler's or was replaced (`Own`), the channel it waits on is then its
  own (`OwnChannel`), and what it is about to allow was agreed (`TodoAgreed`). That a
  new session replaces another is a step of the invariant, not excluded.
- *Session, joins.* `ExitInv`: unless sessions were replaced, a session's exit channel is
  closed only when its handler is at its end or its gateway is done (`ExitClosed`), and
  a hook that sends has set `joined` (`HookJoined`, `FinalJoined`).
- *Session, signatures.* `SignInv`: a request that was let through is signed for the
  session of then unless another has started since (`SignedDelay`), and inside its
  transaction for the one it points to (`SignedInside`).
- *Session, guesses.* `guesses` is tied to the session's counter of failures
  (`Counted`), and a session nobody has started has none (`Fresh`).
- *Session, what is shown.* `FwdInv`: a request inside its transaction holds the read
  lock (`ReadLocked`), one that is sending has its fingerprint registered
  (`Registered`), and two of them, or one and what was shown, have different ones
  (`Different`).
- *Tunnel.* The goroutine that dials holds the lock (`DialerLocks`), and a loop
  in its last case has the context cancelled (`LastCase`), which the dial checks
  under the lock.
- *Removal.* A hook that succeeded means the system is gone from that service
  (`DoneIsGone`), the last hook runs only after the others (`LastIsLast`), and the
  answer agrees with the hooks (`AnswerMeans`), which run for the services that are
  there (`OnlyPresent`). The refinement needs the same
  invariant: it is what makes a step of one request a stutter of the others.
- *Formation.* `TokensRevoked` only speaks of ended commands. `TokenInv` extends it
  to running ones: every token is in the reverter, or is issued and about to be
  recorded by a running hook (`Unrecorded`), or is stray. It is inductive because
  `RunConcurrent` does not return while a hook runs.

- *Formation, clusters.* `ClusterInv` says what the command may believe at each step:
  who is known is in (`KnownIn`), a system that is missing from a service has a token
  of it and its turn (`Issuing`, `Covered`), the peer is in the services that are
  no longer polled (`PolledIn`), and the size that `waitForJoin` compares counts all
  members but the peer that is waited for (`SizeRight`). What
  is said of sizes excepts the services in `meddled`, which are reused ones
  (`MeddledReused`); the local system's turn comes before the peers' (`LocalFirst`). A lemma on cardinalities
  (`MemberCount`) then gives what the code takes for granted: the count is one more
  exactly if the peer is in. `DiskInv` counts the disks on top of it.
- *Tunnel, overlap.* `Calm`: until something is disturbed there is one goroutine, and
  the loop waits while it ends; it says for every goroutine which of its steps goes
  with which connection.
- *Removal, MicroCeph.* `CephInv`: until `crossed`, the requests inside MicroCeph's hook
  are for one system (`OneSystem`), the disk count read earlier is still right when
  pools are resized (`CountRight`), and they then fit what will be left (`PoolsWillFit`).
- *Setup, plan.* `PlanInv`. `PoolsEverywhere` alone is not inductive, as later questions
  append to both sides: `PoolsSame` says that at every phase each system has the
  same list of pools as the cluster, in the same order, `NetworksSame` that of networks.
  `DisksTaken` relates the disks left to those taken by earlier answers, and
  `NothingForeign` what is planned to what LXD has. The view of MicroCeph that the
  command takes (`inCeph`) is fixed in the beginning.
- *Setup, building.* `SetupInv`: nothing is created before the reverter knows of it
  (`NothingYet`), each system defines its part once (`Defined`), and the phases that
  are over have made what they had to (`BuiltSoFar`).
- *Trust.* `BaseInv` has the types and `OneIntent`: an intent is on its way, in the
  reader's hand or in a row, and there is one for each system. `TrustInv`: whoever was
  confirmed will be asked or was told, and the acceptance is sent when all were told.
  `PickInv`: the indexes selected are the rows that were under the cursor, although the
  filter changes and rows are inserted.
- *Manager.* `IInv` says of every process what it holds at each program counter,
  with an id that was given out. Ids only grow (`IdsGrow`), so that the id of a
  deleted row is never that of a new one.

Induction over data is not available to the provers with an operator as a
parameter. `ListingProofs` replaces it where it is needed: a set of numbers that is not
empty has a least element (`Smallest`, from the well-foundedness of the naturals), and
the least size for which no listing exists is refuted (`CanBeListed`).

Only model-checked are the liveness properties, since fairness is out of the
prover's reach: `SessionEnds`, `RequestsAnswered`, `ReconciledUndisturbed`,
`ShutdownUndisturbed`, `CommandEnds`, `LookupFinds` and `HeartbeatsGoOn`. The
counterexamples of the violation runs are TLC's.

## Not modelled

- `status` (`cmd/microcloud/status.go`, `api/status.go`): it prints warnings from one
  snapshot and changes nothing. The remaining commands pass a request on or print.
- Addresses, passphrases and the UI access link among the questions; the drawing of
  tables; `service list`.
- The composition of `Formation` and `Setup` into one state space: each has the other's
  half as one step.
- What the services do internally, beyond the rules of LXD and MicroCeph that `Setup`
  and `Removal` name as external; TLS, HMAC and certificates as cryptography; metrics;
  request building, API proxies, most of the generated mapper, the word list.
- Versions of services that do not match, which end a request or a command.

## Plan

1. An abstract specification of trust establishment (an initiator adds exactly the
   systems it confirmed, and they trust it) that `Trust` implements, as `Removal`
   implements `RunConcurrent`.
2. The same for forming a cluster: `Formation` as an implementation of "the members of
   each service only grow, by systems that hold a token".
3. A property for MicroCloud's own join token, which is issued outside the reverter
   (`main_init.go:466`).
