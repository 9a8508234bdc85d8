-------------------------------- MODULE Plan --------------------------------
(* The interactive commands up to setupCluster: microcloud init, add and     *)
(* service add (cmd/microcloud/main_init.go, add.go, services.go) and the    *)
(* questions they ask (cmd/microcloud/ask.go). Their result is the plan: for *)
(* every system the InitSystem that setupCluster works off.                  *)
(*                                                                           *)
(* A question is a choice of the user. askRetry repeats a selection until it *)
(* is accepted or the user gives up; a selection that was refused leaves no  *)
(* trace, so an action stands for the last round.                            *)
EXTENDS SystemInfo

CONSTANTS Worlds      \* what the command may find

\* The command runs on one of the systems, and on a member of a MicroCloud that there
\* is; the OSDs of a system are those of its MicroCeph.
ASSUME WorldsAssumption ==
  /\ Worlds \subseteq World
  /\ \A w \in Worlds :
       /\ Local \in All(w) /\ (w.members # {} => Local \in w.members)
       /\ \A s \in All(w) : w.osds[s] # {} => w.clusters["MicroCeph"][s] # {}

VARIABLES
  phase,        \* the step that the command takes next
  world,        \* what it finds, fixed
  services,     \* sh.Services, optional ones
  avail,        \* c.state[s].AvailableDisks
  plan,         \* c.systems
  ovnRange,     \* whose address the IPv4 range of UPLINK includes
  wipeChosen    \* the disks that the user selected to be wiped

planVars == <<phase, world, services, avail, plan, ovnRange, wipeChosen>>

\* What an IPv4 range may include that it must not, or "nothing"; "outside" is
\* a range that is not in the gateway's subnet.
RangeHits == Systems \cup {"nothing", "gateway", "outside"}

Ask == world.cmd # "preseed"
Everyone == All(world)
NewSystems == IF world.cmd = "add" THEN world.joiners ELSE Everyone
ReachesAll(net) == \A s \in Everyone : ValidateCephInterfaces(world, net, s) # {}

\* service add offers the services that some member lacks.
ServicesToAdd == {svc \in Optional : \E s \in Everyone : ~ServiceClustered(world, svc, s)}
AskedFor(svc) == world.cmd # "service" \/ (svc \in ServicesToAdd /\ svc \in world.installed)

AfterNetwork == IF world.cmd = "init" THEN "validate" ELSE "planned"
AfterDisks == IF AskedFor("MicroOVN") THEN "network" ELSE AfterNetwork
AfterClustered == IF AskedFor("MicroCeph") THEN "local" ELSE AfterDisks

Go(p) == phase' = p /\ UNCHANGED <<world, services, avail, plan, ovnRange, wipeChosen>>

PlanInit ==
  /\ world \in Worlds
  /\ phase = "check"
  /\ services = world.installed
  /\ avail = [s \in Systems |-> AvailableDisks(world, s)]
  /\ plan = [s \in Everyone |-> NewInitSystem]
  /\ ovnRange = "nothing"
  /\ wipeChosen = {}

-----------------------------------------------------------------------------
(* Before the questions *)

\* checkInitialized: init wants nothing initialized, the others everything; only
\* preseed looks at the optional services.
StartAllowed ==
  LET expectInitialized == ~world.bootstrap \/ world.cmd = "service"
      checked == {"MicroCloud", "LXD"} \cup (IF Ask THEN {} ELSE world.installed)
  IN \A svc \in checked : IsInitialized(world, svc) = expectInitialized

\* The user may also abort when an optional service is not installed.
CheckInitialized ==
  /\ phase = "check"
  /\ \/ /\ StartAllowed
        /\ Go(IF Ask THEN "gather" ELSE "parse")
     \/ /\ ~StartAllowed \/ (Ask /\ world.installed # Optional)
        /\ Go("failed")

\* service add compares no clusters but LXD's.
GatherRefused ==
  IF world.cmd = "service"
  THEN \/ \E s \in Everyone : \/ ~ServiceClustered(world, "LXD", s)
                              \/ Cardinality(ExistingServices(world, "LXD", s))
                                  # Cardinality(ExistingServices(world, "LXD", Local))
       \/ ServicesToAdd = {}
  ELSE \/ \E s \in Everyone \ {Local} : ~MicroCloudReaches(world, s)
       \/ \E s \in NewSystems : ServiceClustered(world, "LXD", s)
       \/ ClustersConflict(world, NewSystems \cup {Local},
                           world.installed \cup (Services \ (Optional \cup {"LXD"})))

Gather == phase = "gather" /\ Go(IF GatherRefused THEN "failed" ELSE "clustered")

\* For every service that a new system is clustered in already: add that
\* cluster, or do without the service.
AskClustered ==
  /\ phase = "clustered"
  /\ phase' = AfterClustered
  /\ LET clustered == {svc \in services : /\ world.cmd # "service" \/ svc \in ServicesToAdd
                                          /\ \E s \in NewSystems : ServiceClustered(world, svc, s)}
         setupMany == world.cmd # "init" \/ Everyone # {Local}
     IN \E declined \in SUBSET (IF setupMany THEN clustered ELSE {}) :
          services' = services \ declined
  /\ UNCHANGED <<world, avail, plan, ovnRange, wipeChosen>>

-----------------------------------------------------------------------------
(* Disks *)

LackPool(p) == {s \in Everyone : ~HasPool(world, p, s)}
PoolThere(p) == \E s \in Everyone : HasPool(world, p, s)
PoolBlocked(p) == \E s \in Everyone : ~SupportsPool(world, p, s)

LocalPossible ==
  /\ ~PoolBlocked("local")
  /\ LackPool("local") # {}
  /\ \A s \in LackPool("local") : avail[s] # {}

\* sel[s] becomes the source of the pool "local" on s: joined if the pool is
\* there already, pending and then created if not. Wherever LXD can wipe,
\* toWipe is set to the selected disks.
LocalPool(sys, s, sel) ==
  LET wipeable == "source_wipe" \in world.ext
      disk == DefaultPendingZFSStoragePool(wipeable, sel[s])
  IN IF PoolThere("local")
     THEN [sys EXCEPT !.JoinConfig = Append(@, disk)]
     ELSE [sys EXCEPT !.TargetStoragePools = Append(@, disk),
                      !.StoragePools = IF s = Local THEN Append(@, "local") ELSE @]

\* Mutant: the disk stays available.
NotTaken(s, d) == avail[s]

\* A selected disk is deleted from the system's AvailableDisks.
Taken(s, d) == avail[s] \ {d}

AskLocalPool ==
  /\ phase = "local"
  /\ LET asked == LackPool("local")
     IN \/ Go("remote")
        \/ /\ LocalPossible
           /\ \E sel \in {f \in [asked -> Disks] : \A s \in asked : f[s] \in avail[s]},
                 wiped \in IF "source_wipe" \in world.ext THEN SUBSET asked ELSE {{}} :
                /\ plan' = [s \in Everyone |-> IF s \in asked THEN LocalPool(plan[s], s, sel) ELSE plan[s]]
                /\ avail' = [s \in Systems |-> IF s \in asked THEN Taken(s, sel[s]) ELSE avail[s]]
                /\ wipeChosen' = {<<s, sel[s]>> : s \in wiped}
           /\ phase' = "remote"
           /\ UNCHANGED <<world, services, ovnRange>>

\* askCephNetwork on a plan: the plan with the networks, or Nil when a system has
\* no interface in a subnet that was asked for or that MicroCeph has.
CephNetworkOf(kind) ==
  IF \E s \in Everyone : ServiceClustered(world, "MicroCeph", s) THEN world.cephNet[kind] ELSE Nil

AskCephNetwork(systems, internal, public) ==
  LET known == IF CephNetworkOf("internal") # Nil THEN CephNetworkOf("internal")
               ELSE CephNetworkOf("public")
      int == IF internal # CloudNet THEN internal ELSE Nil
      pub == IF public # CloudNet THEN public ELSE int
      wanted == {internal, public} \ {CloudNet}
  IN IF \E s \in Everyone : DedicatedInterfaces(world, s) = {} THEN systems
     ELSE IF known # Nil THEN IF known = CloudNet \/ ReachesAll(known) THEN systems ELSE Nil
     ELSE IF \E net \in wanted : ~ReachesAll(net) THEN Nil
     ELSE [s \in Everyone |-> [systems[s] EXCEPT !.MicroCephInternalNetwork = int,
                                                 !.MicroCephPublicNetwork = pub]]

\* The members of an existing MicroCeph that have OSDs, as one of them tells.
ExistingClusterDisks(asked) == {m \in ExistingServices(world, "MicroCeph", asked) : world.osds[m] # {}}
OSDHosts == UNION {ExistingClusterDisks(s) : s \in Everyone}

\* The pools "remote" and "remote-fs" are set up on all that lack them, whether
\* or not a system has disks for MicroCeph.
RemotePools(sys, s, disks, fs) ==
  LET joinFS == PoolThere("remote-fs")
      remote == IF PoolThere("remote") THEN <<>> ELSE <<"remote">>
      remoteFS == IF fs /\ ~joinFS THEN <<"remote-fs">> ELSE <<>>
      new == remote \o remoteFS
  IN [sys EXCEPT
       !.JoinConfig = IF joinFS /\ s \in LackPool("remote-fs")
                      THEN @ \o DefaultCephFSStoragePoolJoinConfig(world) ELSE @,
       !.TargetStoragePools = @ \o [i \in 1..Len(new) |-> DefaultPendingStoragePool(new[i])],
       !.StoragePools = IF s = Local THEN @ \o new ELSE @,
       !.MicroCephDisks = @ \cup disks]

RemoteSkipped == \/ "MicroCeph" \notin services
                 \/ PoolBlocked("remote") \/ PoolBlocked("remote-fs")
                 \/ (LackPool("remote") # {} /\ OSDHosts = {})
RemoteFails == \E s \in Everyone : HasPool(world, "remote-fs", s) /\ ~HasPool(world, "remote", s)

AskRemotePool ==
  /\ phase = "remote"
  /\ \/ RemoteSkipped /\ Go(AfterDisks)
     \/ /\ "MicroCeph" \in services /\ ~PoolBlocked("remote") /\ ~PoolBlocked("remote-fs")
        /\ IF RemoteFails THEN Go("failed")
           ELSE \E sel \in SUBSET UNION {{s} \X avail[s] : s \in LackPool("remote")} :
                \E wiped \in SUBSET sel, internal, public \in Subnets,
                   fs \in IF PoolThere("remote-fs") THEN {TRUE}
                          ELSE IF "cephfs_create_missing" \in world.ext THEN BOOLEAN ELSE {FALSE} :
                  LET disks(s) == {[disk |-> d, wipe |-> <<s, d>> \in wiped] : d \in {e \in Disks : <<s, e>> \in sel}}
                      systems == [s \in Everyone |-> RemotePools(plan[s], s, disks(s), fs)]
                      done == AskCephNetwork(systems, internal, public)
                  IN /\ sel # {} \/ OSDHosts # {} \/ LackPool("remote") = {}
                     /\ IF done = Nil THEN Go("failed")
                        ELSE /\ plan' = done
                             /\ wipeChosen' = wipeChosen \cup wiped
                             /\ phase' = AfterDisks
                             /\ UNCHANGED <<world, services, avail, ovnRange>>

-----------------------------------------------------------------------------
(* Networks *)

LackOVN == {s \in Everyone : ~HasOVN(world, s)}
OVNIneligible ==
  \/ \E s \in Everyone : ~SupportsOVNNetwork(world, s) \/ UplinkInterfaces(world, s) = {}
  \/ LackOVN = {}

\* Not installed, not possible but "Continue anyway", not wanted, or no interface
\* selected.
SkipOVN == phase = "network" /\ Go("fan")

\* Not possible and the user aborts, or no gateway is given.
AbortOVN == /\ phase = "network" /\ "MicroOVN" \in services
            /\ OVNIneligible \/ LackOVN = Everyone
            /\ Go("failed")

\* The subnets that a system can be given for Geneve; the members of the local
\* system's MicroOVN are not asked.
UnderlayChoices(s) ==
  {Nil} \cup (IF \/ \E m \in Everyone : DedicatedInterfaces(world, m) = {}
                 \/ s \in ExistingServices(world, "MicroOVN", Local)
              THEN {} ELSE UNION {world.links[s][i].nets : i \in DedicatedInterfaces(world, s)})

OVNNetwork(sys, s, parent, underlay) ==
  LET entry == DefaultPendingOVNNetwork(parent)
      join == LackOVN # Everyone
  IN [sys EXCEPT !.JoinConfig = IF join THEN Append(@, DefaultOVNNetworkJoinConfig(parent)) ELSE @,
                 !.TargetNetworks = IF join THEN @ ELSE Append(@, entry),
                 !.Networks = IF s = Local /\ ~join THEN @ \o DefaultOVNNetwork ELSE @,
                 !.OVNGeneveNetwork = underlay]

AskOVNNetwork ==
  /\ phase = "network"
  /\ "MicroOVN" \in services
  /\ ~OVNIneligible
  /\ \E parent \in {f \in [LackOVN -> Ifaces] : \A s \in LackOVN : f[s] \in UplinkInterfaces(world, s)},
        underlay \in {f \in [LackOVN -> Subnets \cup {Nil}] : \A s \in LackOVN : f[s] \in UnderlayChoices(s)},
        hit \in IF LackOVN = Everyone THEN RangeHits ELSE {"nothing"} :
       /\ plan' = [s \in Everyone |-> IF s \in LackOVN THEN OVNNetwork(plan[s], s, parent[s], underlay[s])
                                      ELSE plan[s]]
       /\ ovnRange' = hit
  /\ phase' = AfterNetwork
  /\ UNCHANGED <<world, services, avail, wipeChosen>>

FanNetwork(sys, s) ==
  [sys EXCEPT !.TargetNetworks = Append(@, DefaultPendingFanNetwork),
              !.Networks = IF s = Local THEN Append(@, "lxdfan0") ELSE @]

\* askNetwork falls back to a fan network. Where that is not usable the user may
\* abort, or proceed without; a fan network that is there is kept.
AskFanNetwork ==
  /\ phase = "fan"
  /\ \/ (\E s \in Everyone : ~SupportsFANNetwork(world, s)) /\ Go("failed")
     \/ (\E s \in Everyone : HasFAN(world, s)) /\ Go(AfterNetwork)
     \/ /\ \A s \in Everyone : ~HasFAN(world, s)
        /\ IF DefaultFanNetworkFails(world) THEN Go("failed")
           ELSE /\ plan' = [s \in Everyone |-> FanNetwork(plan[s], s)]
                /\ phase' = AfterNetwork
                /\ UNCHANGED <<world, services, avail, ovnRange, wipeChosen>>

\* askInitialUIAccessLink, which may fail, and validateSystems: the range is in
\* the gateway's subnet and includes neither the gateway nor a system.
ValidateSystems ==
  /\ phase = "validate"
  /\ \/ Go("failed")
     \/ /\ ovnRange \notin Everyone \cup {"gateway", "outside"}
        /\ Go("planned")

PlanNext == \/ CheckInitialized \/ Gather \/ AskClustered \/ AskLocalPool \/ AskRemotePool
            \/ SkipOVN \/ AbortOVN \/ AskOVNNetwork \/ AskFanNetwork \/ ValidateSystems
=============================================================================
