----------------------------- MODULE SystemInfo -----------------------------
(* What the commands of MicroCloud learn of the systems they are to set up,  *)
(* and the entries of LXD configuration they compose for them:               *)
(* service/system_information.go, the queries of service/lxd.go and          *)
(* service/lxd_config.go.                                                    *)
(*                                                                           *)
(* A world is what a command finds: which command it is, the systems, their  *)
(* disks and interfaces, the clusters they are in already, and what LXD has. *)
(* Names, addresses and sizes are left out; a subnet is a model value, and a *)
(* system is "in" the subnets that its interfaces have an address of.        *)
EXTENDS Listing, Sequences

CONSTANTS
  Systems,        \* the systems there are
  Local,          \* the one that the command runs on
  Disks,          \* names of disks; a system may have any of them
  Ifaces,         \* names of interfaces
  Subnets,        \* the subnets
  CloudNet,       \* lookupSubnet, MicroCloud's internal network
  Nil             \* no value

ASSUME SystemsAssumption == /\ IsFiniteSet(Systems) /\ IsFiniteSet(Disks) /\ Local \in Systems
                            /\ CloudNet \in Subnets
                            /\ Nil \notin Systems \cup Disks \cup Ifaces \cup Subnets

Optional == {"MicroCeph", "MicroOVN"}
Services == Optional \cup {"MicroCloud", "LXD"}
Pools == {"local", "remote", "remote-fs"}
Nets == {"UPLINK", "default", "lxdfan0"}

\* A pool or network is absent, is MicroCloud's kind and Created, or is
\* anything else that has the name.
Conditions == {"none", "created", "other"}

\* An interface; "physical" is one that OVN can have as its uplink.
Links == [managed : BOOLEAN, up : BOOLEAN, broadcast : BOOLEAN,
          type : {"physical", "bridge", "other"}, nets : SUBSET Subnets]

World ==
  [cmd      : {"init", "add", "service", "preseed"},
   bootstrap : BOOLEAN,
   members  : SUBSET Systems,           \* of the MicroCloud there is
   joiners  : SUBSET Systems,           \* trusted by now, to be added; all with init
   installed : SUBSET Optional,
   ext      : SUBSET {"source_wipe", "cephfs_create_missing", "drop_source"},
   clusters : [Services -> [Systems -> SUBSET Systems]],
   disks    : [Systems -> [Disks -> {"absent", "free", "partitioned", "cdrom"}]],
   osds     : [Systems -> SUBSET Disks],
   links    : [Systems -> [Ifaces -> Links]],
   pools    : [Pools -> Conditions],    \* of the members' LXD
   nets     : [Systems -> [Nets -> Conditions]],
   gateway  : {"none", "one", "many"},  \* IPv4 subnets of the default route
   cephNet  : [internal : Subnets \cup {Nil}, public : Subnets \cup {Nil}]]

All(w) == w.members \cup w.joiners

-----------------------------------------------------------------------------
(* Queries *)

\* GetExistingClusters asks for the services of the handler only.
ExistingServices(w, svc, s) ==
  IF svc \in w.installed \cup {"MicroCloud", "LXD"} THEN w.clusters[svc][s] ELSE {}

ServiceClustered(w, svc, s) == ExistingServices(w, svc, s) # {}

\* CollectSystemInformation: neither partitions, nor cdroms, nor OSDs of the
\* system's own MicroCeph.
AvailableDisks(w, s) ==
  {d \in Disks : /\ w.disks[s][d] = "free"
                 /\ ~(ServiceClustered(w, "MicroCeph", s) /\ d \in w.osds[s])}

defaultNetworkInterfacesFilter(l) == ~l.managed /\ l.up
ovnNetworkInterfacesFilter(l) == l.type \in {"physical", "bridge"} /\ l.broadcast

\* GetNetworkInterfaces: with addresses an interface can carry Ceph, Geneve or
\* MicroCloud traffic; without, or as a bridge, it can be an uplink.
DedicatedInterfaces(w, s) ==
  {i \in Ifaces : LET l == w.links[s][i]
                  IN defaultNetworkInterfacesFilter(l) /\ l.nets # {}}
UplinkInterfaces(w, s) ==
  {i \in Ifaces : LET l == w.links[s][i]
                  IN /\ defaultNetworkInterfacesFilter(l)
                     /\ ovnNetworkInterfacesFilter(l)
                     /\ l.nets = {} \/ l.type = "bridge"}

\* The interfaces that have an address in the subnet.
ValidateCephInterfaces(w, net, s) ==
  {i \in DedicatedInterfaces(w, s) : net \in w.links[s][i].nets}

\* populateMicroCloudNetworkFromState finds one on every peer, or fails.
MicroCloudReaches(w, s) == ValidateCephInterfaces(w, CloudNet, s) # {}

\* SupportsLocalPool, SupportsRemotePool and SupportsRemoteFSPool: a joiner's
\* LXD has no pools, or it would count as initialized.
PoolOn(w, p, s) == IF s \in w.members THEN w.pools[p] ELSE "none"
HasPool(w, p, s) == PoolOn(w, p, s) # "none"
SupportsPool(w, p, s) == PoolOn(w, p, s) # "other"

\* Mutant: an uplink without OVN's network is not looked at.
SupportsOVNDefaultOnly(w, s) == w.nets[s]["default"] \in {"none", "created"}

HasOVN(w, s) == w.nets[s]["default"] # "none" /\ w.nets[s]["UPLINK"] # "none"
SupportsOVNNetwork(w, s) == \/ \A n \in {"default", "UPLINK"} : w.nets[s][n] = "none"
                            \/ \A n \in {"default", "UPLINK"} : w.nets[s][n] = "created"

\* FanNetworkUsable looks for a default IPv4 route, on the local system only;
\* DefaultFanNetwork also needs its interface to have exactly one subnet.
FanNetworkUsable(w) == w.gateway # "none"
HasFAN(w, s) == w.nets[s]["lxdfan0"] # "none"
SupportsFANNetwork(w, s) == CASE w.nets[s]["lxdfan0"] = "none" -> s = Local => FanNetworkUsable(w)
                              [] OTHER -> w.nets[s]["lxdfan0"] = "created"
DefaultFanNetworkFails(w) == w.gateway # "one"

\* Two systems that are in different clusters of one service.
ClustersConflict(w, systems, services) ==
  \E svc \in services : \E a, b \in systems :
    /\ ServiceClustered(w, svc, a) /\ ServiceClustered(w, svc, b)
    /\ ExistingServices(w, svc, a) # ExistingServices(w, svc, b)

\* isInitialized: LXD also counts as initialized when it has a pool.
IsInitialized(w, svc) ==
  \/ w.clusters[svc][Local] # {}
  \/ svc = "LXD" /\ \E p \in Pools : PoolOn(w, p, Local) # "none"

-----------------------------------------------------------------------------
(* Entries of the plan *)

DefaultPendingZFSStoragePool(wipe, d) == [name |-> "local", source |-> d, wipe |-> wipe]
DefaultPendingStoragePool(p) == [name |-> p, source |-> Nil, wipe |-> FALSE]

\* Mutant: the uplink gets the name of its parent.
PendingNamedAfterParent(parent) == [name |-> parent, source |-> parent, wipe |-> FALSE]

DefaultPendingOVNNetwork(parent) == [name |-> "UPLINK", source |-> parent, wipe |-> FALSE]
DefaultPendingFanNetwork == [name |-> "lxdfan0", source |-> Nil, wipe |-> FALSE]
DefaultOVNNetwork == <<"UPLINK", "default">>

\* source, and source.wipe if set, are the member's keys of one pool.
DefaultZFSStoragePoolJoinConfig(wipe, d) == DefaultPendingZFSStoragePool(wipe, d)
DefaultOVNNetworkJoinConfig(parent) == DefaultPendingOVNNetwork(parent)
DefaultCephFSStoragePoolJoinConfig(w) ==
  IF "drop_source" \in w.ext THEN <<>> ELSE <<DefaultPendingStoragePool("remote-fs")>>

Entries == [name : Pools \cup Nets, source : Disks \cup Ifaces \cup {Nil}, wipe : BOOLEAN]

InitSystem ==
  [JoinConfig : Seq(Entries), TargetStoragePools : Seq(Entries), StoragePools : Seq(Pools),
   MicroCephDisks : SUBSET [disk : Disks, wipe : BOOLEAN],
   TargetNetworks : Seq(Entries), Networks : Seq(Nets),
   OVNGeneveNetwork : Subnets \cup {Nil},
   MicroCephInternalNetwork : Subnets \cup {Nil}, MicroCephPublicNetwork : Subnets \cup {Nil}]

NewInitSystem ==
  [JoinConfig |-> <<>>, TargetStoragePools |-> <<>>, StoragePools |-> <<>>,
   MicroCephDisks |-> {}, TargetNetworks |-> <<>>, Networks |-> <<>>,
   OVNGeneveNetwork |-> Nil, MicroCephInternalNetwork |-> Nil, MicroCephPublicNetwork |-> Nil]
=============================================================================
