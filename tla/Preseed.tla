------------------------------- MODULE Preseed -------------------------------
(* The plan made from a preseed file (cmd/microcloud/preseed.go), on the      *)
(* initiator and from the moment that the other systems of the file are       *)
(* trusted. A disk filter is the set of names of disks it is true of.         *)
EXTENDS Plan

CONSTANTS Preseeds    \* the files

VARIABLES preseed     \* the file, fixed

DiskFilter == [find : SUBSET Disks, min : Nat, max : Nat, wipe : BOOLEAN]

PreseedType ==
  [systems : SUBSET Systems,
   uplink : [Systems -> Ifaces \cup {Nil}],
   underlay : [Systems -> Subnets \cup {Nil}],     \* the subnet that the IP is in
   local : [Systems -> [disk : Disks \cup {Nil}, wipe : BOOLEAN]],
   ceph : [Systems -> SUBSET [disk : Disks, wipe : BOOLEAN]],
   localFilters : Seq(DiskFilter), cephFilters : Seq(DiskFilter),
   gateway : BOOLEAN, range : RangeHits,
   internal : Subnets \cup {Nil}, public : Subnets \cup {Nil}, cephfs : BOOLEAN]

ASSUME PreseedsAssumption == Preseeds \subseteq PreseedType

\* c.systems while the file is parsed: with an existing MicroCloud the joiners.
Parsed == IF world.bootstrap THEN Everyone ELSE world.joiners

Listed(f, none) == {s \in preseed.systems : f[s] # none}
AllOrNone(S) == S = {} \/ S = preseed.systems
DirectLocal == {s \in preseed.systems : preseed.local[s].disk # Nil}
DirectCeph == Listed(preseed.ceph, {})

\* validate
Valid ==
  /\ preseed.systems # {}
  /\ world.bootstrap => Local \in preseed.systems
  /\ AllOrNone(Listed(preseed.uplink, Nil))
  /\ Listed(preseed.uplink, Nil) # {} /\ world.bootstrap => preseed.gateway
  /\ AllOrNone(Listed(preseed.underlay, Nil))
  /\ AllOrNone(DirectLocal) \/ preseed.localFilters # <<>>
  /\ DirectCeph = {} /\ preseed.cephFilters = <<>> => preseed.internal = Nil /\ preseed.public = Nil
  /\ \A i \in DOMAIN preseed.cephFilters :
       LET f == preseed.cephFilters[i] IN f.min >= 1 /\ (f.max > 0 => f.max >= f.min)
  /\ \A i \in DOMAIN preseed.localFilters :
       LET f == preseed.localFilters[i] IN f.max > 0 => f.max >= f.min

-----------------------------------------------------------------------------
(* Networks *)

ExplicitOVN == Listed(preseed.uplink, Nil) # {}
UsingOVN == preseed.gateway \/ ExplicitOVN \/ HasOVN(world, Local)

\* The uplinks: those of the file, or of every system the first that could be one;
\* a system that has none is left out.
IfaceByPeer(s) == IF ExplicitOVN THEN preseed.uplink[s]
                  ELSE IF UplinkInterfaces(world, s) = {} THEN Nil
                  ELSE CHOOSE i \in UplinkInterfaces(world, s) : TRUE

UnderlayFails == \E s \in Listed(preseed.underlay, Nil) :
                   ValidateCephInterfaces(world, preseed.underlay[s], s) = {}

ParseNetworks(sys, s) ==
  LET parent == IfaceByPeer(s)
  IN IF UsingOVN
     THEN IF parent = Nil THEN [sys EXCEPT !.OVNGeneveNetwork = preseed.underlay[s]]
          ELSE IF world.bootstrap
          THEN [sys EXCEPT !.TargetNetworks = Append(@, DefaultPendingOVNNetwork(parent)),
                           !.Networks = IF s = Local THEN @ \o DefaultOVNNetwork ELSE @,
                           !.OVNGeneveNetwork = preseed.underlay[s]]
          ELSE [sys EXCEPT !.JoinConfig = Append(@, DefaultOVNNetworkJoinConfig(parent)),
                           !.OVNGeneveNetwork = preseed.underlay[s]]
     ELSE IF world.bootstrap /\ FanNetworkUsable(world) THEN FanNetwork(sys, s)
     ELSE sys

NetworksFail == IF UsingOVN THEN UnderlayFails
                ELSE /\ world.bootstrap /\ FanNetworkUsable(world)
                     /\ DefaultFanNetworkFails(world)

-----------------------------------------------------------------------------
(* Disks *)

\* The resources of a system, cdroms included.
Unpartitioned(s) == {d \in Disks : world.disks[s][d] \in {"free", "cdrom"}}

\* A system whose entry for "local" is empty altogether: one that sets a flag and names
\* no disk gets none.
CheckFilterZFS ==
  {s \in Parsed \cap preseed.systems : preseed.local[s] = [disk |-> Nil, wipe |-> FALSE]}
CheckFilterCeph == {s \in Parsed \cap preseed.systems : preseed.ceph[s] = {}}

\* What filter i takes of a system's disks for MicroCeph: none that an earlier one took.
CephMatched(s, i) ==
  {d \in Unpartitioned(s) \cap preseed.cephFilters[i].find :
     \A j \in 1..(i - 1) : d \notin preseed.cephFilters[j].find}
CephMatches(i) ==
  Cardinality({t \in CheckFilterCeph \X (DOMAIN preseed.cephFilters) \X Disks :
                 /\ preseed.cephFilters[t[2]].find = preseed.cephFilters[i].find
                 /\ t[3] \in CephMatched(t[1], t[2])})
CephDisks(s) ==
  IF s \in CheckFilterCeph
  THEN UNION {{[disk |-> d, wipe |-> preseed.cephFilters[i].wipe] : d \in CephMatched(s, i)}
                : i \in DOMAIN preseed.cephFilters}
  ELSE preseed.ceph[s]

\* The filters that a system has a disk for. They are tried on the same disks
\* again, also those that are taken for MicroCeph.
LocalMatching(s) ==
  {i \in DOMAIN preseed.localFilters : Unpartitioned(s) \cap preseed.localFilters[i].find # {}}
ZFSMachines == {s \in CheckFilterZFS : LocalMatching(s) # {}}

\* Every matching filter adds a disk, until each system has one: only the system
\* that comes last (Go's maps have no order) can be spared the others.
LocalUsed(s, last) ==
  IF s = last /\ ZFSMachines = Parsed
  THEN {i \in LocalMatching(s) : \A j \in LocalMatching(s) : i <= j}
  ELSE LocalMatching(s)
LocalMatches(i, last) ==
  Cardinality({t \in CheckFilterZFS \X (DOMAIN preseed.localFilters) :
                 /\ preseed.localFilters[t[2]].find = preseed.localFilters[i].find
                 /\ t[2] \in LocalUsed(t[1], last)})

\* The entries for the pool "local" of a system, in the order of the filters.
LocalDisks(s, last) ==
  IF s \notin CheckFilterZFS
  THEN <<DefaultPendingZFSStoragePool(preseed.local[s].wipe, preseed.local[s].disk)>>
  ELSE LET entry(i) == DefaultPendingZFSStoragePool(preseed.localFilters[i].wipe,
                         CHOOSE d \in Unpartitioned(s) \cap preseed.localFilters[i].find : TRUE)
           used == Listing(LocalUsed(s, last))
       IN [k \in DOMAIN used |-> entry(used[k])]

OutOfBounds(count, f) == count < f.min \/ (f.max > 0 /\ count > f.max)
AtLeastOne(f) == [f EXCEPT !.min = IF @ = 0 THEN 1 ELSE @]

FiltersUnusable == \/ CheckFilterCeph = {} /\ preseed.cephFilters # <<>>
                   \/ CheckFilterZFS = {} /\ preseed.localFilters # <<>>

\* Mutant: systems without a disk are left out.
LocalOnSomeAccepted == FALSE

\* With a new MicroCloud all systems have a disk for "local", or none has.
LocalOnSome == world.bootstrap /\ ~(ZFSMachines \cup DirectLocal \in {{}, Parsed})

DisksFail(last) ==
  \/ \E i \in DOMAIN preseed.cephFilters : OutOfBounds(CephMatches(i), preseed.cephFilters[i])
  \/ \E i \in DOMAIN preseed.localFilters :
       OutOfBounds(LocalMatches(i, last), AtLeastOne(preseed.localFilters[i]))
  \/ LocalOnSome

\* Pools of a new MicroCloud: "remote" first where a filter found disks, last on
\* the other systems. To an existing one the joiners bring their disks.
ParseDisks(sys, s, last) ==
  LET local == IF s \in CheckFilterZFS \cup DirectLocal THEN LocalDisks(s, last) ELSE <<>>
      anyCeph == \E m \in Parsed : CephDisks(m) # {}
      remote == IF anyCeph THEN <<DefaultPendingStoragePool("remote")>> ELSE <<>>
      fs == (anyCeph /\ preseed.cephfs) \/ HasPool(world, "remote-fs", Local)
      remoteFS == IF fs THEN <<DefaultPendingStoragePool("remote-fs")>> ELSE <<>>
      pools == (IF s \in DirectLocal THEN local \o remote
                ELSE IF s \in CheckFilterCeph /\ CephDisks(s) # {} THEN remote \o local
                ELSE local \o remote) \o remoteFS
  IN IF world.bootstrap
     THEN [sys EXCEPT !.TargetStoragePools = @ \o pools,
                      !.StoragePools = IF s = Local THEN @ \o [i \in 1..Len(pools) |-> pools[i].name] ELSE @,
                      !.MicroCephDisks = CephDisks(s)]
     ELSE [sys EXCEPT !.JoinConfig = @ \o local
                        \o (IF fs THEN DefaultCephFSStoragePoolJoinConfig(world) ELSE <<>>),
                      !.MicroCephDisks = CephDisks(s)]

\* The networks of a new MicroCeph, MicroCloud's own if none is given; those of an
\* existing one are only validated.
CephNetOr(net) == IF net = Nil THEN CloudNet ELSE net
CephNetworksFail ==
  LET nets == IF world.bootstrap THEN {preseed.internal, preseed.public} \ {Nil}
              ELSE {CephNetworkOf("internal"), CephNetworkOf("public")} \ {Nil, CloudNet}
  IN \E net \in nets : \E s \in Parsed : ValidateCephInterfaces(world, net, s) = {}
ParseCephNetworks(sys) ==
  IF world.bootstrap
  THEN [sys EXCEPT !.MicroCephInternalNetwork = CephNetOr(preseed.internal),
                   !.MicroCephPublicNetwork = CephNetOr(preseed.public)]
  ELSE sys

-----------------------------------------------------------------------------

\* The services that a system of the file is clustered in are left out of the
\* setup. Then getTargetCephNetworks, which is called for an existing MicroCloud or
\* MicroCeph, asserts the type of a service that is not there.
Remaining == {svc \in services : \A s \in Parsed : ~ServiceClustered(world, svc, s)}
PreseedCrashes == /\ "MicroCeph" \notin Remaining
                  /\ ~world.bootstrap \/ \E s \in Parsed : s \in ExistingServices(world, "MicroCeph", s)

\* validateSystems looks at the networks of the local system.
UplinkPlanned == world.bootstrap /\ UsingOVN /\ IfaceByPeer(Local) # Nil

\* RunPreseed, Parse and validateSystems, which has no say when MicroCloud exists.
\* The members of an existing MicroCloud are added with nothing to do.
RunPreseed ==
  /\ phase = "parse"
  /\ services' = Remaining
  /\ \E last \in Parsed :
       IF ~Valid \/ preseed.systems # Parsed \/ NetworksFail \/ FiltersUnusable
       THEN phase' = "failed" /\ UNCHANGED <<plan, ovnRange>>
       ELSE IF PreseedCrashes
       THEN phase' = "crashed" /\ UNCHANGED <<plan, ovnRange>>
       ELSE IF \/ CephNetworksFail \/ DisksFail(last)
               \/ UplinkPlanned /\ preseed.range \in Everyone \cup {"gateway", "outside"}
       THEN phase' = "failed" /\ UNCHANGED <<plan, ovnRange>>
       ELSE /\ plan' = [s \in Everyone |->
                          IF s \in Parsed
                          THEN ParseCephNetworks(ParseDisks(ParseNetworks(plan[s], s), s, last))
                          ELSE plan[s]]
            /\ ovnRange' = IF UplinkPlanned THEN preseed.range ELSE "nothing"
            /\ phase' = "planned"
  /\ UNCHANGED <<world, avail, wipeChosen, preseed>>

PreseedInit == /\ PlanInit
               /\ preseed \in IF Ask THEN {Nil} ELSE Preseeds

PreseedNext == \/ PlanNext /\ UNCHANGED preseed
               \/ RunPreseed
=============================================================================
