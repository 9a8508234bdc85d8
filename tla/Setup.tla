-------------------------------- MODULE Setup --------------------------------
(* setupCluster (cmd/microcloud/main_init.go) on a plan of Plan or Preseed:   *)
(* the disks of MicroCeph, and the pools, networks, profile and volumes of    *)
(* LXD, with the reverter that undoes them when a step fails. How the systems *)
(* come into the clusters is the module Formation's; here it is one step.     *)
(*                                                                            *)
(* LXD and MicroCeph are external: LXD refuses what is there already, a pool  *)
(* or network that is not pending on every member, and to delete what is in   *)
(* use; every call may fail besides.                                          *)
EXTENDS Preseed

CONSTANTS OSDPools,        \* pools of Ceph that there may be
          DefaultOSDPools, \* those of them that are MicroCloud's
          Sizes,           \* their sizes to begin with, 0 for none
          RecommendedOSDHosts

ASSUME SetupAssumption == /\ DefaultOSDPools \subseteq OSDPools
                          /\ RecommendedOSDHosts \in Nat \ {0}
                          /\ Sizes \subseteq [OSDPools -> Nat]

VARIABLES
  made,      \* pools and networks that LXD has cluster-wide
  pending,   \* <<name, system>>: defined on a member, not created yet
  profile,   \* the pool and the network that the default profile uses, or Nil
  vols,      \* <<system, volume>>: the volumes "images" and "backups" of "local"
  conf,      \* the systems whose LXD is configured to use them
  osds,      \* <<system, disk>>
  sizes,     \* replication of the pools of Ceph
  left,      \* the systems that the current loop has still to visit
  hooked,    \* the reverter knows of the pools and networks
  inCeph,    \* fixed: whom the system that setupCluster takes has in its MicroCeph
  undeleted  \* history: what the reverter could have deleted, and LXD did not

setupVars == <<made, pending, profile, vols, conf, osds, sizes, left, hooked, inCeph, undeleted>>
vars == <<planVars, preseed, setupVars>>

Elements(seq) == {seq[i] : i \in DOMAIN seq}
Planned == Elements(plan[Local].StoragePools) \cup Elements(plan[Local].Networks)
Foreign == {p \in Pools : PoolOn(world, p, Local) # "none"}
             \cup {n \in Nets : world.nets[Local][n] # "none"}

\* The systems whose disks setupCluster adds itself: the members of a MicroCeph that
\* was there, as one of them knows them (Go's maps have no order), or the local
\* system, which has been bootstrapped. The others bring theirs when they join.
CephViews == LET before == {s \in Everyone : ServiceClustered(world, "MicroCeph", s)}
             IN IF before = {} THEN {{Local}}
                ELSE {Everyone \cap ExistingServices(world, "MicroCeph", s) : s \in before}

Init ==
  /\ PreseedInit
  /\ made = Foreign
  /\ pending = {} /\ vols = {} /\ conf = {} /\ left = {} /\ hooked = FALSE
  /\ profile = [root |-> IF "remote" \in made THEN "remote"
                         ELSE IF "local" \in made THEN "local" ELSE Nil,
                eth0 |-> IF "default" \in made THEN "default"
                         ELSE IF "lxdfan0" \in made THEN "lxdfan0" ELSE Nil]
  /\ osds = UNION {{s} \X world.osds[s] : s \in Systems}
  /\ sizes \in Sizes
  /\ inCeph \in CephViews /\ undeleted = {}

To(p) == phase' = p /\ UNCHANGED <<world, services, avail, plan, ovnRange, wipeChosen, preseed, inCeph>>

-----------------------------------------------------------------------------
(* MicroCeph *)

DisksOf(S) == UNION {{s} \X {e.disk : e \in plan[s].MicroCephDisks} : s \in S}

\* Services are bootstrapped and joined: addPeers looks for whom to join again. Join
\* drops what MicroCeph reports about a disk that it refuses; one such disk is
\* considered.
Form ==
  /\ phase = "planned"
  /\ \/ /\ To("disks")
        /\ \E members \in CephViews :
             LET disks == IF "MicroCeph" \in services THEN DisksOf(Everyone \ members) ELSE {}
             IN \E refused \in {{}} \cup {{d} : d \in disks} : osds' = osds \cup (disks \ refused)
     \/ To("failed") /\ UNCHANGED osds
  /\ UNCHANGED <<made, pending, profile, vols, conf, sizes, left, hooked, undeleted>>

\* Mutant: the reports are ignored here, too.
AddDisksUnchecked ==
  /\ phase = "disks"
  /\ \E added \in SUBSET (IF "MicroCeph" \in services THEN DisksOf(inCeph) ELSE {}) :
       osds' = osds \cup added /\ To("replicate")
  /\ UNCHANGED <<made, pending, profile, vols, conf, sizes, left, hooked, undeleted>>

\* AddDisk on the others: an error in a report ends the command.
AddDisks ==
  /\ phase = "disks"
  /\ LET disks == IF "MicroCeph" \in services THEN DisksOf(inCeph) ELSE {}
     IN \E added \in SUBSET disks :
          /\ osds' = osds \cup added
          /\ To(IF added = disks THEN "replicate" ELSE "revert")
  /\ UNCHANGED <<made, pending, profile, vols, conf, sizes, left, hooked, undeleted>>

\* PoolSetReplicationFactor for MicroCloud's pools that are too small; for none of
\* them it sets the default of pools to come, which is not modelled. Then LXD's
\* northbound connection is updated, and the reverter learns of what is to come.
SetReplication ==
  /\ phase = "replicate"
  /\ LET n == Cardinality(osds)
         defaultPoolSize == IF n > RecommendedOSDHosts THEN RecommendedOSDHosts ELSE n
         toUpdate == {p \in DefaultOSDPools : sizes[p] > 0 /\ sizes[p] < defaultPoolSize}
     IN \/ /\ To("targets")
           /\ sizes' = IF "MicroCeph" \in services
                       THEN [p \in OSDPools |-> IF p \in toUpdate THEN defaultPoolSize ELSE sizes[p]]
                       ELSE sizes
           /\ left' = Everyone /\ hooked' = TRUE
        \/ To("revert") /\ UNCHANGED <<sizes, left, hooked>>
  /\ UNCHANGED <<made, pending, profile, vols, conf, osds, undeleted>>

-----------------------------------------------------------------------------
(* Pools and networks *)

TargetNames(s) == LET names(seq) == [i \in DOMAIN seq |-> seq[i].name]
                  IN names(plan[s].TargetStoragePools) \o names(plan[s].TargetNetworks)

\* LXD accepts the i-th entry for a member if it is new there.
TargetAccepted(s, i) == LET names == TargetNames(s)
                        IN /\ names[i] \notin made
                           /\ <<names[i], s>> \notin pending
                           /\ \A j \in 1..(i - 1) : names[j] # names[i]

\* One system after the other, in any order; the first k entries are created.
CreateTargets(s) ==
  /\ phase = "targets" /\ s \in left
  /\ \E k \in 0..Len(TargetNames(s)) :
       /\ \A i \in 1..k : TargetAccepted(s, i)
       /\ pending' = pending \cup {<<TargetNames(s)[i], s>> : i \in 1..k}
       /\ left' = left \ {s}
       /\ To(IF k < Len(TargetNames(s)) THEN "revert" ELSE IF left = {s} THEN "final" ELSE phase)
  /\ UNCHANGED <<made, profile, vols, conf, osds, sizes, hooked, undeleted>>

\* "remote-fs" comes after "remote", and networks after pools.
FinalNames ==
  LET pools == plan[Local].StoragePools
      others == Listing({i \in DOMAIN pools : pools[i] # "remote-fs"})
  IN [i \in DOMAIN others |-> pools[others[i]]]
       \o (IF "remote-fs" \in Elements(pools) THEN <<"remote-fs">> ELSE <<>>)
       \o plan[Local].Networks

\* An OVN network is not defined per member, but needs its uplink.
FinalAccepted(i) ==
  /\ FinalNames[i] \notin made
  /\ \A j \in 1..(i - 1) : FinalNames[j] # FinalNames[i]
  /\ IF FinalNames[i] = "default" THEN \E j \in 1..(i - 1) : FinalNames[j] = "UPLINK"
     ELSE \A s \in Everyone : <<FinalNames[i], s>> \in pending

CreateFinal ==
  /\ phase = "final"
  /\ \E k \in 0..Len(FinalNames) :
       /\ \A i \in 1..k : FinalAccepted(i)
       /\ made' = made \cup {FinalNames[i] : i \in 1..k}
       /\ To(IF k < Len(FinalNames) THEN "revert" ELSE "profile")
  /\ UNCHANGED <<pending, profile, vols, conf, osds, sizes, left, hooked, undeleted>>

\* The devices of the profile: OVN's network and Ceph's pool come first.
ProfileNetwork == IF "default" \in Elements(plan[Local].Networks) THEN "default"
                  ELSE IF plan[Local].Networks = <<>> THEN Nil ELSE plan[Local].Networks[1]
ProfilePool == IF "remote" \in Elements(plan[Local].StoragePools) THEN "remote"
               ELSE IF "local" \in Elements(plan[Local].StoragePools) THEN "local" ELSE Nil

\* askUpdateProfile: a device that is there is replaced if the user says so.
AskUpdateProfile(replace) ==
  LET device(old, new) == IF new # Nil /\ (old = Nil \/ replace) THEN new ELSE old
  IN [root |-> device(profile.root, ProfilePool), eth0 |-> device(profile.eth0, ProfileNetwork)]

UpdateProfile ==
  /\ phase = "profile"
  /\ \/ \E replace \in BOOLEAN : To("volumes") /\ profile' = AskUpdateProfile(replace) /\ left' = Everyone
     \/ To("revert") /\ UNCHANGED <<profile, left>>
  /\ UNCHANGED <<made, pending, vols, conf, osds, sizes, hooked, undeleted>>

-----------------------------------------------------------------------------
(* Volumes *)

\* The systems that get a disk for "local" by this plan.
LocalHere(s) == \E e \in Elements(plan[s].TargetStoragePools) \cup Elements(plan[s].JoinConfig) : e.name = "local"
Volumes == <<"images", "backups">>

\* First the volumes, for which LXD needs the pool, and then the configuration that
\* names them.
CreateVolumes(s) ==
  /\ phase = "volumes" /\ s \in left
  /\ \E k \in IF LocalHere(s) THEN IF "local" \in made THEN 0..3 ELSE {0} ELSE {3} :
       /\ vols' = vols \cup {<<s, Volumes[i]>> : i \in IF LocalHere(s) THEN 1..(IF k = 3 THEN 2 ELSE k) ELSE {}}
       /\ conf' = IF k = 3 /\ LocalHere(s) THEN conf \cup {s} ELSE conf
       /\ left' = left \ {s}
       /\ To(IF k < 3 THEN "revert" ELSE IF left = {s} THEN "done" ELSE phase)
  /\ UNCHANGED <<made, pending, profile, osds, sizes, hooked, undeleted>>

-----------------------------------------------------------------------------
(* The reverter *)

\* LXD does not delete volumes that a member is configured to use. Its configuration
\* is only restored after them, and to what was just set: server.Writable() shares
\* the map that was changed.
VolumesKept == {v \in vols : v[1] \in conf}

\* LXD does not delete what the profile, another network or a volume uses.
InUse(name, left_vols) == \/ name \in {profile.root, profile.eth0}
                          \/ name = "UPLINK" /\ "default" \in made
                          \/ name = "local" /\ left_vols # {}

\* Mutant: the reverter forgets the pools.
DeletedNetworks(left_vols) == IF world.bootstrap /\ hooked
                              THEN {n \in Elements(plan[Local].Networks) : ~InUse(n, left_vols)} ELSE {}

\* What the reverter can delete: networks in the order of the list, then pools, by
\* name and only when bootstrapping.
Deleted(left_vols) ==
  IF world.bootstrap /\ hooked THEN {n \in Planned : ~InUse(n, left_vols)} ELSE {}

\* The last hook first: volumes, then networks and pools. Each deletion may fail, which
\* nobody is told.
Revert ==
  /\ phase = "revert"
  /\ To("failed")
  /\ \E failedVols \in SUBSET (vols \ VolumesKept) :
       \E failed \in SUBSET Deleted(VolumesKept \cup failedVols) :
         LET gone == Deleted(VolumesKept \cup failedVols) \ failed
         IN /\ vols' = VolumesKept \cup failedVols
            /\ made' = made \ gone
            /\ pending' = {p \in pending : p[1] \notin gone}
            /\ undeleted' = failed \cup (IF failedVols = {} THEN {} ELSE {"local"})
  /\ UNCHANGED <<profile, conf, osds, sizes, left, hooked>>

Ended == phase \in {"done", "failed", "crashed"} /\ UNCHANGED vars

Next ==
  \/ PreseedNext /\ UNCHANGED setupVars
  \/ Form \/ AddDisks \/ SetReplication
  \/ \E s \in Systems : CreateTargets(s) \/ CreateVolumes(s)
  \/ CreateFinal \/ UpdateProfile \/ Revert \/ Ended

Spec == Init /\ [][Next]_vars

-----------------------------------------------------------------------------
(* Properties *)

\* The type invariant: whatever command, answers and file, the plan has entries of
\* MicroCloud's pools and networks only, for disks and interfaces that there are, and
\* what LXD and MicroCeph are given is theirs to have.
TypeOK ==
  /\ phase \in {"check", "gather", "parse", "clustered", "local", "remote", "network", "fan", "validate",
                "planned", "disks", "replicate", "targets", "final", "profile", "volumes", "revert",
                "done", "failed", "crashed"}
  /\ services \subseteq world.installed /\ ovnRange \in RangeHits
  /\ wipeChosen \subseteq Systems \X Disks /\ osds \subseteq Systems \X Disks
  /\ \A s \in Everyone : /\ Elements(plan[s].JoinConfig) \cup Elements(plan[s].TargetStoragePools)
                               \cup Elements(plan[s].TargetNetworks) \subseteq Entries
                         /\ plan[s].MicroCephDisks \subseteq [disk : Disks, wipe : BOOLEAN]
  /\ made \subseteq Pools \cup Nets /\ pending \subseteq (Pools \cup Nets) \X Systems
  /\ profile \in [root : Pools \cup {Nil}, eth0 : Nets \cup {Nil}]
  /\ sizes \in [OSDPools -> Nat] /\ left \subseteq Everyone /\ conf \subseteq Everyone
  /\ inCeph \subseteq Everyone

LocalSources(s) == {e.source : e \in {x \in Elements(plan[s].TargetStoragePools)
                                           \cup Elements(plan[s].JoinConfig) : x.name = "local"}}
CephSources(s) == {e.disk : e \in plan[s].MicroCephDisks}

\* Whatever is answered to askLocalPool and askRemotePool, a disk has at most one use:
\* the source of the pool "local", of which a system has one at most, or a disk of
\* MicroCeph, and neither if it is an OSD already (of a MicroCeph that the handler
\* can ask). The two questions share c.state's AvailableDisks.
DiskOneUse ==
  Ask => \A s \in Everyone :
           /\ LocalSources(s) \cap CephSources(s) = {}
           /\ Cardinality(LocalSources(s)) <= 1
           /\ "MicroCeph" \in world.installed =>
                (LocalSources(s) \cup CephSources(s)) \cap world.osds[s] = {}

Creating == {"targets", "final", "profile", "volumes", "done"}
PoolEntries(s) == {e.name : e \in Elements(plan[s].TargetStoragePools)}

\* A pool is created on the whole cluster exactly if every system has an entry for
\* its part of it, from the questions as well as from a preseed file: LXD refuses to
\* create a pool that some member has not defined, and one that is only defined
\* stays pending for good.
PoolsEverywhere ==
  phase \in {"planned", "disks", "replicate"} \cup Creating =>
    \A p \in Pools : LET final == p \in Elements(plan[Local].StoragePools)
                     IN \A s \in Everyone : p \in PoolEntries(s) <=> final

\* LXD has no reason to refuse what the questions have planned: nothing is there
\* already or defined twice, and what is created cluster-wide is defined on every
\* member, an uplink before the network that uses it.
LXDAccepts ==
  Ask => /\ phase = "targets" => \A s \in left : \A i \in DOMAIN TargetNames(s) : TargetAccepted(s, i)
         /\ phase = "final" => \A i \in DOMAIN FinalNames : FinalAccepted(i)

\* What LXD had before the command stays, also when the reverter deletes pools and
\* networks by their names. And a run that fails before the profile is written leaves
\* nothing of its own pools and networks, cluster-wide or pending, but the uplink of
\* an OVN network, which the reverter tries to delete first, and what LXD fails to
\* delete without a reason. (To an existing MicroCloud the reverter does nothing.)
RevertLeaves ==
  Ask => /\ Foreign \subseteq made
         /\ phase = "failed" /\ world.bootstrap /\ hooked /\ conf = {}
              /\ {profile.root, profile.eth0} \cap Planned = {} =>
                (made \cup {p[1] : p \in pending}) \cap Planned \subseteq {"UPLINK"} \cup undeleted

\* A run that succeeds has built what was planned: the pools and networks, volumes and
\* the configuration that names them on each system with a disk for "local", the
\* disks of the systems that were in MicroCeph, replication on as many disks as
\* there are, up to the recommended number. (A joiner's disk that MicroCeph refuses
\* is not noticed: Join ignores the reports.)
SuccessMeansBuilt ==
  phase = "done" =>
    /\ Planned \subseteq made
    /\ \A s \in Everyone : LocalHere(s) =>
         /\ "local" \in made /\ s \in conf /\ {<<s, "images">>, <<s, "backups">>} \subseteq vols
    /\ {profile.root, profile.eth0} \subseteq made \cup {Nil}
    /\ "MicroCeph" \in services =>
         /\ DisksOf(inCeph) \subseteq osds
         /\ \A p \in DefaultOSDPools : sizes[p] > 0 =>
              sizes[p] >= (IF Cardinality(osds) < RecommendedOSDHosts THEN Cardinality(osds)
                           ELSE RecommendedOSDHosts)

\* A disk is wiped for the pool "local" only if the user selected it to be wiped.
WipeAsChosen ==
  Ask => \A s \in Everyone :
           \A e \in Elements(plan[s].TargetStoragePools) \cup Elements(plan[s].JoinConfig) :
             e.name = "local" /\ e.wipe => <<s, e.source>> \in wipeChosen
=============================================================================
