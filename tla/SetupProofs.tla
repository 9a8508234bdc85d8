----------------------------- MODULE SetupProofs -----------------------------
(***************************************************************************)
(* Proofs about Setup, and about Plan and Preseed from which it starts, for *)
(* any systems, disks and interfaces, any worlds that a command may find,  *)
(* and any preseed files.                                                  *)
(***************************************************************************)
EXTENDS Setup, ListingProofs, SequenceTheorems

NamesOf(seq) == [i \in DOMAIN seq |-> seq[i].name]
Distinct(seq) == \A i, k \in DOMAIN seq : seq[i] = seq[k] => i = k

\* The questions, and the phases before setupCluster.
Asking == {"gather", "clustered", "local", "remote", "network", "fan", "validate"}
Planning == {"check", "parse"} \cup Asking
Forming == {"planned", "disks", "replicate"}
Over == {"revert", "done", "failed", "crashed"}

\* The plan has its type, and the questions are asked of a user.
PlanTyped ==
  /\ world \in Worlds
  /\ phase \in Planning \cup Forming \cup Creating \cup Over
  /\ plan \in [Everyone -> InitSystem] /\ avail \in [Systems -> SUBSET Disks]
  /\ services \subseteq world.installed /\ ovnRange \in RangeHits
  /\ wipeChosen \subseteq Systems \X Disks
  /\ ~Ask => preseed \in Preseeds
  /\ phase \in Asking => Ask
  /\ phase = "parse" => ~Ask

\* Before the first answer, and before a file is parsed, nothing is planned.
Blank ==
  phase \in {"check", "gather", "parse", "clustered", "local"} =>
    plan = [s \in Everyone |-> NewInitSystem]

\* The disks that are left, and those that the answers have taken.
DisksTaken ==
  Ask =>
    \A s \in Everyone :
      /\ avail[s] \subseteq AvailableDisks(world, s)
      /\ LocalSources(s) \subseteq AvailableDisks(world, s) \ avail[s]
      /\ CephSources(s) \subseteq avail[s]
      /\ \A d, e \in LocalSources(s) : d = e

\* Every system has an entry for each pool that is created, and no other.
PoolsSame ==
  Ask => /\ \A s \in Everyone : NamesOf(plan[s].TargetStoragePools) = plan[Local].StoragePools
         /\ Distinct(plan[Local].StoragePools)
         /\ phase = "remote" => Elements(plan[Local].StoragePools) \subseteq {"local"}

\* The same for the networks, of which OVN's own is not defined on the systems.
NetworksSame ==
  Ask => /\ plan[Local].Networks \in {<<>>, DefaultOVNNetwork, <<"lxdfan0">>}
         /\ \A s \in Everyone : NamesOf(plan[s].TargetNetworks) =
              IF plan[Local].Networks = DefaultOVNNetwork THEN <<"UPLINK">> ELSE plan[Local].Networks
         /\ phase \in {"remote", "network", "fan"} => plan[Local].Networks = <<>>

\* Nothing is planned that LXD has already.
NothingForeign == Ask => Planned \cap Foreign = {}

PlanInv == PlanTyped /\ Blank /\ DisksTaken /\ PoolsSame /\ NetworksSame /\ NothingForeign
             /\ PoolsEverywhere

-----------------------------------------------------------------------------
\* What setupCluster has made by now.
SetupTyped ==
  /\ made \subseteq Pools \cup Nets /\ pending \subseteq (Pools \cup Nets) \X Systems
  /\ profile \in [root : Pools \cup {Nil}, eth0 : Nets \cup {Nil}]
  /\ osds \subseteq Systems \X Disks
  /\ sizes \in [OSDPools -> Nat] /\ left \subseteq Everyone /\ conf \subseteq Everyone
  /\ inCeph \subseteq Everyone

\* Nothing was created before the reverter knows of it.
NothingYet ==
  /\ phase \in Planning \cup Forming => ~hooked /\ pending = {}
  /\ phase \in Planning \cup Forming \cup {"targets", "final"} => made = Foreign

\* Each system defines its part once.
Defined ==
  /\ phase = "targets" => \A s \in left, n \in Pools \cup Nets : <<n, s>> \notin pending
  /\ phase \in {"targets", "final"} =>
       \A s \in Everyone \ (IF phase = "targets" THEN left ELSE {}) :
         \A i \in DOMAIN TargetNames(s) : <<TargetNames(s)[i], s>> \in pending

\* What is done when a phase is over.
BuiltSoFar ==
  /\ {profile.root, profile.eth0} \subseteq made \cup {Nil} \/ phase \in {"revert", "failed"}
  /\ phase \in {"profile", "volumes", "done"} => Planned \subseteq made
  /\ phase \in {"volumes", "done"} =>
       \A s \in Everyone \ (IF phase = "volumes" THEN left ELSE {}) : LocalHere(s) =>
         "local" \in made /\ s \in conf /\ {<<s, "images">>, <<s, "backups">>} \subseteq vols
  /\ phase \in Creating \cup {"replicate"} /\ "MicroCeph" \in services => DisksOf(inCeph) \subseteq osds
  /\ phase \in Creating /\ "MicroCeph" \in services =>
       \A p \in DefaultOSDPools : sizes[p] > 0 =>
         sizes[p] >= (IF Cardinality(osds) < RecommendedOSDHosts THEN Cardinality(osds)
                      ELSE RecommendedOSDHosts)

-----------------------------------------------------------------------------
(* Sequences.                                                               *)

LEMMA ElementsType ==
  ASSUME NEW S, NEW seq \in Seq(S)
  PROVE  Elements(seq) \subseteq S
BY ElementOfSeq DEF Elements

LEMMA ElementsConcat ==
  ASSUME NEW S, NEW s \in Seq(S), NEW t \in Seq(S)
  PROVE  Elements(s \o t) = Elements(s) \cup Elements(t)
<1>1. /\ DOMAIN s = 1..Len(s) /\ DOMAIN t = 1..Len(t) /\ Len(s) \in Nat /\ Len(t) \in Nat
      /\ DOMAIN (s \o t) = 1..(Len(s) + Len(t))
      /\ \A i \in 1..(Len(s) + Len(t)) :
           (s \o t)[i] = IF i <= Len(s) THEN s[i] ELSE t[i - Len(s)]
  BY ConcatProperties, LenProperties
<1>2. ASSUME NEW e \in Elements(s \o t)
      PROVE  e \in Elements(s) \cup Elements(t)
  <2>1. PICK i \in 1..(Len(s) + Len(t)) : e = (s \o t)[i]
    BY <1>1, <1>2 DEF Elements
  <2>2. CASE i <= Len(s)
    BY <1>1, <2>1, <2>2 DEF Elements
  <2>3. CASE ~(i <= Len(s))
    <3>1. i - Len(s) \in 1..Len(t) /\ e = t[i - Len(s)]
      BY <1>1, <2>1, <2>3
    <3> QED
      BY <1>1, <3>1 DEF Elements
  <2> QED
    BY <2>2, <2>3
<1>3. ASSUME NEW e \in Elements(s)
      PROVE  e \in Elements(s \o t)
  <2>1. PICK i \in 1..Len(s) : e = s[i]
    BY <1>1, <1>3 DEF Elements
  <2>2. i \in 1..(Len(s) + Len(t)) /\ (s \o t)[i] = e
    BY <1>1, <2>1
  <2> QED
    BY <1>1, <2>2 DEF Elements
<1>4. ASSUME NEW e \in Elements(t)
      PROVE  e \in Elements(s \o t)
  <2>1. PICK i \in 1..Len(t) : e = t[i]
    BY <1>1, <1>4 DEF Elements
  <2>2. i + Len(s) \in 1..(Len(s) + Len(t)) /\ (s \o t)[i + Len(s)] = e
    BY <1>1, <2>1
  <2> QED
    BY <1>1, <2>2 DEF Elements
<1> QED
  BY <1>2, <1>3, <1>4

\* Append is a concatenation, for the elements as well.
LEMMA ElementsAppend ==
  ASSUME NEW S, NEW s \in Seq(S), NEW e \in S
  PROVE  /\ Append(s, e) \in Seq(S)
         /\ Elements(Append(s, e)) = Elements(s) \cup {e}
<1>1. Append(s, e) = s \o <<e>> /\ <<e>> \in Seq(S)
  BY AppendIsConcat
<1>2. Elements(<<e>>) = {e}
  BY DEF Elements
<1>3. Elements(s \o <<e>>) = Elements(s) \cup Elements(<<e>>)
  BY <1>1, ElementsConcat
<1>4. Append(s, e) \in Seq(S)
  BY AppendProperties
<1> QED
  BY <1>1, <1>2, <1>3, <1>4, Zenon

LEMMA ElementsEmpty == Elements(<<>>) = {}
BY DEF Elements

\* The names of entries, one by one.
LEMMA NamesType ==
  ASSUME NEW s \in Seq(Entries)
  PROVE  /\ NamesOf(s) \in Seq(Pools \cup Nets)
         /\ Len(NamesOf(s)) = Len(s)
         /\ \A i \in 1..Len(s) : NamesOf(s)[i] = s[i].name
         /\ Elements(NamesOf(s)) = {e.name : e \in Elements(s)}
<1>1. DOMAIN s = 1..Len(s) /\ Len(s) \in Nat /\ \A i \in 1..Len(s) : s[i] \in Entries
  BY LenProperties
<1>2. \A e \in Entries : e.name \in Pools \cup Nets
  BY DEF Entries
<1>3. NamesOf(s) \in [1..Len(s) -> Pools \cup Nets]
  BY <1>1, <1>2 DEF NamesOf
<1>4. \A i \in 1..Len(s) : NamesOf(s)[i] = s[i].name
  BY <1>1 DEF NamesOf
<1>5. Elements(NamesOf(s)) = {e.name : e \in Elements(s)}
  <2>1. DOMAIN NamesOf(s) = 1..Len(s)
    BY <1>3
  <2> QED
    BY <1>1, <1>4, <2>1 DEF Elements
<1> QED
  BY <1>1, <1>3, <1>4, <1>5

LEMMA NamesConcat ==
  ASSUME NEW s \in Seq(Entries), NEW t \in Seq(Entries)
  PROVE  NamesOf(s \o t) = NamesOf(s) \o NamesOf(t)
<1>1. s \o t \in Seq(Entries) /\ Len(s \o t) = Len(s) + Len(t)
      /\ \A i \in 1..(Len(s) + Len(t)) :
           (s \o t)[i] = IF i <= Len(s) THEN s[i] ELSE t[i - Len(s)]
  BY ConcatProperties
<1>2. Len(s) \in Nat /\ Len(t) \in Nat
  BY LenProperties
<1> DEFINE l == NamesOf(s \o t)
           a == NamesOf(s)
           b == NamesOf(t)
           r == a \o b
<1>3. l \in Seq(Pools \cup Nets) /\ Len(l) = Len(s) + Len(t)
      /\ \A i \in 1..(Len(s) + Len(t)) : l[i] = (s \o t)[i].name
  BY <1>1, NamesType
<1>4. /\ a \in Seq(Pools \cup Nets) /\ Len(a) = Len(s)
      /\ b \in Seq(Pools \cup Nets) /\ Len(b) = Len(t)
      /\ \A i \in 1..Len(s) : a[i] = s[i].name
      /\ \A i \in 1..Len(t) : b[i] = t[i].name
  BY NamesType
<1> HIDE DEF l, a, b
<1>5. r \in Seq(Pools \cup Nets) /\ Len(r) = Len(s) + Len(t)
      /\ \A i \in 1..(Len(s) + Len(t)) :
           r[i] = IF i <= Len(s) THEN a[i] ELSE b[i - Len(s)]
  <2>1. /\ r \in Seq(Pools \cup Nets) /\ Len(r) = Len(a) + Len(b)
        /\ \A i \in 1..(Len(a) + Len(b)) :
             r[i] = IF i <= Len(a) THEN a[i] ELSE b[i - Len(a)]
    <3>1. a \in Seq(Pools \cup Nets) /\ b \in Seq(Pools \cup Nets)
      BY <1>4
    <3> QED
      BY <3>1, ConcatProperties
  <2> QED
    BY <1>4, <2>1
<1>6. ASSUME NEW i \in 1..(Len(s) + Len(t))
      PROVE  l[i] = r[i]
  <2> HIDE DEF r
  <2>1. CASE i <= Len(s)
    <3>1. i \in 1..Len(s)
      BY <1>2, <2>1
    <3>2. l[i] = s[i].name
      BY <1>1, <1>3, <2>1
    <3> QED
      BY <1>4, <1>5, <2>1, <3>1, <3>2
  <2>2. CASE ~(i <= Len(s))
    <3>1. i - Len(s) \in 1..Len(t)
      BY <1>2, <2>2
    <3>2. l[i] = t[i - Len(s)].name
      BY <1>1, <1>3, <2>2
    <3> QED
      BY <1>4, <1>5, <2>2, <3>1, <3>2
  <2> QED
    BY <2>1, <2>2
<1> HIDE DEF r
<1>7. l = r
  BY <1>3, <1>5, <1>6, SeqEqual
<1> QED
  BY <1>7 DEF l, r, a, b

LEMMA NamesAppend ==
  ASSUME NEW s \in Seq(Entries), NEW e \in Entries
  PROVE  NamesOf(Append(s, e)) = Append(NamesOf(s), e.name)
<1>1. Append(s, e) = s \o <<e>> /\ <<e>> \in Seq(Entries)
  BY AppendIsConcat
<1>2. NamesOf(<<e>>) = <<e.name>>
  BY DEF NamesOf
<1>3. NamesOf(s) \in Seq(Pools \cup Nets) /\ e.name \in Pools \cup Nets
  BY NamesType DEF Entries
<1>4. NamesOf(Append(s, e)) = NamesOf(s) \o <<e.name>>
  BY <1>1, <1>2, NamesConcat
<1> QED
  BY <1>3, <1>4, AppendIsConcat

\* Two lists of distinct elements, put together.
LEMMA DistinctConcat ==
  ASSUME NEW S, NEW s \in Seq(S), NEW t \in Seq(S), Distinct(s), Distinct(t),
         Elements(s) \cap Elements(t) = {}
  PROVE  Distinct(s \o t)
<1>1. /\ DOMAIN s = 1..Len(s) /\ DOMAIN t = 1..Len(t) /\ Len(s) \in Nat /\ Len(t) \in Nat
      /\ DOMAIN (s \o t) = 1..(Len(s) + Len(t))
      /\ \A i \in 1..(Len(s) + Len(t)) :
           (s \o t)[i] = IF i <= Len(s) THEN s[i] ELSE t[i - Len(s)]
  BY ConcatProperties, LenProperties
<1>2. SUFFICES ASSUME NEW i \in 1..(Len(s) + Len(t)), NEW k \in 1..(Len(s) + Len(t)),
                      (s \o t)[i] = (s \o t)[k]
               PROVE  i = k
  BY <1>1 DEF Distinct
<1>3. CASE i <= Len(s) /\ k <= Len(s)
  <2>1. i \in DOMAIN s /\ k \in DOMAIN s /\ s[i] = s[k]
    BY <1>1, <1>2, <1>3
  <2> QED
    BY <2>1 DEF Distinct
<1>4. CASE ~(i <= Len(s)) /\ ~(k <= Len(s))
  <2>1. i - Len(s) \in DOMAIN t /\ k - Len(s) \in DOMAIN t /\ t[i - Len(s)] = t[k - Len(s)]
    BY <1>1, <1>2, <1>4
  <2>2. i - Len(s) = k - Len(s)
    BY <2>1 DEF Distinct
  <2> QED
    BY <1>1, <2>2
<1>5. CASE i <= Len(s) /\ ~(k <= Len(s))
  <2>1. i \in DOMAIN s /\ k - Len(s) \in DOMAIN t /\ s[i] = t[k - Len(s)]
    BY <1>1, <1>2, <1>5
  <2> QED
    BY <2>1 DEF Elements
<1>6. CASE ~(i <= Len(s)) /\ k <= Len(s)
  <2>1. k \in DOMAIN s /\ i - Len(s) \in DOMAIN t /\ s[k] = t[i - Len(s)]
    BY <1>1, <1>2, <1>6
  <2> QED
    BY <2>1 DEF Elements
<1> QED
  BY <1>3, <1>4, <1>5, <1>6

-----------------------------------------------------------------------------
(* What a command finds, and a plan that nobody has touched.                *)

LEMMA WorldFacts ==
  ASSUME world \in Worlds
  PROVE  /\ Everyone \subseteq Systems /\ Local \in Everyone /\ IsFiniteSet(Everyone)
         /\ world.members \subseteq Everyone /\ (world.members # {} => Local \in world.members)
         /\ world.joiners \subseteq Everyone /\ Everyone = world.members \cup world.joiners
         /\ world.installed \subseteq Optional
         /\ world.osds \in [Systems -> SUBSET Disks]
         /\ world.pools \in [Pools -> Conditions]
         /\ world.nets \in [Systems -> [Nets -> Conditions]]
         /\ world.cephNet \in [internal : Subnets \cup {Nil}, public : Subnets \cup {Nil}]
         /\ world.links \in [Systems -> [Ifaces -> Links]]
         /\ \A s \in Everyone : world.osds[s] # {} => world.clusters["MicroCeph"][s] # {}
<1>1. world \in World
  BY WorldsAssumption
<1>2. /\ world.members \subseteq Systems /\ world.joiners \subseteq Systems
      /\ world.installed \subseteq Optional
      /\ world.osds \in [Systems -> SUBSET Disks]
      /\ world.pools \in [Pools -> Conditions]
      /\ world.nets \in [Systems -> [Nets -> Conditions]]
      /\ world.cephNet \in [internal : Subnets \cup {Nil}, public : Subnets \cup {Nil}]
      /\ world.links \in [Systems -> [Ifaces -> Links]]
  BY <1>1 DEF World
<1>3. Everyone = world.members \cup world.joiners
  BY DEF Everyone, All
<1>4. Everyone \subseteq Systems
  BY <1>2, <1>3
<1>5. IsFiniteSet(Everyone)
  BY <1>4, SystemsAssumption, FS_Subset
<1>6. /\ Local \in Everyone /\ (world.members # {} => Local \in world.members)
      /\ \A s \in Everyone : world.osds[s] # {} => world.clusters["MicroCeph"][s] # {}
  BY WorldsAssumption DEF Everyone
<1> QED
  BY <1>2, <1>3, <1>4, <1>5, <1>6

LEMMA NewInitSystemType == NewInitSystem \in InitSystem
<1>1. <<>> \in Seq(Entries) /\ <<>> \in Seq(Pools) /\ <<>> \in Seq(Nets)
  OBVIOUS
<1> QED
  BY <1>1 DEF NewInitSystem, InitSystem

\* The fields of an InitSystem.
LEMMA InitSystemFields ==
  ASSUME NEW sys \in InitSystem
  PROVE  /\ sys.JoinConfig \in Seq(Entries) /\ sys.TargetStoragePools \in Seq(Entries)
         /\ sys.StoragePools \in Seq(Pools) /\ sys.TargetNetworks \in Seq(Entries)
         /\ sys.Networks \in Seq(Nets)
         /\ sys.MicroCephDisks \subseteq [disk : Disks, wipe : BOOLEAN]
         /\ sys.OVNGeneveNetwork \in Subnets \cup {Nil}
         /\ sys.MicroCephInternalNetwork \in Subnets \cup {Nil}
         /\ sys.MicroCephPublicNetwork \in Subnets \cup {Nil}
BY DEF InitSystem

\* Nothing is planned.
IsBlank == plan = [s \in Everyone |-> NewInitSystem]

LEMMA BlankPlan ==
  ASSUME world \in Worlds, IsBlank, avail = [s \in Systems |-> AvailableDisks(world, s)]
  PROVE  /\ DisksTaken /\ NothingForeign
         /\ \A s \in Everyone : NamesOf(plan[s].TargetStoragePools) = plan[Local].StoragePools
         /\ plan[Local].StoragePools = <<>> /\ plan[Local].Networks = <<>>
         /\ \A s \in Everyone : NamesOf(plan[s].TargetNetworks) = <<>>
<1>1. \A s \in Everyone : plan[s] = NewInitSystem
  BY DEF IsBlank
<1>2. NamesOf(<<>>) = <<>>
  BY DEF NamesOf
<1>3. Local \in Everyone /\ Everyone \subseteq Systems
  BY WorldFacts
<1>4. \A s \in Everyone : LocalSources(s) = {} /\ CephSources(s) = {}
  BY <1>1, ElementsEmpty DEF LocalSources, CephSources, NewInitSystem
<1>5. DisksTaken
  BY <1>3, <1>4 DEF DisksTaken
<1>6. NothingForeign
  BY <1>1, <1>3, ElementsEmpty DEF NothingForeign, Planned, NewInitSystem
<1>7. \A s \in Everyone : /\ plan[s].TargetStoragePools = <<>> /\ plan[s].StoragePools = <<>>
                          /\ plan[s].Networks = <<>> /\ plan[s].TargetNetworks = <<>>
  BY <1>1 DEF NewInitSystem
<1> QED
  BY <1>2, <1>3, <1>5, <1>6, <1>7

LEMMA PlanInitial == Init => PlanInv
<1> SUFFICES ASSUME Init
             PROVE  PlanInv
  OBVIOUS
<1>1. /\ world \in Worlds /\ phase = "check" /\ services = world.installed
      /\ avail = [s \in Systems |-> AvailableDisks(world, s)]
      /\ IsBlank /\ ovnRange = "nothing" /\ wipeChosen = {}
      /\ preseed \in IF Ask THEN {Nil} ELSE Preseeds
  BY DEF Init, PreseedInit, PlanInit, IsBlank
<1>2. plan \in [Everyone -> InitSystem]
  BY <1>1, NewInitSystemType DEF IsBlank
<1>3. avail \in [Systems -> SUBSET Disks]
  BY <1>1 DEF AvailableDisks
<1>4. PlanTyped
  BY <1>1, <1>2, <1>3 DEF PlanTyped, Planning, Asking, RangeHits
<1>5. Blank
  BY <1>1 DEF Blank, IsBlank
<1>6. PoolsSame /\ NetworksSame /\ DisksTaken /\ NothingForeign
  <2>1. DefaultOVNNetwork # <<>>
    BY DEF DefaultOVNNetwork
  <2> QED
    BY <1>1, <2>1, BlankPlan DEF PoolsSame, NetworksSame, Distinct
<1>7. PoolsEverywhere
  BY <1>1 DEF PoolsEverywhere, Creating
<1> QED
  BY <1>4, <1>5, <1>6, <1>7 DEF PlanInv

\* With a user, what PoolsSame says is what LXD needs.
LEMMA SameEverywhere ==
  ASSUME PlanTyped, PoolsSame, Ask
  PROVE  PoolsEverywhere
<1> SUFFICES ASSUME NEW s \in Everyone, NEW p \in Pools
             PROVE  p \in PoolEntries(s) <=> p \in Elements(plan[Local].StoragePools)
  BY DEF PoolsEverywhere
<1>1. plan[s].TargetStoragePools \in Seq(Entries)
  BY InitSystemFields DEF PlanTyped
<1>2. Elements(NamesOf(plan[s].TargetStoragePools)) = PoolEntries(s)
  BY <1>1, NamesType DEF PoolEntries
<1> QED
  BY <1>2 DEF PoolsSame

LEMMA SameNext == (PlanTyped /\ PoolsSame /\ Ask => PoolsEverywhere)'
<1>1. PlanTyped /\ PoolsSame /\ Ask => PoolsEverywhere
  BY SameEverywhere
<1> QED
  BY <1>1, PTL

\* A step that leaves the plan alone keeps what is known of it, where it leads to a
\* phase that requires no more.
LEMMA PlanKept ==
  ASSUME PlanInv, services' \subseteq services,
         UNCHANGED <<world, avail, plan, ovnRange, wipeChosen, preseed>>,
         phase' \in Planning \cup Forming \cup Creating \cup Over,
         phase' \in Asking => Ask,
         phase' = "parse" => ~Ask,
         phase' \in {"check", "gather", "parse", "clustered", "local"} =>
           phase \in {"check", "gather", "parse", "clustered", "local"},
         phase' = "remote" => phase \in {"local", "remote"},
         phase' \in {"remote", "network", "fan"} =>
           phase \in {"clustered", "local", "remote", "network", "fan"},
         phase' \in Forming \cup Creating => Ask \/ phase \in Forming \cup Creating
  PROVE  PlanInv'
<1>1. Ask' = Ask /\ Everyone' = Everyone
  BY DEF Ask, Everyone
<1>2. PlanTyped'
  BY <1>1 DEF PlanInv, PlanTyped
<1>3. Blank'
  BY <1>1 DEF PlanInv, Blank
<1>4. \A s : LocalSources(s)' = LocalSources(s) /\ CephSources(s)' = CephSources(s)
  BY DEF LocalSources, CephSources
<1>5. DisksTaken'
  BY <1>1, <1>4 DEF PlanInv, DisksTaken
<1>6. phase \in {"clustered", "local"} =>
        Elements(plan[Local].StoragePools) = {} /\ plan[Local].Networks = <<>>
  <2> SUFFICES ASSUME phase \in {"clustered", "local"}
               PROVE  Elements(plan[Local].StoragePools) = {} /\ plan[Local].Networks = <<>>
    OBVIOUS
  <2>1. plan[Local] = NewInitSystem
    BY WorldFacts DEF PlanInv, Blank, PlanTyped
  <2> QED
    BY <2>1, ElementsEmpty DEF NewInitSystem
<1>7. PoolsSame'
  BY <1>1, <1>6 DEF PlanInv, PoolsSame
<1>8. NetworksSame'
  BY <1>1, <1>6 DEF PlanInv, NetworksSame
<1>9. NothingForeign'
  <2>1. Planned' = Planned /\ Foreign' = Foreign
    BY DEF Planned, Foreign
  <2> QED
    BY <1>1, <2>1 DEF PlanInv, NothingForeign
<1>10. PoolsEverywhere'
  <2>1. CASE Ask
    BY <1>1, <1>2, <1>7, <2>1, SameNext
  <2>2. CASE ~Ask
    <3>1. phase' \in Forming \cup Creating => phase \in Forming \cup Creating
      BY <2>2
    <3>2. \A s : PoolEntries(s)' = PoolEntries(s)
      BY DEF PoolEntries
    <3> QED
      BY <1>1, <3>1, <3>2 DEF PlanInv, PoolsEverywhere, Forming
  <2> QED
    BY <2>1, <2>2
<1> QED
  BY <1>2, <1>3, <1>5, <1>7, <1>8, <1>9, <1>10 DEF PlanInv

-----------------------------------------------------------------------------
(* The questions, one by one.                                               *)

LEMMA Singleton ==
  ASSUME NEW S, NEW e \in S
  PROVE  /\ <<e>> \in Seq(S) /\ Append(<<>>, e) = <<e>> /\ Elements(<<e>>) = {e}
         /\ Distinct(<<e>>)
BY DEF Elements, Distinct

LEMMA EntryTypes ==
  /\ \A w \in BOOLEAN, d \in Disks :
       /\ DefaultPendingZFSStoragePool(w, d) \in Entries
       /\ DefaultPendingZFSStoragePool(w, d).name = "local"
       /\ DefaultPendingZFSStoragePool(w, d).source = d
  /\ \A p \in Pools : DefaultPendingStoragePool(p) \in Entries /\ DefaultPendingStoragePool(p).name = p
  /\ \A i \in Ifaces : DefaultPendingOVNNetwork(i) \in Entries /\ DefaultPendingOVNNetwork(i).name = "UPLINK"
  /\ DefaultPendingFanNetwork \in Entries /\ DefaultPendingFanNetwork.name = "lxdfan0"
BY DEF DefaultPendingZFSStoragePool, DefaultPendingStoragePool, DefaultPendingOVNNetwork,
       DefaultPendingFanNetwork, Entries, Pools, Nets

\* What the step of a question has to show besides its own part of the plan.
LEMMA AskedKept ==
  ASSUME PlanInv, UNCHANGED <<world, services, preseed>>, Ask,
         phase' \in Asking \cup Forming, phase' \notin {"check", "gather", "parse", "clustered", "local"},
         plan' \in [Everyone -> InitSystem], avail' \in [Systems -> SUBSET Disks],
         ovnRange' \in RangeHits, wipeChosen' \subseteq Systems \X Disks,
         DisksTaken', PoolsSame', NetworksSame', NothingForeign'
  PROVE  PlanInv'
<1>1. Ask' = Ask /\ Everyone' = Everyone
  BY DEF Ask, Everyone
<1>2. PlanTyped'
  BY <1>1 DEF PlanInv, PlanTyped, Planning, Asking
<1>3. Blank'
  BY DEF Blank
<1> QED
  BY <1>1, <1>2, <1>3, SameNext DEF PlanInv

\* askLocalPool, when disks are selected.
SelectLocal(sel) ==
  /\ phase = "local" /\ phase' = "remote"
  /\ sel \in [LackPool("local") -> Disks] /\ \A s \in LackPool("local") : sel[s] \in avail[s]
  /\ plan' = [s \in Everyone |-> IF s \in LackPool("local") THEN LocalPool(plan[s], s, sel) ELSE plan[s]]
  /\ avail' = [s \in Systems |-> IF s \in LackPool("local") THEN Taken(s, sel[s]) ELSE avail[s]]
  /\ wipeChosen' \in SUBSET {<<s, sel[s]>> : s \in LackPool("local")}
  /\ UNCHANGED <<world, services, ovnRange, preseed>>

LEMMA SelectLocalKept ==
  ASSUME PlanInv, NEW sel, SelectLocal(sel)
  PROVE  PlanInv'
<1> DEFINE asked == LackPool("local")
           wipe == "source_wipe" \in world.ext
           disk(s) == DefaultPendingZFSStoragePool(wipe, sel[s])
<1>1. /\ Ask /\ PlanTyped /\ phase = "local" /\ phase' = "remote" /\ world' = world
      /\ world \in Worlds /\ asked \subseteq Everyone
      /\ sel \in [asked -> Disks] /\ \A s \in asked : sel[s] \in avail[s]
  BY DEF PlanInv, PlanTyped, SelectLocal, Asking, LackPool
<1>2. /\ Everyone' = Everyone /\ Ask' = Ask /\ Everyone \subseteq Systems /\ Local \in Everyone
      /\ \A s : PoolOn(world, "local", s)' = PoolOn(world, "local", s)
  BY <1>1, WorldFacts DEF Everyone, Ask
<1>3. \A s \in Everyone : plan[s] = NewInitSystem
  BY <1>1 DEF PlanInv, Blank
<1>4. ~PoolThere("local") => asked = Everyone /\ "local" \notin Foreign
  BY <1>2 DEF PoolThere, LackPool, HasPool, Foreign, Nets
<1>5. \A s \in asked : disk(s) \in Entries /\ disk(s).name = "local" /\ disk(s).source = sel[s]
  <2>1. wipe \in BOOLEAN
    OBVIOUS
  <2> HIDE DEF wipe
  <2> QED
    BY <1>1, <2>1, EntryTypes
<1> HIDE DEF asked, wipe, disk
<1>6. ASSUME NEW s \in asked
      PROVE  plan'[s] = IF PoolThere("local") THEN [NewInitSystem EXCEPT !.JoinConfig = <<disk(s)>>]
                        ELSE [NewInitSystem EXCEPT !.TargetStoragePools = <<disk(s)>>,
                                !.StoragePools = IF s = Local THEN <<"local">> ELSE <<>>]
  <2>1. plan'[s] = LocalPool(NewInitSystem, s, sel)
    BY <1>1, <1>3 DEF SelectLocal, asked
  <2>2. NewInitSystem.JoinConfig = <<>> /\ NewInitSystem.TargetStoragePools = <<>>
        /\ NewInitSystem.StoragePools = <<>>
    BY DEF NewInitSystem
  <2>3. Append(<<>>, disk(s)) = <<disk(s)>> /\ Append(<<>>, "local") = <<"local">>
    BY Singleton
  <2> QED
    BY <2>1, <2>2, <2>3 DEF LocalPool, disk, wipe
<1>7. \A s \in Everyone \ asked : plan'[s] = NewInitSystem
  BY <1>3 DEF SelectLocal, asked
<1>8. ASSUME NEW s \in Everyone
      PROVE  /\ plan'[s] \in InitSystem
             /\ plan'[s].MicroCephDisks = {}
             /\ plan'[s].Networks = <<>> /\ plan'[s].TargetNetworks = <<>>
             /\ s \in asked /\ ~PoolThere("local") =>
                  plan'[s].TargetStoragePools = <<disk(s)>> /\ plan'[s].JoinConfig = <<>>
             /\ s \in asked /\ PoolThere("local") =>
                  plan'[s].TargetStoragePools = <<>> /\ plan'[s].JoinConfig = <<disk(s)>>
             /\ s \notin asked => plan'[s].TargetStoragePools = <<>> /\ plan'[s].JoinConfig = <<>>
             /\ plan'[s].StoragePools = IF s = Local /\ ~PoolThere("local") THEN <<"local">> ELSE <<>>
  <2>1. CASE s \in asked
    <3>1. <<disk(s)>> \in Seq(Entries) /\ <<"local">> \in Seq(Pools) /\ <<>> \in Seq(Pools)
      BY <1>5, <2>1 DEF Pools
    <3>2. CASE PoolThere("local")
      BY <1>6, <2>1, <3>1, <3>2, NewInitSystemType DEF InitSystem, NewInitSystem
    <3>3. CASE ~PoolThere("local")
      <4>1. plan'[s] = [NewInitSystem EXCEPT !.TargetStoragePools = <<disk(s)>>,
                                !.StoragePools = IF s = Local THEN <<"local">> ELSE <<>>]
        BY <1>6, <2>1, <3>3
      <4>2. (IF s = Local THEN <<"local">> ELSE <<>>) \in Seq(Pools)
        BY <3>1
      <4> QED
        BY <2>1, <3>1, <3>3, <4>1, <4>2, NewInitSystemType DEF InitSystem, NewInitSystem
    <3> QED
      BY <3>2, <3>3
  <2>2. CASE s \notin asked
    BY <1>4, <1>7, <2>2, NewInitSystemType DEF NewInitSystem
  <2> QED
    BY <2>1, <2>2
<1>9. plan' \in [Everyone -> InitSystem] /\ avail' \in [Systems -> SUBSET Disks]
  <2>1. plan' \in [Everyone -> InitSystem]
    BY <1>8 DEF SelectLocal
  <2>2. avail' \in [Systems -> SUBSET Disks]
    BY <1>1 DEF SelectLocal, Taken, PlanTyped
  <2> QED
    BY <2>1, <2>2
<1>10. ovnRange' \in RangeHits /\ wipeChosen' \subseteq Systems \X Disks
  BY <1>1, <1>2 DEF SelectLocal, asked, PlanTyped
<1>11. \A s \in Everyone : /\ CephSources(s)' = {}
                           /\ LocalSources(s)' = IF s \in asked THEN {sel[s]} ELSE {}
  <2> SUFFICES ASSUME NEW s \in Everyone
               PROVE  /\ CephSources(s)' = {}
                      /\ LocalSources(s)' = IF s \in asked THEN {sel[s]} ELSE {}
    OBVIOUS
  <2>1. CephSources(s)' = {}
    BY <1>8 DEF CephSources
  <2>2. Elements(plan'[s].TargetStoragePools) \cup Elements(plan'[s].JoinConfig)
          = IF s \in asked THEN {disk(s)} ELSE {}
    BY <1>5, <1>8, Singleton, ElementsEmpty
  <2> QED
    BY <1>5, <2>1, <2>2 DEF LocalSources
<1>12. DisksTaken'
  <2>1. \A s \in Everyone : /\ avail[s] \subseteq AvailableDisks(world, s)
                            /\ avail'[s] = IF s \in asked THEN avail[s] \ {sel[s]} ELSE avail[s]
    BY <1>1, <1>2 DEF PlanInv, DisksTaken, SelectLocal, Taken, asked
  <2>2. \A s : AvailableDisks(world, s)' = AvailableDisks(world, s)
    BY <1>1
  <2>3. ASSUME NEW s \in Everyone
        PROVE  /\ avail'[s] \subseteq AvailableDisks(world, s)
               /\ LocalSources(s)' \subseteq AvailableDisks(world, s) \ avail'[s]
               /\ CephSources(s)' \subseteq avail'[s]
               /\ \A d, e \in LocalSources(s)' : d = e
    BY <1>1, <1>11, <2>1
  <2> QED
    BY <1>1, <1>2, <2>2, <2>3 DEF DisksTaken
<1>13. PoolsSame'
  <2>1. NamesOf(<<>>) = <<>> /\ \A s \in asked : NamesOf(<<disk(s)>>) = <<"local">>
    BY <1>5 DEF NamesOf
  <2>2. Distinct(<<"local">>) /\ Elements(<<"local">>) = {"local"}
    BY Singleton
  <2>3. Distinct(<<>>)
    BY DEF Distinct
  <2> QED
    BY <1>2, <1>4, <1>8, <2>1, <2>2, <2>3, ElementsEmpty DEF PoolsSame
<1>14. NetworksSame'
  <2>1. NamesOf(<<>>) = <<>> /\ DefaultOVNNetwork # <<>>
    BY DEF NamesOf, DefaultOVNNetwork
  <2> QED
    BY <1>2, <1>8, <2>1 DEF NetworksSame
<1>15. NothingForeign'
  <2>1. Foreign' = Foreign
    BY <1>1 DEF Foreign
  <2>2. Planned' \subseteq IF PoolThere("local") THEN {} ELSE {"local"}
    BY <1>2, <1>8, Singleton, ElementsEmpty DEF Planned
  <2> QED
    BY <1>4, <2>1, <2>2 DEF NothingForeign
<1> QED
  BY <1>1, <1>9, <1>10, <1>12, <1>13, <1>14, <1>15, AskedKept DEF SelectLocal, Asking

\* The pools that askRemotePool plans for each system.
NewRemote(fs) == (IF PoolThere("remote") THEN <<>> ELSE <<"remote">>)
                   \o (IF fs /\ ~PoolThere("remote-fs") THEN <<"remote-fs">> ELSE <<>>)
PendingOf(new) == [i \in 1..Len(new) |-> DefaultPendingStoragePool(new[i])]

LEMMA NewRemoteRight ==
  ASSUME NEW fs
  PROVE  /\ NewRemote(fs) \in Seq(Pools) /\ Distinct(NewRemote(fs))
         /\ Elements(NewRemote(fs)) \subseteq {p \in {"remote", "remote-fs"} : ~PoolThere(p)}
<1> DEFINE a == IF PoolThere("remote") THEN <<>> ELSE <<"remote">>
           b == IF fs /\ ~PoolThere("remote-fs") THEN <<"remote-fs">> ELSE <<>>
<1>1. \A p \in Pools : /\ <<p>> \in Seq(Pools) /\ Elements(<<p>>) = {p} /\ Distinct(<<p>>)
  BY Singleton
<1>2. <<>> \in Seq(Pools) /\ Elements(<<>>) = {} /\ Distinct(<<>>)
  BY ElementsEmpty DEF Distinct
<1>3. "remote" \in Pools /\ "remote-fs" \in Pools
  BY DEF Pools
<1>4. /\ a \in Seq(Pools) /\ Distinct(a)
      /\ Elements(a) \subseteq {p \in {"remote"} : ~PoolThere(p)}
  BY <1>1, <1>2, <1>3
<1>5. /\ b \in Seq(Pools) /\ Distinct(b)
      /\ Elements(b) \subseteq {p \in {"remote-fs"} : ~PoolThere(p)}
  BY <1>1, <1>2, <1>3
<1>6. NewRemote(fs) = a \o b
  BY DEF NewRemote
<1> HIDE DEF a, b
<1>7. Elements(a) \cap Elements(b) = {}
  BY <1>4, <1>5
<1>8. Distinct(a \o b)
  BY <1>4, <1>5, <1>7, DistinctConcat
<1>9. Elements(a \o b) = Elements(a) \cup Elements(b)
  BY <1>4, <1>5, ElementsConcat
<1>10. a \o b \in Seq(Pools)
  BY <1>4, <1>5, ConcatProperties
<1> QED
  BY <1>4, <1>5, <1>6, <1>8, <1>9, <1>10

LEMMA PendingOfRight ==
  ASSUME NEW new \in Seq(Pools)
  PROVE  /\ PendingOf(new) \in Seq(Entries) /\ NamesOf(PendingOf(new)) = new
         /\ {e.name : e \in Elements(PendingOf(new))} = Elements(new)
<1>1. Len(new) \in Nat /\ DOMAIN new = 1..Len(new) /\ \A i \in 1..Len(new) : new[i] \in Pools
  BY LenProperties
<1>2. \A i \in 1..Len(new) : /\ DefaultPendingStoragePool(new[i]) \in Entries
                             /\ DefaultPendingStoragePool(new[i]).name = new[i]
  BY <1>1, EntryTypes
<1>3. PendingOf(new) \in [1..Len(new) -> Entries]
  BY <1>2 DEF PendingOf
<1>4. PendingOf(new) \in Seq(Entries) /\ DOMAIN PendingOf(new) = 1..Len(new)
  BY <1>1, <1>3
<1>5. \A i \in 1..Len(new) : PendingOf(new)[i].name = new[i]
  BY <1>2 DEF PendingOf
<1>6. NamesOf(PendingOf(new)) = [i \in 1..Len(new) |-> new[i]]
  BY <1>4, <1>5 DEF NamesOf
<1>7. [i \in 1..Len(new) |-> new[i]] = new
  BY <1>1
<1>8. Elements(NamesOf(PendingOf(new))) = {e.name : e \in Elements(PendingOf(new))}
  BY <1>4, NamesType
<1> QED
  BY <1>4, <1>6, <1>7, <1>8

\* What a step of askRemotePool makes of the plan.
SelectRemote(disks, fs) ==
  /\ phase = "remote" /\ phase' = AfterDisks
  /\ disks \in [Everyone -> SUBSET [disk : Disks, wipe : BOOLEAN]]
  /\ \A s \in Everyone : \A e \in disks[s] : e.disk \in avail[s]
  /\ plan' \in [Everyone -> InitSystem]
  /\ \A s \in Everyone :
       /\ plan'[s].TargetStoragePools = plan[s].TargetStoragePools \o PendingOf(NewRemote(fs))
       /\ plan'[s].StoragePools = IF s = Local THEN plan[s].StoragePools \o NewRemote(fs)
                                  ELSE plan[s].StoragePools
       /\ plan'[s].JoinConfig \in {plan[s].JoinConfig,
                                   plan[s].JoinConfig \o DefaultCephFSStoragePoolJoinConfig(world)}
       /\ plan'[s].MicroCephDisks = plan[s].MicroCephDisks \cup disks[s]
       /\ plan'[s].Networks = plan[s].Networks /\ plan'[s].TargetNetworks = plan[s].TargetNetworks
  /\ wipeChosen' \subseteq Systems \X Disks
  /\ UNCHANGED <<world, services, avail, ovnRange, preseed>>

LEMMA SelectRemoteKept ==
  ASSUME PlanInv, NEW disks, NEW fs, SelectRemote(disks, fs)
  PROVE  PlanInv'
<1> DEFINE new == NewRemote(fs)
           pend == PendingOf(new)
<1>1. /\ Ask /\ PlanTyped /\ phase = "remote" /\ phase' \in {"network", "validate", "planned"}
      /\ world' = world /\ avail' = avail /\ world \in Worlds
  BY DEF PlanInv, PlanTyped, SelectRemote, Asking, AfterDisks, AfterNetwork
<1>2. /\ Everyone' = Everyone /\ Ask' = Ask /\ Everyone \subseteq Systems /\ Local \in Everyone
      /\ Foreign' = Foreign
  BY <1>1, WorldFacts DEF Everyone, Ask, Foreign
<1>3. /\ new \in Seq(Pools) /\ Distinct(new)
      /\ Elements(new) \subseteq {p \in {"remote", "remote-fs"} : ~PoolThere(p)}
  BY NewRemoteRight
<1>4. /\ pend \in Seq(Entries) /\ NamesOf(pend) = new
      /\ {e.name : e \in Elements(pend)} = Elements(new)
  BY <1>3, PendingOfRight
<1>5. \A s \in Everyone :
        /\ plan[s].TargetStoragePools \in Seq(Entries) /\ plan[s].JoinConfig \in Seq(Entries)
        /\ plan[s].StoragePools \in Seq(Pools)
  BY <1>1, InitSystemFields DEF PlanTyped
<1>6. \A s \in Everyone :
        /\ plan'[s].TargetStoragePools = plan[s].TargetStoragePools \o pend
        /\ plan'[s].StoragePools = IF s = Local THEN plan[s].StoragePools \o new
                                   ELSE plan[s].StoragePools
        /\ plan'[s].Networks = plan[s].Networks /\ plan'[s].TargetNetworks = plan[s].TargetNetworks
  BY DEF SelectRemote
<1> HIDE DEF new, pend
<1>7. PoolsSame'
  <2>1. \A s \in Everyone : NamesOf(plan[s].TargetStoragePools) = plan[Local].StoragePools
    BY <1>1 DEF PlanInv, PoolsSame
  <2>2. ASSUME NEW s \in Everyone
        PROVE  NamesOf(plan'[s].TargetStoragePools) = plan'[Local].StoragePools
    <3> DEFINE old == plan[s].TargetStoragePools
    <3>1. old \in Seq(Entries)
      BY <1>5
    <3> HIDE DEF old
    <3>2. NamesOf(old \o pend) = NamesOf(old) \o NamesOf(pend)
      BY <1>4, <3>1, NamesConcat
    <3>3. plan'[s].TargetStoragePools = old \o pend
      BY <1>6 DEF old
    <3>4. NamesOf(old) = plan[Local].StoragePools
      BY <2>1 DEF old
    <3>5. plan'[Local].StoragePools = plan[Local].StoragePools \o new
      BY <1>2, <1>6
    <3> QED
      BY <1>4, <3>2, <3>3, <3>4, <3>5
  <2>3. Distinct(plan'[Local].StoragePools)
    <3> DEFINE old == plan[Local].StoragePools
    <3>1. old \in Seq(Pools) /\ Distinct(old) /\ Elements(old) \subseteq {"local"}
      BY <1>1, <1>2, <1>5 DEF PlanInv, PoolsSame
    <3>2. plan'[Local].StoragePools = old \o new
      BY <1>2, <1>6
    <3> HIDE DEF old
    <3>3. Elements(old) \cap Elements(new) = {}
      BY <1>3, <3>1
    <3> QED
      BY <1>3, <3>1, <3>2, <3>3, DistinctConcat
  <2> QED
    BY <1>1, <1>2, <2>2, <2>3 DEF PoolsSame
<1>8. NetworksSame'
  BY <1>1, <1>2, <1>6 DEF PlanInv, NetworksSame
<1>9. NothingForeign'
  <2>1. Planned' \subseteq Planned \cup Elements(new)
    <3> DEFINE old == plan[Local].StoragePools
    <3>1. old \in Seq(Pools) /\ plan'[Local].StoragePools = old \o new
          /\ plan'[Local].Networks = plan[Local].Networks
      BY <1>2, <1>5, <1>6
    <3>2. Planned = Elements(old) \cup Elements(plan[Local].Networks)
      BY DEF Planned
    <3> HIDE DEF old
    <3>3. Elements(old \o new) = Elements(old) \cup Elements(new)
      BY <1>3, <3>1, ElementsConcat
    <3> QED
      BY <3>1, <3>2, <3>3 DEF Planned
  <2>2. \A p \in {"remote", "remote-fs"} : ~PoolThere(p) => p \notin Foreign
    BY <1>2 DEF PoolThere, HasPool, Foreign, Nets
  <2> QED
    BY <1>1, <1>2, <1>3, <2>1, <2>2 DEF PlanInv, NothingForeign
<1>10. DisksTaken'
  <2>1. ASSUME NEW s \in Everyone
        PROVE  LocalSources(s)' = LocalSources(s)
    <3> DEFINE T == plan[s].TargetStoragePools
               J == plan[s].JoinConfig
               C == DefaultCephFSStoragePoolJoinConfig(world)
    <3>1. T \in Seq(Entries) /\ J \in Seq(Entries)
      BY <1>5
    <3>2. C \in Seq(Entries) /\ \A e \in Elements(C) : e.name # "local"
      <4>1. "remote-fs" \in Pools
        BY DEF Pools
      <4>2. DefaultPendingStoragePool("remote-fs") \in Entries
            /\ DefaultPendingStoragePool("remote-fs").name = "remote-fs"
        BY <4>1, EntryTypes
      <4>3. <<DefaultPendingStoragePool("remote-fs")>> \in Seq(Entries)
            /\ Elements(<<DefaultPendingStoragePool("remote-fs")>>) = {DefaultPendingStoragePool("remote-fs")}
        BY <4>2, Singleton
      <4> QED
        BY <4>2, <4>3, ElementsEmpty DEF DefaultCephFSStoragePoolJoinConfig
    <3>3. \A e \in Elements(pend) : e.name # "local"
      BY <1>3, <1>4
    <3>4. plan'[s].TargetStoragePools = T \o pend /\ plan'[s].JoinConfig \in {J, J \o C}
      BY <1>6 DEF SelectRemote
    <3>5. LocalSources(s) = {e.source : e \in {x \in Elements(T) \cup Elements(J) : x.name = "local"}}
      BY DEF LocalSources
    <3> HIDE DEF T, J, C
    <3>6. Elements(T \o pend) = Elements(T) \cup Elements(pend)
      BY <1>4, <3>1, ElementsConcat
    <3>7. Elements(J \o C) = Elements(J) \cup Elements(C)
      BY <3>1, <3>2, ElementsConcat
    <3>8. Elements(plan'[s].TargetStoragePools) = Elements(T) \cup Elements(pend)
      BY <3>4, <3>6
    <3>9. Elements(plan'[s].JoinConfig) \in {Elements(J), Elements(J) \cup Elements(C)}
      BY <3>4, <3>7
    <3>10. {x \in Elements(plan'[s].TargetStoragePools) \cup Elements(plan'[s].JoinConfig) : x.name = "local"}
             = {x \in Elements(T) \cup Elements(J) : x.name = "local"}
      BY <3>2, <3>3, <3>8, <3>9
    <3>11. LocalSources(s)' = {e.source : e \in {x \in Elements(plan'[s].TargetStoragePools)
                                                     \cup Elements(plan'[s].JoinConfig) : x.name = "local"}}
      BY DEF LocalSources
    <3> QED
      BY <3>5, <3>10, <3>11
  <2>2. ASSUME NEW s \in Everyone
        PROVE  CephSources(s)' \subseteq avail[s]
    <3>1. plan'[s].MicroCephDisks = plan[s].MicroCephDisks \cup disks[s]
      BY DEF SelectRemote
    <3>2. CephSources(s) \subseteq avail[s]
      BY <1>1 DEF PlanInv, DisksTaken
    <3>3. \A e \in disks[s] : e.disk \in avail[s]
      BY DEF SelectRemote
    <3> QED
      BY <3>1, <3>2, <3>3 DEF CephSources
  <2>3. \A s : AvailableDisks(world, s)' = AvailableDisks(world, s)
    BY <1>1
  <2> QED
    BY <1>1, <1>2, <2>1, <2>2, <2>3 DEF PlanInv, DisksTaken
<1> QED
  BY <1>1, <1>7, <1>8, <1>9, <1>10, AskedKept DEF SelectRemote, Asking, Forming, PlanTyped

LEMMA CephFSJoinType == DefaultCephFSStoragePoolJoinConfig(world) \in Seq(Entries)
<1>1. "remote-fs" \in Pools /\ <<>> \in Seq(Entries)
  BY DEF Pools
<1>2. DefaultPendingStoragePool("remote-fs") \in Entries
  BY <1>1, EntryTypes
<1>3. <<DefaultPendingStoragePool("remote-fs")>> \in Seq(Entries)
  BY <1>2
<1> QED
  BY <1>1, <1>3 DEF DefaultCephFSStoragePoolJoinConfig

LEMMA RemotePoolsFields ==
  ASSUME NEW sys \in InitSystem, NEW s, NEW fs, NEW D \in SUBSET [disk : Disks, wipe : BOOLEAN],
         NEW r, r = RemotePools(sys, s, D, fs)
  PROVE  /\ r \in InitSystem
         /\ r.TargetStoragePools = sys.TargetStoragePools \o PendingOf(NewRemote(fs))
         /\ r.StoragePools = IF s = Local THEN sys.StoragePools \o NewRemote(fs) ELSE sys.StoragePools
         /\ r.JoinConfig \in {sys.JoinConfig, sys.JoinConfig \o DefaultCephFSStoragePoolJoinConfig(world)}
         /\ r.MicroCephDisks = sys.MicroCephDisks \cup D
         /\ r.Networks = sys.Networks /\ r.TargetNetworks = sys.TargetNetworks
<1> DEFINE J == IF PoolThere("remote-fs") /\ s \in LackPool("remote-fs")
                THEN sys.JoinConfig \o DefaultCephFSStoragePoolJoinConfig(world) ELSE sys.JoinConfig
           T == sys.TargetStoragePools \o PendingOf(NewRemote(fs))
           P == IF s = Local THEN sys.StoragePools \o NewRemote(fs) ELSE sys.StoragePools
           M == sys.MicroCephDisks \cup D
<1>1. r = [sys EXCEPT !.JoinConfig = J, !.TargetStoragePools = T,
                                               !.StoragePools = P, !.MicroCephDisks = M]
  BY DEF RemotePools, NewRemote, PendingOf
<1>2. /\ sys.JoinConfig \in Seq(Entries) /\ sys.TargetStoragePools \in Seq(Entries)
      /\ sys.StoragePools \in Seq(Pools)
      /\ sys.MicroCephDisks \subseteq [disk : Disks, wipe : BOOLEAN]
  BY InitSystemFields
<1>3. /\ NewRemote(fs) \in Seq(Pools) /\ PendingOf(NewRemote(fs)) \in Seq(Entries)
      /\ DefaultCephFSStoragePoolJoinConfig(world) \in Seq(Entries)
  BY NewRemoteRight, PendingOfRight, CephFSJoinType
<1>4. J \in Seq(Entries)
  BY <1>2, <1>3, ConcatProperties
<1>5. T \in Seq(Entries)
  BY <1>2, <1>3, ConcatProperties
<1>6. P \in Seq(Pools)
  BY <1>2, <1>3, ConcatProperties
<1>7. M \in SUBSET [disk : Disks, wipe : BOOLEAN]
  BY <1>2
<1>8. J \in {sys.JoinConfig, sys.JoinConfig \o DefaultCephFSStoragePoolJoinConfig(world)}
  OBVIOUS
<1>9. /\ r \in InitSystem /\ r.JoinConfig = J /\ r.TargetStoragePools = T /\ r.StoragePools = P
      /\ r.MicroCephDisks = M /\ r.Networks = sys.Networks /\ r.TargetNetworks = sys.TargetNetworks
  <2> HIDE DEF J, T, P, M
  <2> QED
    BY <1>1, <1>4, <1>5, <1>6, <1>7 DEF InitSystem
<1> QED
  BY <1>8, <1>9

\* Whether to set up CephFS, where it can be asked.
FSAnswers ==
  IF PoolThere("remote-fs") THEN {TRUE}
  ELSE IF "cephfs_create_missing" \in world.ext THEN BOOLEAN ELSE {FALSE}

\* The answers to askRemotePool.
RemoteChosen(sel, wiped, internal, public, fs) ==
  LET disks(s) == {[disk |-> d, wipe |-> <<s, d>> \in wiped] : d \in {e \in Disks : <<s, e>> \in sel}}
      systems == [s \in Everyone |-> RemotePools(plan[s], s, disks(s), fs)]
      done == AskCephNetwork(systems, internal, public)
  IN /\ sel # {} \/ OSDHosts # {} \/ LackPool("remote") = {}
     /\ IF done = Nil THEN Go("failed")
        ELSE /\ plan' = done
             /\ wipeChosen' = wipeChosen \cup wiped
             /\ phase' = AfterDisks
             /\ UNCHANGED <<world, services, avail, ovnRange>>

LEMMA AskRemotePoolKept ==
  ASSUME PlanInv, AskRemotePool, UNCHANGED preseed
  PROVE  PlanInv'
<1>1. PlanTyped /\ Ask /\ world \in Worlds /\ AfterDisks \in {"network", "validate", "planned"}
      /\ phase = "remote"
  BY DEF PlanInv, PlanTyped, AskRemotePool, Asking, AfterDisks, AfterNetwork
<1>2. CASE Go(AfterDisks) \/ Go("failed")
  BY <1>1, <1>2, PlanKept DEF Go, Planning, Asking, Forming, Over
<1>3. CASE ~(Go(AfterDisks) \/ Go("failed"))
  <2>1. \E sel \in SUBSET UNION {{s} \X avail[s] : s \in LackPool("remote")} :
        \E wiped \in SUBSET sel, internal, public \in Subnets, fs \in FSAnswers :
          RemoteChosen(sel, wiped, internal, public, fs)
    BY <1>3, Zenon DEF AskRemotePool, RemoteChosen, FSAnswers
  <2>2. PICK sel, fs :
          /\ sel \in SUBSET UNION {{s} \X avail[s] : s \in LackPool("remote")}
          /\ \E wiped \in SUBSET sel, internal, public \in Subnets :
               RemoteChosen(sel, wiped, internal, public, fs)
    BY <2>1, Zenon
  <2>chosen. PICK wiped \in SUBSET sel, internal \in Subnets, public \in Subnets :
          RemoteChosen(sel, wiped, internal, public, fs)
    BY <2>2, Zenon
  <2> DEFINE of(s) == {[disk |-> d, wipe |-> <<s, d>> \in wiped] : d \in {e \in Disks : <<s, e>> \in sel}}
             disks == [s \in Everyone |-> of(s)]
             systems == [s \in Everyone |-> RemotePools(plan[s], s, of(s), fs)]
  <2>3. /\ AskCephNetwork(systems, internal, public) # Nil
        /\ plan' = AskCephNetwork(systems, internal, public)
        /\ wipeChosen' = wipeChosen \cup wiped /\ phase' = AfterDisks
        /\ UNCHANGED <<world, services, avail, ovnRange>>
    BY <1>3, <2>chosen DEF RemoteChosen
  <2>4. ASSUME NEW s \in Everyone
        PROVE  of(s) \in SUBSET [disk : Disks, wipe : BOOLEAN] /\ \A e \in of(s) : e.disk \in avail[s]
    <3>1. \A d : <<s, d>> \in sel => d \in avail[s]
      BY <2>2
    <3>2. ASSUME NEW e \in of(s)
          PROVE  e \in [disk : Disks, wipe : BOOLEAN] /\ e.disk \in avail[s]
      <4>1. PICK d \in Disks : <<s, d>> \in sel /\ e = [disk |-> d, wipe |-> <<s, d>> \in wiped]
        OBVIOUS
      <4>2. (<<s, d>> \in wiped) \in BOOLEAN
        OBVIOUS
      <4> QED
        BY <3>1, <4>1, <4>2
    <3> QED
      BY <3>2
  <2>5. wiped \subseteq Systems \X Disks
    <3>1. LackPool("remote") \subseteq Systems /\ avail \in [Systems -> SUBSET Disks]
      BY <1>1, WorldFacts DEF LackPool, PlanTyped
    <3>2. ASSUME NEW t \in wiped
          PROVE  t \in Systems \X Disks
      <4>1. t \in sel
        OBVIOUS
      <4>2. PICK s \in LackPool("remote") : t \in {s} \X avail[s]
        BY <2>2, <4>1
      <4> QED
        BY <3>1, <4>2
    <3> QED
      BY <3>2
  <2> HIDE DEF of
  <2>6. ASSUME NEW s \in Everyone
        PROVE  /\ systems[s] \in InitSystem
               /\ systems[s].TargetStoragePools = plan[s].TargetStoragePools \o PendingOf(NewRemote(fs))
               /\ systems[s].StoragePools = IF s = Local THEN plan[s].StoragePools \o NewRemote(fs)
                                            ELSE plan[s].StoragePools
               /\ systems[s].JoinConfig \in {plan[s].JoinConfig,
                    plan[s].JoinConfig \o DefaultCephFSStoragePoolJoinConfig(world)}
               /\ systems[s].MicroCephDisks = plan[s].MicroCephDisks \cup of(s)
               /\ systems[s].Networks = plan[s].Networks
               /\ systems[s].TargetNetworks = plan[s].TargetNetworks
    <3>1. plan[s] \in InitSystem /\ systems[s] = RemotePools(plan[s], s, of(s), fs)
      BY <1>1 DEF PlanTyped
    <3> DEFINE sys == plan[s]
               r == systems[s]
    <3>2. of(s) \in SUBSET [disk : Disks, wipe : BOOLEAN]
      BY <2>4
    <3>3. sys \in InitSystem /\ r = RemotePools(sys, s, of(s), fs)
      BY <3>1
    <3> HIDE DEF sys, r, systems
    <3>4. /\ r \in InitSystem
          /\ r.TargetStoragePools = sys.TargetStoragePools \o PendingOf(NewRemote(fs))
          /\ r.StoragePools = IF s = Local THEN sys.StoragePools \o NewRemote(fs) ELSE sys.StoragePools
          /\ r.JoinConfig \in {sys.JoinConfig, sys.JoinConfig \o DefaultCephFSStoragePoolJoinConfig(world)}
          /\ r.MicroCephDisks = sys.MicroCephDisks \cup of(s)
          /\ r.Networks = sys.Networks /\ r.TargetNetworks = sys.TargetNetworks
      BY <3>2, <3>3, RemotePoolsFields
    <3> QED
      BY <3>4 DEF sys, r
  <2>7. systems \in [Everyone -> InitSystem]
    BY <2>6
  <2> HIDE DEF systems
  <2>8. PICK int \in Subnets \cup {Nil}, pub \in Subnets \cup {Nil} :
          \/ plan' = systems
          \/ plan' = [s \in Everyone |-> [systems[s] EXCEPT !.MicroCephInternalNetwork = int,
                                                            !.MicroCephPublicNetwork = pub]]
    <3> DEFINE int == IF internal # CloudNet THEN internal ELSE Nil
               pub == IF public # CloudNet THEN public ELSE int
    <3>1. int \in Subnets \cup {Nil} /\ pub \in Subnets \cup {Nil}
      OBVIOUS
    <3>2. \/ plan' = systems
          \/ plan' = [s \in Everyone |-> [systems[s] EXCEPT !.MicroCephInternalNetwork = int,
                                                            !.MicroCephPublicNetwork = pub]]
      BY <2>3 DEF AskCephNetwork
    <3> HIDE DEF int, pub
    <3> QED
      BY <3>1, <3>2
  <2>9. ASSUME NEW s \in Everyone
        PROVE  /\ plan'[s] \in InitSystem
               /\ plan'[s].TargetStoragePools = systems[s].TargetStoragePools
               /\ plan'[s].StoragePools = systems[s].StoragePools
               /\ plan'[s].JoinConfig = systems[s].JoinConfig
               /\ plan'[s].MicroCephDisks = systems[s].MicroCephDisks
               /\ plan'[s].Networks = systems[s].Networks
               /\ plan'[s].TargetNetworks = systems[s].TargetNetworks
    <3>1. systems[s] \in InitSystem
      BY <2>7
    <3>2. CASE plan' = systems
      BY <3>1, <3>2
    <3>3. CASE plan' = [m \in Everyone |-> [systems[m] EXCEPT !.MicroCephInternalNetwork = int,
                                                              !.MicroCephPublicNetwork = pub]]
      BY <3>1, <3>3 DEF InitSystem
    <3> QED
      BY <2>8, <3>2, <3>3
  <2>10. plan' \in [Everyone -> InitSystem]
    BY <2>7, <2>8, <2>9
  <2>11. disks \in [Everyone -> SUBSET [disk : Disks, wipe : BOOLEAN]]
         /\ \A s \in Everyone : disks[s] = of(s) /\ \A e \in disks[s] : e.disk \in avail[s]
    BY <2>4
  <2>12. wipeChosen' \subseteq Systems \X Disks
    BY <1>1, <2>3, <2>5 DEF PlanTyped
  <2>13. \A s \in Everyone :
           /\ plan'[s].TargetStoragePools = plan[s].TargetStoragePools \o PendingOf(NewRemote(fs))
           /\ plan'[s].StoragePools = IF s = Local THEN plan[s].StoragePools \o NewRemote(fs)
                                      ELSE plan[s].StoragePools
           /\ plan'[s].JoinConfig \in {plan[s].JoinConfig,
                                       plan[s].JoinConfig \o DefaultCephFSStoragePoolJoinConfig(world)}
           /\ plan'[s].MicroCephDisks = plan[s].MicroCephDisks \cup disks[s]
           /\ plan'[s].Networks = plan[s].Networks /\ plan'[s].TargetNetworks = plan[s].TargetNetworks
    BY <2>6, <2>9, <2>11
  <2> HIDE DEF disks
  <2>14. SelectRemote(disks, fs)
    <3>1. UNCHANGED <<world, services, avail, ovnRange, preseed>> /\ phase' = AfterDisks
      BY <2>3
    <3> QED
      BY <1>1, <2>10, <2>11, <2>12, <2>13, <3>1, Zenon DEF SelectRemote
  <2> QED
    BY <2>14, SelectRemoteKept
<1> QED
  BY <1>2, <1>3

\* A step that plans networks, and nothing else.
SelectNetworks ==
  /\ phase \in {"network", "fan"} /\ phase' = AfterNetwork
  /\ plan' \in [Everyone -> InitSystem]
  /\ \A s \in Everyone :
       /\ plan'[s].TargetStoragePools = plan[s].TargetStoragePools
       /\ plan'[s].StoragePools = plan[s].StoragePools
       /\ plan'[s].MicroCephDisks = plan[s].MicroCephDisks
       /\ \/ plan'[s].JoinConfig = plan[s].JoinConfig
          \/ \E i \in Ifaces :
               plan'[s].JoinConfig = Append(plan[s].JoinConfig, DefaultPendingOVNNetwork(i))
  /\ ovnRange' \in RangeHits
  /\ UNCHANGED <<world, services, avail, wipeChosen, preseed>>

LEMMA SelectNetworksKept ==
  ASSUME PlanInv, SelectNetworks, NetworksSame',
         Elements(plan'[Local].Networks) \cap Foreign = {}
  PROVE  PlanInv'
<1>1. /\ Ask /\ PlanTyped /\ phase' \in {"validate", "planned"}
      /\ world' = world /\ avail' = avail /\ world \in Worlds
  BY DEF PlanInv, PlanTyped, SelectNetworks, Asking, AfterNetwork
<1>2. /\ Everyone' = Everyone /\ Ask' = Ask /\ Everyone \subseteq Systems /\ Local \in Everyone
      /\ Foreign' = Foreign
  BY <1>1, WorldFacts DEF Everyone, Ask, Foreign
<1>3. \A s \in Everyone :
        /\ plan'[s].TargetStoragePools = plan[s].TargetStoragePools
        /\ plan'[s].StoragePools = plan[s].StoragePools
        /\ plan'[s].MicroCephDisks = plan[s].MicroCephDisks
  BY DEF SelectNetworks
<1>4. PoolsSame'
  BY <1>1, <1>2, <1>3 DEF PlanInv, PoolsSame
<1>5. NothingForeign'
  <2>1. Planned' = Elements(plan[Local].StoragePools) \cup Elements(plan'[Local].Networks)
    BY <1>2, <1>3 DEF Planned
  <2>2. Elements(plan[Local].StoragePools) \cap Foreign = {}
    BY <1>1 DEF PlanInv, NothingForeign, Planned
  <2> QED
    BY <1>2, <2>1, <2>2 DEF NothingForeign
<1>6. DisksTaken'
  <2>1. ASSUME NEW s \in Everyone
        PROVE  LocalSources(s)' = LocalSources(s)
    <3> DEFINE J == plan[s].JoinConfig
               K == plan'[s].JoinConfig
               T == plan[s].TargetStoragePools
    <3>1. J \in Seq(Entries)
      BY <1>1, InitSystemFields DEF PlanTyped
    <3>2. {x \in Elements(K) : x.name = "local"} = {x \in Elements(J) : x.name = "local"}
      <4>1. CASE K = J
        BY <4>1
      <4>2. CASE K # J
        <5>1. PICK i \in Ifaces : K = Append(J, DefaultPendingOVNNetwork(i))
          BY <4>2 DEF SelectNetworks
        <5>2. DefaultPendingOVNNetwork(i) \in Entries /\ DefaultPendingOVNNetwork(i).name = "UPLINK"
          BY EntryTypes
        <5> HIDE DEF J, K
        <5>3. Elements(K) = Elements(J) \cup {DefaultPendingOVNNetwork(i)}
          BY <3>1, <5>1, <5>2, ElementsAppend
        <5> QED
          BY <5>2, <5>3
      <4> QED
        BY <4>1, <4>2
    <3>3. LocalSources(s) = {e.source : e \in {x \in Elements(T) \cup Elements(J) : x.name = "local"}}
      BY DEF LocalSources
    <3>4. LocalSources(s)' = {e.source : e \in {x \in Elements(T) \cup Elements(K) : x.name = "local"}}
      BY <1>3 DEF LocalSources
    <3>5. {x \in Elements(T) \cup Elements(K) : x.name = "local"}
            = {x \in Elements(T) \cup Elements(J) : x.name = "local"}
      <4> HIDE DEF T, J, K
      <4> QED
        BY <3>2
    <3> QED
      BY <3>3, <3>4, <3>5
  <2>2. \A s \in Everyone : CephSources(s)' = CephSources(s)
    BY <1>3 DEF CephSources
  <2>3. \A s : AvailableDisks(world, s)' = AvailableDisks(world, s)
    BY <1>1
  <2> QED
    BY <1>1, <1>2, <2>1, <2>2, <2>3 DEF PlanInv, DisksTaken
<1> QED
  BY <1>1, <1>4, <1>5, <1>6, AskedKept DEF SelectNetworks, Asking, Forming, PlanTyped

LEMMA AskOVNNetworkKept ==
  ASSUME PlanInv, AskOVNNetwork, UNCHANGED preseed
  PROVE  PlanInv'
<1>1. /\ Ask /\ PlanTyped /\ phase = "network" /\ phase' = AfterNetwork
      /\ world' = world /\ world \in Worlds /\ ~OVNIneligible /\ LackOVN \subseteq Everyone
  BY DEF PlanInv, PlanTyped, AskOVNNetwork, Asking, LackOVN
<1>2. PICK parent \in [LackOVN -> Ifaces], underlay \in [LackOVN -> Subnets \cup {Nil}], hit \in RangeHits :
        /\ plan' = [s \in Everyone |-> IF s \in LackOVN THEN OVNNetwork(plan[s], s, parent[s], underlay[s])
                                       ELSE plan[s]]
        /\ ovnRange' = hit
  BY DEF AskOVNNetwork, RangeHits
<1>3. /\ Everyone' = Everyone /\ Ask' = Ask /\ Everyone \subseteq Systems /\ Local \in Everyone
  BY <1>1, WorldFacts DEF Everyone, Ask
<1>4. /\ plan[Local].Networks = <<>> /\ \A s \in Everyone : NamesOf(plan[s].TargetNetworks) = <<>>
  BY <1>1 DEF PlanInv, NetworksSame, DefaultOVNNetwork
<1>5. \A i \in Ifaces : /\ DefaultPendingOVNNetwork(i) \in Entries
                        /\ DefaultPendingOVNNetwork(i).name = "UPLINK"
                        /\ DefaultOVNNetworkJoinConfig(i) = DefaultPendingOVNNetwork(i)
  BY EntryTypes DEF DefaultOVNNetworkJoinConfig
<1>6. <<>> \o DefaultOVNNetwork = DefaultOVNNetwork /\ DefaultOVNNetwork \in Seq(Nets)
      /\ Elements(DefaultOVNNetwork) = {"UPLINK", "default"} /\ DefaultOVNNetwork # <<>>
  BY DEF DefaultOVNNetwork, Nets, Elements
<1>7. ASSUME NEW s \in LackOVN
      PROVE  /\ plan'[s] \in InitSystem
             /\ plan'[s].TargetStoragePools = plan[s].TargetStoragePools
             /\ plan'[s].StoragePools = plan[s].StoragePools
             /\ plan'[s].MicroCephDisks = plan[s].MicroCephDisks
             /\ plan'[s].JoinConfig = IF LackOVN # Everyone
                  THEN Append(plan[s].JoinConfig, DefaultPendingOVNNetwork(parent[s]))
                  ELSE plan[s].JoinConfig
             /\ plan'[s].TargetNetworks = IF LackOVN # Everyone THEN plan[s].TargetNetworks
                  ELSE Append(plan[s].TargetNetworks, DefaultPendingOVNNetwork(parent[s]))
             /\ plan'[s].Networks = IF s = Local /\ LackOVN = Everyone THEN DefaultOVNNetwork
                                    ELSE plan[s].Networks
  <2> DEFINE sys == plan[s]
             e == DefaultPendingOVNNetwork(parent[s])
             u == underlay[s]
             J == IF LackOVN # Everyone THEN Append(sys.JoinConfig, e) ELSE sys.JoinConfig
             T == IF LackOVN # Everyone THEN sys.TargetNetworks ELSE Append(sys.TargetNetworks, e)
             N == IF s = Local /\ LackOVN = Everyone THEN DefaultOVNNetwork ELSE sys.Networks
  <2>1. /\ sys \in InitSystem /\ sys.JoinConfig \in Seq(Entries) /\ sys.TargetNetworks \in Seq(Entries)
        /\ sys.Networks \in Seq(Nets)
    BY <1>1, InitSystemFields DEF PlanTyped
  <2>2. e \in Entries /\ u \in Subnets \cup {Nil}
    BY <1>5
  <2>3. plan'[s] = [sys EXCEPT !.JoinConfig = J, !.TargetNetworks = T, !.Networks = N,
                               !.OVNGeneveNetwork = u]
    <3>1. plan'[s] = OVNNetwork(sys, s, parent[s], u)
      BY <1>1, <1>2
    <3>2. s = Local => sys.Networks = <<>>
      BY <1>4
    <3>3. (IF s = Local /\ ~(LackOVN # Everyone) THEN sys.Networks \o DefaultOVNNetwork ELSE sys.Networks) = N
      BY <1>6, <3>2
    <3> QED
      BY <1>5, <3>1, <3>3 DEF OVNNetwork
  <2> HIDE DEF sys, e, u
  <2>4. J \in Seq(Entries) /\ T \in Seq(Entries)
    BY <2>1, <2>2, ElementsAppend
  <2>5. N \in Seq(Nets)
    BY <1>6, <2>1
  <2> HIDE DEF J, T, N
  <2>6. /\ plan'[s] \in InitSystem /\ plan'[s].TargetStoragePools = sys.TargetStoragePools
        /\ plan'[s].StoragePools = sys.StoragePools /\ plan'[s].MicroCephDisks = sys.MicroCephDisks
        /\ plan'[s].JoinConfig = J /\ plan'[s].TargetNetworks = T /\ plan'[s].Networks = N
    BY <2>1, <2>2, <2>3, <2>4, <2>5 DEF InitSystem
  <2> QED
    BY <2>6 DEF J, T, N, sys, e
<1>8. \A s \in Everyone \ LackOVN : plan'[s] = plan[s] /\ plan[s] \in InitSystem
  BY <1>1, <1>2 DEF PlanTyped
<1>9. SelectNetworks
  <2>1. plan' \in [Everyone -> InitSystem]
    BY <1>2, <1>7, <1>8
  <2>2. UNCHANGED <<world, services, avail, wipeChosen, preseed>> /\ ovnRange' \in RangeHits
    BY <1>2 DEF AskOVNNetwork
  <2> QED
    BY <1>1, <1>7, <1>8, <2>1, <2>2 DEF SelectNetworks
<1>10. CASE LackOVN = Everyone
  <2>1. plan'[Local].Networks = DefaultOVNNetwork
    BY <1>3, <1>7, <1>10
  <2>2. ASSUME NEW s \in Everyone
        PROVE  NamesOf(plan'[s].TargetNetworks) = <<"UPLINK">>
    <3> DEFINE T == plan[s].TargetNetworks
               e == DefaultPendingOVNNetwork(parent[s])
    <3>1. T \in Seq(Entries) /\ e \in Entries /\ e.name = "UPLINK"
      BY <1>1, <1>5, <1>10, InitSystemFields DEF PlanTyped
    <3>2. plan'[s].TargetNetworks = Append(T, e) /\ NamesOf(T) = <<>>
      BY <1>4, <1>7, <1>10
    <3> HIDE DEF T, e
    <3>3. NamesOf(Append(T, e)) = Append(NamesOf(T), e.name)
      BY <3>1, NamesAppend
    <3> QED
      BY <3>1, <3>2, <3>3
  <2>3. NetworksSame'
    BY <1>1, <1>3, <2>1, <2>2 DEF NetworksSame, AfterNetwork
  <2>4. {"UPLINK", "default"} \cap Foreign = {}
    BY <1>1, <1>3, <1>10 DEF OVNIneligible, SupportsOVNNetwork, LackOVN, HasOVN, Foreign, Pools
  <2> QED
    BY <1>6, <1>9, <2>1, <2>3, <2>4, SelectNetworksKept
<1>11. CASE LackOVN # Everyone
  <2>1. \A s \in Everyone : plan'[s].Networks = plan[s].Networks
                            /\ plan'[s].TargetNetworks = plan[s].TargetNetworks
    BY <1>7, <1>8, <1>11
  <2>2. NetworksSame'
    BY <1>1, <1>3, <1>4, <1>6, <2>1 DEF NetworksSame
  <2>3. Elements(plan'[Local].Networks) = {}
    BY <1>3, <1>4, <2>1, ElementsEmpty
  <2> QED
    BY <1>9, <2>2, <2>3, SelectNetworksKept
<1> QED
  BY <1>10, <1>11

LEMMA FanFields ==
  ASSUME NEW sys \in InitSystem, NEW s, NEW r, r = FanNetwork(sys, s)
  PROVE  /\ r \in InitSystem /\ r.TargetStoragePools = sys.TargetStoragePools
         /\ r.StoragePools = sys.StoragePools /\ r.MicroCephDisks = sys.MicroCephDisks
         /\ r.JoinConfig = sys.JoinConfig
         /\ r.TargetNetworks = Append(sys.TargetNetworks, DefaultPendingFanNetwork)
         /\ r.Networks = IF s = Local THEN Append(sys.Networks, "lxdfan0") ELSE sys.Networks
<1> DEFINE T == Append(sys.TargetNetworks, DefaultPendingFanNetwork)
           N == IF s = Local THEN Append(sys.Networks, "lxdfan0") ELSE sys.Networks
<1>1. T \in Seq(Entries)
  BY InitSystemFields, EntryTypes, ElementsAppend
<1>2. N \in Seq(Nets)
  <2>1. sys.Networks \in Seq(Nets) /\ "lxdfan0" \in Nets
    BY InitSystemFields DEF Nets
  <2> QED
    BY <2>1, ElementsAppend
<1>3. r = [sys EXCEPT !.TargetNetworks = T, !.Networks = N]
  BY DEF FanNetwork
<1> HIDE DEF T, N
<1>4. /\ r \in InitSystem /\ r.TargetStoragePools = sys.TargetStoragePools
      /\ r.StoragePools = sys.StoragePools /\ r.MicroCephDisks = sys.MicroCephDisks
      /\ r.JoinConfig = sys.JoinConfig /\ r.TargetNetworks = T /\ r.Networks = N
  BY <1>1, <1>2, <1>3 DEF InitSystem
<1> QED
  BY <1>4 DEF T, N

LEMMA AskFanNetworkKept ==
  ASSUME PlanInv, AskFanNetwork, UNCHANGED preseed
  PROVE  PlanInv'
<1>1. /\ Ask /\ PlanTyped /\ phase = "fan" /\ AfterNetwork \in {"validate", "planned"}
      /\ world \in Worlds
  BY DEF PlanInv, PlanTyped, AskFanNetwork, Asking, AfterNetwork
<1>2. CASE Go(AfterNetwork) \/ Go("failed")
  BY <1>1, <1>2, PlanKept DEF Go, Planning, Asking, Forming, Over
<1>3. CASE ~(Go(AfterNetwork) \/ Go("failed"))
  <2>1. /\ \A s \in Everyone : ~HasFAN(world, s)
        /\ plan' = [s \in Everyone |-> FanNetwork(plan[s], s)]
        /\ phase' = AfterNetwork
        /\ UNCHANGED <<world, services, avail, ovnRange, wipeChosen, preseed>>
    BY <1>3 DEF AskFanNetwork
  <2>2. /\ Everyone' = Everyone /\ Ask' = Ask /\ Local \in Everyone
    BY <1>1, <2>1, WorldFacts DEF Everyone, Ask
  <2>3. /\ plan[Local].Networks = <<>> /\ \A s \in Everyone : NamesOf(plan[s].TargetNetworks) = <<>>
    BY <1>1 DEF PlanInv, NetworksSame, DefaultOVNNetwork
  <2>4. ASSUME NEW s \in Everyone
        PROVE  /\ plan'[s] \in InitSystem /\ plan'[s].TargetStoragePools = plan[s].TargetStoragePools
               /\ plan'[s].StoragePools = plan[s].StoragePools
               /\ plan'[s].MicroCephDisks = plan[s].MicroCephDisks
               /\ plan'[s].JoinConfig = plan[s].JoinConfig
               /\ plan'[s].TargetNetworks = Append(plan[s].TargetNetworks, DefaultPendingFanNetwork)
               /\ plan'[s].Networks = IF s = Local THEN Append(plan[s].Networks, "lxdfan0")
                                      ELSE plan[s].Networks
    <3> DEFINE r == plan'[s]
               sys == plan[s]
    <3>1. sys \in InitSystem /\ r = FanNetwork(sys, s)
      BY <1>1, <2>1 DEF PlanTyped
    <3> HIDE DEF r, sys
    <3>2. /\ r \in InitSystem /\ r.TargetStoragePools = sys.TargetStoragePools
          /\ r.StoragePools = sys.StoragePools /\ r.MicroCephDisks = sys.MicroCephDisks
          /\ r.JoinConfig = sys.JoinConfig
          /\ r.TargetNetworks = Append(sys.TargetNetworks, DefaultPendingFanNetwork)
          /\ r.Networks = IF s = Local THEN Append(sys.Networks, "lxdfan0") ELSE sys.Networks
      BY <3>1, FanFields
    <3> QED
      BY <3>2 DEF r, sys
  <2>5. SelectNetworks
    <3>1. plan' \in [Everyone -> InitSystem]
      BY <2>1, <2>4
    <3>2. ovnRange' \in RangeHits
      BY <1>1, <2>1 DEF PlanTyped
    <3> QED
      BY <1>1, <2>1, <2>4, <3>1, <3>2 DEF SelectNetworks
  <2>6. plan'[Local].Networks = <<"lxdfan0">>
    <3>1. plan'[Local].Networks = Append(<<>>, "lxdfan0")
      BY <2>2, <2>3, <2>4
    <3> QED
      BY <3>1, Singleton
  <2>7. ASSUME NEW s \in Everyone
        PROVE  NamesOf(plan'[s].TargetNetworks) = <<"lxdfan0">>
    <3> DEFINE T == plan[s].TargetNetworks
               e == DefaultPendingFanNetwork
    <3>1. T \in Seq(Entries) /\ e \in Entries /\ e.name = "lxdfan0"
      BY <1>1, InitSystemFields, EntryTypes DEF PlanTyped
    <3>2. plan'[s].TargetNetworks = Append(T, e) /\ NamesOf(T) = <<>>
      BY <2>3, <2>4
    <3> HIDE DEF T, e
    <3>3. NamesOf(Append(T, e)) = Append(NamesOf(T), e.name)
      BY <3>1, NamesAppend
    <3> QED
      BY <3>1, <3>2, <3>3
  <2>8. NetworksSame'
    <3>1. <<"lxdfan0">> # DefaultOVNNetwork
      BY DEF DefaultOVNNetwork
    <3> QED
      BY <1>1, <2>1, <2>2, <2>6, <2>7, <3>1 DEF NetworksSame
  <2>9. Elements(plan'[Local].Networks) \cap Foreign = {}
    <3>1. "lxdfan0" \notin Foreign
      BY <2>1, <2>2 DEF HasFAN, Foreign, Pools
    <3>2. Elements(<<"lxdfan0">>) = {"lxdfan0"}
      BY Singleton
    <3> QED
      BY <2>6, <3>1, <3>2
  <2> QED
    BY <2>5, <2>8, <2>9, SelectNetworksKept
<1> QED
  BY <1>2, <1>3

LEMMA PlanNextKept ==
  ASSUME PlanInv, PlanNext, UNCHANGED preseed
  PROVE  PlanInv'
<1>1. PlanTyped /\ world \in Worlds
  BY DEF PlanInv, PlanTyped
<1>2. /\ AfterNetwork \in {"validate", "planned"}
      /\ AfterDisks \in {"network", "validate", "planned"}
      /\ AfterClustered \in {"local", "network", "validate", "planned"}
  BY DEF AfterNetwork, AfterDisks, AfterClustered
<1>3. CASE CheckInitialized
  <2>1. /\ phase = "check" /\ phase' \in {"gather", "parse", "failed"}
        /\ phase' = "gather" => Ask
        /\ phase' = "parse" => ~Ask
        /\ UNCHANGED <<world, services, avail, plan, ovnRange, wipeChosen>>
    BY <1>3 DEF CheckInitialized, Go
  <2> QED
    BY <1>1, <2>1, PlanKept DEF Planning, Asking, Forming, Creating, Over
<1>4. CASE Gather
  BY <1>1, <1>4, PlanKept DEF Gather, Go, Planning, Asking, Forming, Over, PlanTyped
<1>5. CASE AskClustered
  <2>1. services' \subseteq services /\ phase = "clustered" /\ phase' = AfterClustered
        /\ UNCHANGED <<world, avail, plan, ovnRange, wipeChosen>>
    BY <1>5 DEF AskClustered
  <2> QED
    BY <1>1, <1>2, <2>1, PlanKept DEF Planning, Asking, Forming, PlanTyped
<1>6. CASE AskLocalPool
  <2>1. CASE Go("remote")
    BY <1>1, <1>6, <2>1, PlanKept DEF AskLocalPool, Go, Planning, Asking, Forming, PlanTyped
  <2>2. CASE ~Go("remote")
    <3>1. PICK sel \in {f \in [LackPool("local") -> Disks] : \A s \in LackPool("local") : f[s] \in avail[s]},
               wiped \in SUBSET LackPool("local") :
            /\ plan' = [s \in Everyone |-> IF s \in LackPool("local") THEN LocalPool(plan[s], s, sel)
                                           ELSE plan[s]]
            /\ avail' = [s \in Systems |-> IF s \in LackPool("local") THEN Taken(s, sel[s]) ELSE avail[s]]
            /\ wipeChosen' = {<<s, sel[s]>> : s \in wiped}
      BY <1>6, <2>2 DEF AskLocalPool
    <3>2. phase = "local" /\ phase' = "remote" /\ UNCHANGED <<world, services, ovnRange, preseed>>
      BY <1>6, <2>2 DEF AskLocalPool
    <3>3. SelectLocal(sel)
      BY <3>1, <3>2 DEF SelectLocal
    <3> QED
      BY <3>3, SelectLocalKept
  <2> QED
    BY <2>1, <2>2
<1>7. CASE SkipOVN
  BY <1>1, <1>7, PlanKept DEF SkipOVN, Go, Planning, Asking, Forming, PlanTyped
<1>8. CASE AbortOVN
  BY <1>1, <1>8, PlanKept DEF AbortOVN, Go, Planning, Asking, Forming, Over, PlanTyped
<1>9. CASE ValidateSystems
  BY <1>1, <1>9, PlanKept DEF ValidateSystems, Go, Planning, Asking, Forming, Over, PlanTyped
<1> QED
  BY <1>3, <1>4, <1>5, <1>6, <1>7, <1>8, <1>9, AskRemotePoolKept, AskOVNNetworkKept, AskFanNetworkKept
     DEF PlanNext

-----------------------------------------------------------------------------
(* A preseed file.                                                          *)

LEMMA PreseedFields ==
  ASSUME preseed \in Preseeds
  PROVE  /\ preseed.systems \subseteq Systems /\ preseed.uplink \in [Systems -> Ifaces \cup {Nil}]
         /\ preseed.underlay \in [Systems -> Subnets \cup {Nil}]
         /\ preseed.local \in [Systems -> [disk : Disks \cup {Nil}, wipe : BOOLEAN]]
         /\ preseed.ceph \in [Systems -> SUBSET [disk : Disks, wipe : BOOLEAN]]
         /\ preseed.localFilters \in Seq(DiskFilter) /\ preseed.cephFilters \in Seq(DiskFilter)
         /\ preseed.range \in RangeHits
         /\ preseed.internal \in Subnets \cup {Nil} /\ preseed.public \in Subnets \cup {Nil}
<1>1. preseed \in PreseedType
  BY PreseedsAssumption
<1> QED
  BY <1>1 DEF PreseedType

LEMMA ParseNetworksFields ==
  ASSUME preseed \in Preseeds, NEW sys \in InitSystem, NEW s \in Systems,
         NEW r, r = ParseNetworks(sys, s)
  PROVE  /\ r \in InitSystem
         /\ r.TargetStoragePools = sys.TargetStoragePools /\ r.StoragePools = sys.StoragePools
<1>1. IfaceByPeer(s) # Nil => IfaceByPeer(s) \in Ifaces
  BY PreseedFields DEF IfaceByPeer, UplinkInterfaces
<1>2. preseed.underlay[s] \in Subnets \cup {Nil}
  BY PreseedFields
<1>3. /\ sys.JoinConfig \in Seq(Entries) /\ sys.TargetNetworks \in Seq(Entries)
      /\ sys.Networks \in Seq(Nets)
  BY InitSystemFields
<1>4. CASE UsingOVN /\ IfaceByPeer(s) = Nil
  <2>1. r = [sys EXCEPT !.OVNGeneveNetwork = preseed.underlay[s]]
    BY <1>4 DEF ParseNetworks
  <2> QED
    BY <1>2, <2>1 DEF InitSystem
<1>5. CASE UsingOVN /\ IfaceByPeer(s) # Nil
  <2> DEFINE e == DefaultPendingOVNNetwork(IfaceByPeer(s))
             T == Append(sys.TargetNetworks, e)
             J == Append(sys.JoinConfig, e)
             N == IF s = Local THEN sys.Networks \o DefaultOVNNetwork ELSE sys.Networks
             u == preseed.underlay[s]
  <2>1. \/ r = [sys EXCEPT !.TargetNetworks = T, !.Networks = N, !.OVNGeneveNetwork = u]
        \/ r = [sys EXCEPT !.JoinConfig = J, !.OVNGeneveNetwork = u]
    BY <1>5 DEF ParseNetworks, DefaultOVNNetworkJoinConfig
  <2>2. e \in Entries
    BY <1>1, <1>5, EntryTypes
  <2>3. T \in Seq(Entries) /\ J \in Seq(Entries)
    <3> HIDE DEF e
    <3> QED
      BY <1>3, <2>2, ElementsAppend
  <2>4. N \in Seq(Nets)
    <3>1. DefaultOVNNetwork \in Seq(Nets)
      BY DEF DefaultOVNNetwork, Nets
    <3> QED
      BY <1>3, <3>1, ConcatProperties
  <2> HIDE DEF T, J, N, u
  <2>5. u \in Subnets \cup {Nil}
    BY <1>2 DEF u
  <2> QED
    BY <2>1, <2>3, <2>4, <2>5 DEF InitSystem
<1>6. CASE ~UsingOVN
  <2>1. r = FanNetwork(sys, s) \/ r = sys
    BY <1>6 DEF ParseNetworks
  <2> QED
    BY <2>1, FanFields
<1> QED
  BY <1>4, <1>5, <1>6

LEMMA ParseCephNetworksFields ==
  ASSUME preseed \in Preseeds, NEW sys \in InitSystem, NEW r, r = ParseCephNetworks(sys)
  PROVE  /\ r \in InitSystem
         /\ r.TargetStoragePools = sys.TargetStoragePools /\ r.StoragePools = sys.StoragePools
<1> DEFINE a == CephNetOr(preseed.internal)
           b == CephNetOr(preseed.public)
<1>1. a \in Subnets \cup {Nil} /\ b \in Subnets \cup {Nil}
  BY PreseedFields, SystemsAssumption DEF CephNetOr
<1>2. r = sys \/ r = [sys EXCEPT !.MicroCephInternalNetwork = a, !.MicroCephPublicNetwork = b]
  BY DEF ParseCephNetworks
<1> HIDE DEF a, b
<1> QED
  BY <1>1, <1>2 DEF InitSystem

\* The filters for "local" leave a system that has a disk for one of them with a disk.
LEMMA LocalUsedRight ==
  ASSUME preseed \in Preseeds, NEW s, NEW last
  PROVE  /\ LocalUsed(s, last) \in SUBSET (1..Len(preseed.localFilters))
         /\ Len(preseed.localFilters) \in Nat
         /\ LocalUsed(s, last) \subseteq LocalMatching(s)
         /\ LocalUsed(s, last) = {} <=> LocalMatching(s) = {}
<1>1. DOMAIN preseed.localFilters = 1..Len(preseed.localFilters) /\ Len(preseed.localFilters) \in Nat
  BY PreseedFields, LenProperties
<1>2. LocalUsed(s, last) \subseteq LocalMatching(s)
      /\ LocalMatching(s) \in SUBSET (1..Len(preseed.localFilters))
  BY <1>1 DEF LocalUsed, LocalMatching
<1>3. LocalMatching(s) # {} => LocalUsed(s, last) # {}
  <2> SUFFICES ASSUME LocalMatching(s) # {}
               PROVE  LocalUsed(s, last) # {}
    OBVIOUS
  <2>1. LocalMatching(s) \in SUBSET Nat
    BY <1>1, <1>2
  <2>2. \E x \in LocalMatching(s) : \A y \in LocalMatching(s) : x <= y
    BY <2>1, Smallest
  <2> QED
    BY <2>2 DEF LocalUsed
<1> QED
  BY <1>1, <1>2, <1>3

LEMMA LocalDisksRight ==
  ASSUME preseed \in Preseeds, NEW s \in CheckFilterZFS \cup DirectLocal, NEW last
  PROVE  /\ LocalDisks(s, last) \in Seq(Entries)
         /\ {e.name : e \in Elements(LocalDisks(s, last))} =
              IF s \in ZFSMachines \cup DirectLocal THEN {"local"} ELSE {}
<1>1. CASE s \notin CheckFilterZFS
  <2> DEFINE d == DefaultPendingZFSStoragePool(preseed.local[s].wipe, preseed.local[s].disk)
  <2>1. s \in DirectLocal /\ s \in Systems
    BY <1>1, PreseedFields DEF DirectLocal
  <2>2. preseed.local[s].wipe \in BOOLEAN /\ preseed.local[s].disk \in Disks
    BY <2>1, PreseedFields DEF DirectLocal
  <2>3. d \in Entries /\ d.name = "local"
    BY <2>2, EntryTypes
  <2>4. LocalDisks(s, last) = <<d>>
    BY <1>1 DEF LocalDisks
  <2> HIDE DEF d
  <2>5. <<d>> \in Seq(Entries) /\ Elements(<<d>>) = {d}
    BY <2>3, Singleton
  <2> QED
    BY <2>1, <2>3, <2>4, <2>5
<1>2. CASE s \in CheckFilterZFS
  <2> DEFINE U == LocalUsed(s, last)
             used == Listing(U)
             n == Cardinality(U)
             entry(i) == DefaultPendingZFSStoragePool(preseed.localFilters[i].wipe,
                           CHOOSE d \in Unpartitioned(s) \cap preseed.localFilters[i].find : TRUE)
  <2>1. /\ U \in SUBSET (1..Len(preseed.localFilters)) /\ Len(preseed.localFilters) \in Nat
        /\ U \subseteq LocalMatching(s) /\ (U = {} <=> LocalMatching(s) = {})
    BY LocalUsedRight
  <2>2. ASSUME NEW i \in U
        PROVE  entry(i) \in Entries /\ entry(i).name = "local"
    <3>1. preseed.localFilters[i] \in DiskFilter
      BY <2>1, PreseedFields
    <3>2. preseed.localFilters[i].wipe \in BOOLEAN
      BY <3>1 DEF DiskFilter
    <3>3. Unpartitioned(s) \cap preseed.localFilters[i].find # {}
      BY <2>1 DEF LocalMatching
    <3>4. (CHOOSE d \in Unpartitioned(s) \cap preseed.localFilters[i].find : TRUE) \in Disks
      BY <3>3 DEF Unpartitioned
    <3> QED
      BY <3>2, <3>4, EntryTypes
  <2>3. LocalDisks(s, last) = [k \in DOMAIN used |-> entry(used[k])]
    BY <1>2 DEF LocalDisks
  <2> HIDE DEF U, entry
  <2>4. /\ used \in [1..n -> U] /\ n \in Nat
        /\ \A x \in U : \E i \in 1..n : used[i] = x
    BY <2>1, ListingRight
  <2> HIDE DEF used, n
  <2>5. LocalDisks(s, last) \in [1..n -> Entries] /\ DOMAIN LocalDisks(s, last) = 1..n
        /\ \A k \in 1..n : LocalDisks(s, last)[k].name = "local"
    BY <2>2, <2>3, <2>4
  <2>6. {e.name : e \in Elements(LocalDisks(s, last))} = IF 1..n = {} THEN {} ELSE {"local"}
    BY <2>5 DEF Elements
  <2>7. 1..n = {} <=> U = {}
    BY <2>4
  <2>8. s \in ZFSMachines \cup DirectLocal <=> LocalMatching(s) # {}
    BY <1>2 DEF ZFSMachines, DirectLocal, CheckFilterZFS
  <2>9. LocalDisks(s, last) \in Seq(Entries)
    BY <2>4, <2>5
  <2> QED
    BY <2>1, <2>6, <2>7, <2>8, <2>9
<1> QED
  BY <1>1, <1>2

LEMMA CephDisksType ==
  ASSUME preseed \in Preseeds, NEW s \in Systems
  PROVE  CephDisks(s) \in SUBSET [disk : Disks, wipe : BOOLEAN]
<1>1. CASE s \notin CheckFilterCeph
  BY <1>1, PreseedFields DEF CephDisks
<1>2. CASE s \in CheckFilterCeph
  <2>1. ASSUME NEW e \in CephDisks(s)
        PROVE  e \in [disk : Disks, wipe : BOOLEAN]
    <3>1. PICK i \in DOMAIN preseed.cephFilters :
            e \in {[disk |-> d, wipe |-> preseed.cephFilters[i].wipe] : d \in CephMatched(s, i)}
      BY <1>2 DEF CephDisks
    <3>2. preseed.cephFilters[i] \in DiskFilter
      BY PreseedFields
    <3> QED
      BY <3>1, <3>2 DEF DiskFilter, CephMatched, Unpartitioned
  <2> QED
    BY <2>1
<1> QED
  BY <1>1, <1>2

\* The names of a list of entries that is put together.
PoolNames(seq) == {e.name : e \in Elements(seq)}

LEMMA PoolNamesConcat ==
  ASSUME NEW s \in Seq(Entries), NEW t \in Seq(Entries)
  PROVE  s \o t \in Seq(Entries) /\ PoolNames(s \o t) = PoolNames(s) \cup PoolNames(t)
<1>1. Elements(s \o t) = Elements(s) \cup Elements(t)
  BY ElementsConcat
<1>2. s \o t \in Seq(Entries)
  BY ConcatProperties
<1> QED
  BY <1>1, <1>2 DEF PoolNames

\* The pools that a file makes of a new MicroCloud.
AnyCeph == \E m \in Parsed : CephDisks(m) # {}
PreseedFS == (AnyCeph /\ preseed.cephfs) \/ HasPool(world, "remote-fs", Local)
PreseedPools == (IF ZFSMachines \cup DirectLocal # {} THEN {"local"} ELSE {})
                  \cup (IF AnyCeph THEN {"remote"} ELSE {})
                  \cup (IF PreseedFS THEN {"remote-fs"} ELSE {})

\* The list of a system's pools, as ParseDisks has it.
PreseedList(s, last) ==
  LET local == IF s \in CheckFilterZFS \cup DirectLocal THEN LocalDisks(s, last) ELSE <<>>
      remote == IF AnyCeph THEN <<DefaultPendingStoragePool("remote")>> ELSE <<>>
      remoteFS == IF PreseedFS THEN <<DefaultPendingStoragePool("remote-fs")>> ELSE <<>>
  IN (IF s \in DirectLocal THEN local \o remote
      ELSE IF s \in CheckFilterCeph /\ CephDisks(s) # {} THEN remote \o local
      ELSE local \o remote) \o remoteFS

LEMMA PreseedListRight ==
  ASSUME preseed \in Preseeds, world.bootstrap, ~LocalOnSome, NEW s \in Parsed, NEW last
  PROVE  PreseedList(s, last) \in Seq(Entries) /\ PoolNames(PreseedList(s, last)) = PreseedPools
<1> DEFINE local == IF s \in CheckFilterZFS \cup DirectLocal THEN LocalDisks(s, last) ELSE <<>>
           remote == IF AnyCeph THEN <<DefaultPendingStoragePool("remote")>> ELSE <<>>
           remoteFS == IF PreseedFS THEN <<DefaultPendingStoragePool("remote-fs")>> ELSE <<>>
           both == IF s \in DirectLocal THEN local \o remote
                   ELSE IF s \in CheckFilterCeph /\ CephDisks(s) # {} THEN remote \o local
                   ELSE local \o remote
<1>1. <<>> \in Seq(Entries) /\ PoolNames(<<>>) = {}
  BY ElementsEmpty DEF PoolNames
<1>2. \A p \in Pools : <<DefaultPendingStoragePool(p)>> \in Seq(Entries)
                       /\ PoolNames(<<DefaultPendingStoragePool(p)>>) = {p}
  <2> SUFFICES ASSUME NEW p \in Pools
               PROVE  <<DefaultPendingStoragePool(p)>> \in Seq(Entries)
                      /\ PoolNames(<<DefaultPendingStoragePool(p)>>) = {p}
    OBVIOUS
  <2>1. DefaultPendingStoragePool(p) \in Entries /\ DefaultPendingStoragePool(p).name = p
    BY EntryTypes
  <2>2. <<DefaultPendingStoragePool(p)>> \in Seq(Entries)
        /\ Elements(<<DefaultPendingStoragePool(p)>>) = {DefaultPendingStoragePool(p)}
    BY <2>1, Singleton
  <2> QED
    BY <2>1, <2>2 DEF PoolNames
<1>3. local \in Seq(Entries)
      /\ PoolNames(local) = IF ZFSMachines \cup DirectLocal # {} THEN {"local"} ELSE {}
  <2>1. ZFSMachines \cup DirectLocal = {} \/ ZFSMachines \cup DirectLocal = Parsed
    BY DEF LocalOnSome
  <2>2. ZFSMachines \subseteq CheckFilterZFS
    BY DEF ZFSMachines
  <2>3. CASE s \in CheckFilterZFS \cup DirectLocal
    <3>1. LocalDisks(s, last) \in Seq(Entries)
          /\ PoolNames(LocalDisks(s, last)) = IF s \in ZFSMachines \cup DirectLocal THEN {"local"} ELSE {}
      BY <2>3, LocalDisksRight DEF PoolNames
    <3>2. s \in ZFSMachines \cup DirectLocal <=> ZFSMachines \cup DirectLocal # {}
      BY <2>1
    <3> QED
      BY <2>3, <3>1, <3>2
  <2>4. CASE s \notin CheckFilterZFS \cup DirectLocal
    BY <1>1, <2>1, <2>2, <2>4
  <2> QED
    BY <2>3, <2>4
<1>4. remote \in Seq(Entries) /\ PoolNames(remote) = IF AnyCeph THEN {"remote"} ELSE {}
  BY <1>1, <1>2 DEF Pools
<1>5. remoteFS \in Seq(Entries) /\ PoolNames(remoteFS) = IF PreseedFS THEN {"remote-fs"} ELSE {}
  BY <1>1, <1>2 DEF Pools
<1>6. PreseedList(s, last) = both \o remoteFS
  BY DEF PreseedList
<1>7. PreseedPools = PoolNames(local) \cup PoolNames(remote) \cup PoolNames(remoteFS)
  BY <1>3, <1>4, <1>5 DEF PreseedPools
<1> HIDE DEF local, remote, remoteFS
<1>8. both \in Seq(Entries) /\ PoolNames(both) = PoolNames(local) \cup PoolNames(remote)
  BY <1>3, <1>4, PoolNamesConcat
<1> HIDE DEF both
<1>9. both \o remoteFS \in Seq(Entries)
      /\ PoolNames(both \o remoteFS) = PoolNames(both) \cup PoolNames(remoteFS)
  BY <1>5, <1>8, PoolNamesConcat
<1> QED
  BY <1>6, <1>7, <1>8, <1>9

LEMMA ParseDisksFields ==
  ASSUME preseed \in Preseeds, world \in Worlds, ~LocalOnSome, NEW s \in Parsed, NEW last,
         NEW sys \in InitSystem, sys.TargetStoragePools = <<>>, sys.StoragePools = <<>>,
         NEW r, r = ParseDisks(sys, s, last)
  PROVE  /\ r \in InitSystem
         /\ PoolNames(r.TargetStoragePools) = IF world.bootstrap THEN PreseedPools ELSE {}
         /\ Elements(r.StoragePools) = IF world.bootstrap /\ s = Local THEN PreseedPools ELSE {}
<1>1. s \in Systems
  BY WorldFacts DEF Parsed
<1>2. CephDisks(s) \in SUBSET [disk : Disks, wipe : BOOLEAN]
  BY <1>1, CephDisksType
<1>3. CASE world.bootstrap
  <2> DEFINE pools == PreseedList(s, last)
             names == [i \in 1..Len(pools) |-> pools[i].name]
             T == <<>> \o pools
             P == IF s = Local THEN <<>> \o names ELSE <<>>
             M == CephDisks(s)
  <2>1. r = [sys EXCEPT !.TargetStoragePools = T, !.StoragePools = P, !.MicroCephDisks = M]
    BY <1>3 DEF ParseDisks, PreseedList, AnyCeph, PreseedFS
  <2>2. pools \in Seq(Entries) /\ PoolNames(pools) = PreseedPools
    BY <1>3, PreseedListRight
  <2> HIDE DEF pools
  <2>3. Len(pools) \in Nat /\ DOMAIN pools = 1..Len(pools) /\ \A i \in 1..Len(pools) : pools[i] \in Entries
    BY <2>2, LenProperties
  <2>4. PreseedPools \subseteq Pools
    BY DEF PreseedPools, Pools
  <2>5. \A i \in 1..Len(pools) : pools[i].name \in PreseedPools
    BY <2>2, <2>3 DEF PoolNames, Elements
  <2>6. names \in Seq(Pools) /\ DOMAIN names = 1..Len(pools)
    BY <2>3, <2>4, <2>5
  <2>7. Elements(names) = PreseedPools
    BY <2>2, <2>3, <2>6 DEF PoolNames, Elements
  <2> HIDE DEF names
  <2>8. T = pools /\ <<>> \o names = names
    BY <2>2, <2>6
  <2>9. P \in Seq(Pools) /\ Elements(P) = IF s = Local THEN PreseedPools ELSE {}
    <3>1. <<>> \in Seq(Pools)
      OBVIOUS
    <3>2. CASE s = Local
      <4>1. P = names
        BY <2>8, <3>2
      <4> QED
        BY <2>6, <2>7, <3>2, <4>1
    <3>3. CASE s # Local
      BY <3>1, <3>3, ElementsEmpty
    <3> QED
      BY <3>2, <3>3
  <2>10. T \in Seq(Entries) /\ M \in SUBSET [disk : Disks, wipe : BOOLEAN]
    BY <1>2, <2>2, <2>8
  <2> HIDE DEF T, P, M
  <2>11. r \in InitSystem /\ r.TargetStoragePools = T /\ r.StoragePools = P
    BY <2>1, <2>9, <2>10 DEF InitSystem
  <2> QED
    BY <1>3, <2>2, <2>8, <2>9, <2>11
<1>4. CASE ~world.bootstrap
  <2> DEFINE local == IF s \in CheckFilterZFS \cup DirectLocal THEN LocalDisks(s, last) ELSE <<>>
             fs == IF PreseedFS THEN DefaultCephFSStoragePoolJoinConfig(world) ELSE <<>>
             J == (sys.JoinConfig \o local) \o fs
             M == CephDisks(s)
  <2>1. r = [sys EXCEPT !.JoinConfig = J, !.MicroCephDisks = M]
    BY <1>4 DEF ParseDisks, AnyCeph, PreseedFS
  <2>2. local \in Seq(Entries) /\ fs \in Seq(Entries) /\ sys.JoinConfig \in Seq(Entries)
    BY LocalDisksRight, CephFSJoinType, InitSystemFields
  <2>3. J \in Seq(Entries)
    <3> HIDE DEF local, fs
    <3>1. sys.JoinConfig \o local \in Seq(Entries)
      BY <2>2, ConcatProperties
    <3> QED
      BY <2>2, <3>1, ConcatProperties
  <2>4. M \in SUBSET [disk : Disks, wipe : BOOLEAN]
    BY <1>2
  <2> HIDE DEF J, M
  <2>5. r \in InitSystem /\ r.TargetStoragePools = <<>> /\ r.StoragePools = <<>>
    BY <2>1, <2>3, <2>4 DEF InitSystem
  <2> QED
    BY <1>4, <2>5, ElementsEmpty DEF PoolNames
<1> QED
  BY <1>3, <1>4

LEMMA RunPreseedKept ==
  ASSUME PlanInv, RunPreseed
  PROVE  PlanInv'
<1>1. /\ ~Ask /\ PlanTyped /\ phase = "parse" /\ world \in Worlds /\ preseed \in Preseeds
      /\ UNCHANGED <<world, avail, wipeChosen, preseed>> /\ services' \subseteq services
  BY DEF PlanInv, PlanTyped, RunPreseed, Remaining
<1>2. CASE phase' \in {"failed", "crashed"} /\ UNCHANGED <<plan, ovnRange>>
  BY <1>1, <1>2, PlanKept DEF Planning, Asking, Forming, Creating, Over
<1>3. CASE ~(phase' \in {"failed", "crashed"} /\ UNCHANGED <<plan, ovnRange>>)
  <2>1. PICK last \in Parsed :
          /\ ~DisksFail(last)
          /\ plan' = [s \in Everyone |->
                        IF s \in Parsed
                        THEN ParseCephNetworks(ParseDisks(ParseNetworks(plan[s], s), s, last))
                        ELSE plan[s]]
          /\ ovnRange' = IF UplinkPlanned THEN preseed.range ELSE "nothing"
          /\ phase' = "planned"
    BY <1>3 DEF RunPreseed
  <2>2. /\ Everyone' = Everyone /\ Ask' = Ask /\ Everyone \subseteq Systems /\ Local \in Everyone
        /\ Parsed \subseteq Everyone /\ (world.bootstrap => Parsed = Everyone)
    BY <1>1, WorldFacts DEF Everyone, Ask, Parsed
  <2>3. \A s \in Everyone : plan[s] = NewInitSystem
    BY <1>1 DEF PlanInv, Blank
  <2>4. ~LocalOnSome
    BY <2>1 DEF DisksFail
  <2>5. ASSUME NEW s \in Parsed
        PROVE  /\ plan'[s] \in InitSystem
               /\ PoolNames(plan'[s].TargetStoragePools) = IF world.bootstrap THEN PreseedPools ELSE {}
               /\ Elements(plan'[s].StoragePools) = IF world.bootstrap /\ s = Local THEN PreseedPools ELSE {}
    <3> DEFINE a == ParseNetworks(NewInitSystem, s)
               b == ParseDisks(a, s, last)
               c == ParseCephNetworks(b)
    <3>1. plan'[s] = c
      BY <2>1, <2>2, <2>3
    <3>2. s \in Systems /\ NewInitSystem.TargetStoragePools = <<>> /\ NewInitSystem.StoragePools = <<>>
      BY <2>2 DEF NewInitSystem
    <3>3. a \in InitSystem /\ a.TargetStoragePools = <<>> /\ a.StoragePools = <<>>
      BY <1>1, <3>2, NewInitSystemType, ParseNetworksFields
    <3> HIDE DEF a
    <3>4. /\ b \in InitSystem
          /\ PoolNames(b.TargetStoragePools) = IF world.bootstrap THEN PreseedPools ELSE {}
          /\ Elements(b.StoragePools) = IF world.bootstrap /\ s = Local THEN PreseedPools ELSE {}
      BY <1>1, <2>4, <3>3, ParseDisksFields
    <3> HIDE DEF b
    <3>5. /\ c \in InitSystem /\ c.TargetStoragePools = b.TargetStoragePools
          /\ c.StoragePools = b.StoragePools
      BY <1>1, <3>4, ParseCephNetworksFields
    <3> HIDE DEF c
    <3> QED
      BY <3>1, <3>4, <3>5
  <2>6. \A s \in Everyone \ Parsed : plan'[s] = NewInitSystem
    BY <2>1, <2>3
  <2>7. PlanTyped'
    <3>1. plan' \in [Everyone -> InitSystem]
      BY <2>1, <2>5, <2>6, NewInitSystemType
    <3>2. ovnRange' \in RangeHits
      BY <1>1, <2>1, PreseedFields DEF RangeHits
    <3> QED
      BY <1>1, <2>1, <2>2, <3>1, <3>2 DEF PlanTyped, Forming, Asking
  <2>8. PoolsEverywhere'
    <3>1. \A s : PoolEntries(s)' = PoolNames(plan'[s].TargetStoragePools)
      BY DEF PoolEntries, PoolNames
    <3>2. CASE world.bootstrap
      BY <2>2, <2>5, <3>1, <3>2 DEF PoolsEverywhere
    <3>3. CASE ~world.bootstrap
      <4>1. \A s \in Everyone : PoolEntries(s)' = {} /\ Elements(plan'[s].StoragePools) = {}
        <5>1. PoolNames(NewInitSystem.TargetStoragePools) = {} /\ Elements(NewInitSystem.StoragePools) = {}
          BY ElementsEmpty DEF NewInitSystem, PoolNames
        <5>2. \A s \in Everyone \ Parsed : /\ PoolNames(plan'[s].TargetStoragePools) = {}
                                           /\ Elements(plan'[s].StoragePools) = {}
          BY <2>6, <5>1
        <5> QED
          BY <2>5, <3>1, <3>3, <5>2
      <4> QED
        BY <2>2, <4>1 DEF PoolsEverywhere
    <3> QED
      BY <3>2, <3>3
  <2> QED
    BY <1>1, <2>1, <2>2, <2>7, <2>8 DEF PlanInv, Blank, DisksTaken, PoolsSame, NetworksSame, NothingForeign
<1> QED
  BY <1>2, <1>3

LEMMA ToKept ==
  ASSUME PlanInv, NEW p \in Forming \cup Creating \cup Over, To(p),
         p \in Forming \cup Creating => phase \in Forming \cup Creating
  PROVE  PlanInv'
BY PlanKept DEF To, Planning, Asking, Forming, Creating, Over

LEMMA PlanStep == PlanInv /\ [Next]_vars => PlanInv'
<1> SUFFICES ASSUME PlanInv, [Next]_vars
             PROVE  PlanInv'
  OBVIOUS
<1>1. CASE PreseedNext
  BY <1>1, PlanNextKept, RunPreseedKept DEF PreseedNext
<1>2. CASE Form
  BY <1>2, ToKept DEF Form, Forming, Over
<1>3. CASE AddDisks
  BY <1>3, ToKept DEF AddDisks, Forming, Over
<1>4. CASE SetReplication
  BY <1>4, ToKept DEF SetReplication, Forming, Creating, Over
<1>5. ASSUME NEW s \in Systems, CreateTargets(s) PROVE PlanInv'
  BY <1>5, ToKept DEF CreateTargets, Creating, Over
<1>6. ASSUME NEW s \in Systems, CreateVolumes(s) PROVE PlanInv'
  BY <1>6, ToKept DEF CreateVolumes, Creating, Over
<1>7. CASE CreateFinal
  BY <1>7, ToKept DEF CreateFinal, Creating, Over
<1>8. CASE UpdateProfile
  BY <1>8, ToKept DEF UpdateProfile, Creating, Over
<1>9. CASE Revert
  BY <1>9, ToKept DEF Revert, Forming, Creating, Over
<1>10. CASE UNCHANGED vars
  <2>1. UNCHANGED <<phase, world, services, avail, plan, ovnRange, wipeChosen, preseed>>
    BY <1>10 DEF vars, planVars
  <2>2. /\ phase \in Planning \cup Forming \cup Creating \cup Over
        /\ phase \in Asking => Ask
        /\ phase = "parse" => ~Ask
    BY DEF PlanInv, PlanTyped
  <2>3. phase \in {"remote", "network", "fan"} => phase \in {"clustered", "local", "remote", "network", "fan"}
    OBVIOUS
  <2> QED
    BY <2>1, <2>2, <2>3, PlanKept
<1> QED
  BY <1>1, <1>2, <1>3, <1>4, <1>5, <1>6, <1>7, <1>8, <1>9, <1>10 DEF Next, Ended

\* What is known of the plan at each question: the facts that the properties of the
\* plan, and later those of setupCluster, rest on.
THEOREM PlanInductive == Spec => []PlanInv
<1>1. Init => PlanInv
  BY PlanInitial
<1>2. PlanInv /\ [Next]_vars => PlanInv'
  BY PlanStep
<1> QED
  BY <1>1, <1>2, PTL DEF Spec

-----------------------------------------------------------------------------
(* What the plan guarantees, whatever was answered.                         *)

\* A pool is created on the whole cluster exactly if every system has an entry for its
\* part of it: the questions and parsePreseed plan the same pools for all systems.
THEOREM PoolsEverywhereHolds == Spec => []PoolsEverywhere
<1>1. PlanInv => PoolsEverywhere
  BY DEF PlanInv
<1> QED
  BY <1>1, PlanInductive, PTL

LEMMA OneUse == PlanInv => DiskOneUse
<1> SUFFICES ASSUME PlanInv, Ask, NEW s \in Everyone
             PROVE  /\ LocalSources(s) \cap CephSources(s) = {}
                    /\ Cardinality(LocalSources(s)) <= 1
                    /\ "MicroCeph" \in world.installed =>
                         (LocalSources(s) \cup CephSources(s)) \cap world.osds[s] = {}
  BY DEF DiskOneUse
<1>1. /\ avail[s] \subseteq AvailableDisks(world, s)
      /\ LocalSources(s) \subseteq AvailableDisks(world, s) \ avail[s]
      /\ CephSources(s) \subseteq avail[s]
      /\ \A d, e \in LocalSources(s) : d = e
  BY DEF PlanInv, DisksTaken
<1>2. Cardinality(LocalSources(s)) <= 1
  <2>1. CASE LocalSources(s) = {}
    BY <2>1, FS_EmptySet
  <2>2. CASE LocalSources(s) # {}
    <3>1. PICK d : LocalSources(s) = {d}
      BY <1>1, <2>2
    <3> QED
      BY <3>1, FS_Singleton
  <2> QED
    BY <2>1, <2>2
<1>3. ASSUME "MicroCeph" \in world.installed
      PROVE  AvailableDisks(world, s) \cap world.osds[s] = {}
  <2>1. world.osds[s] # {} => ServiceClustered(world, "MicroCeph", s)
    BY <1>3, WorldFacts DEF PlanInv, PlanTyped, ServiceClustered, ExistingServices
  <2> QED
    BY <2>1 DEF AvailableDisks
<1> QED
  BY <1>1, <1>2, <1>3

\* Whatever is answered to askLocalPool and askRemotePool, a disk has at most one use:
\* what the first question takes is deleted from AvailableDisks, which the second one
\* offers, and an OSD is never among them.
THEOREM DiskOneUseHolds == Spec => []DiskOneUse
BY PlanInductive, OneUse, PTL

-----------------------------------------------------------------------------
(* What setupCluster makes of the plan.                                     *)

LEMMA TargetNamesRight ==
  ASSUME PlanInv, NEW s \in Everyone
  PROVE  /\ TargetNames(s) \in Seq(Pools \cup Nets)
         /\ Ask => Distinct(TargetNames(s)) /\ Elements(TargetNames(s)) = Planned \ {"default"}
<1> DEFINE P == NamesOf(plan[s].TargetStoragePools)
           N == NamesOf(plan[s].TargetNetworks)
<1>1. P \in Seq(Pools \cup Nets) /\ N \in Seq(Pools \cup Nets)
  BY InitSystemFields, NamesType DEF PlanInv, PlanTyped
<1>2. TargetNames(s) = P \o N
  BY DEF TargetNames, NamesOf
<1>3. Local \in Everyone /\ plan[Local].StoragePools \in Seq(Pools)
  BY WorldFacts, InitSystemFields DEF PlanInv, PlanTyped
<1>4. Elements(plan[Local].StoragePools) \subseteq Pools
  BY <1>3, ElementsType
<1>5. Ask => /\ P = plan[Local].StoragePools /\ Distinct(P)
             /\ plan[Local].Networks \in {<<>>, DefaultOVNNetwork, <<"lxdfan0">>}
             /\ N = IF plan[Local].Networks = DefaultOVNNetwork THEN <<"UPLINK">> ELSE plan[Local].Networks
  BY DEF PlanInv, PoolsSame, NetworksSame
<1>6. /\ Distinct(<<>>) /\ Elements(<<>>) = {}
      /\ Distinct(<<"UPLINK">>) /\ Elements(<<"UPLINK">>) = {"UPLINK"}
      /\ Distinct(<<"lxdfan0">>) /\ Elements(<<"lxdfan0">>) = {"lxdfan0"}
      /\ Elements(DefaultOVNNetwork) = {"UPLINK", "default"}
  BY DEF Distinct, Elements, DefaultOVNNetwork
<1>7. Ask => /\ Distinct(N) /\ Elements(N) = Elements(plan[Local].Networks) \ {"default"}
             /\ Elements(N) \subseteq Nets
  <2> SUFFICES ASSUME Ask
               PROVE  /\ Distinct(N) /\ Elements(N) = Elements(plan[Local].Networks) \ {"default"}
                      /\ Elements(N) \subseteq Nets
    OBVIOUS
  <2> HIDE DEF N
  <2>1. CASE plan[Local].Networks = DefaultOVNNetwork
    BY <1>5, <1>6, <2>1 DEF Nets
  <2>2. CASE plan[Local].Networks = <<>>
    BY <1>5, <1>6, <2>2 DEF DefaultOVNNetwork
  <2>3. CASE plan[Local].Networks = <<"lxdfan0">>
    <3>1. <<"lxdfan0">> # DefaultOVNNetwork
      BY DEF DefaultOVNNetwork
    <3> QED
      BY <1>5, <1>6, <2>3, <3>1 DEF Nets
  <2> QED
    BY <1>5, <2>1, <2>2, <2>3
<1>8. Planned = Elements(plan[Local].StoragePools) \cup Elements(plan[Local].Networks)
  BY DEF Planned
<1> HIDE DEF P, N
<1>9. P \o N \in Seq(Pools \cup Nets) /\ Elements(P \o N) = Elements(P) \cup Elements(N)
  BY <1>1, ConcatProperties, ElementsConcat
<1>10. ASSUME Ask
       PROVE  Distinct(P \o N) /\ Elements(P \o N) = Planned \ {"default"}
  <2>1. Elements(P) \cap Elements(N) = {} /\ "default" \notin Elements(P)
    BY <1>4, <1>5, <1>7, <1>10 DEF Pools, Nets
  <2>2. Distinct(P \o N)
    BY <1>1, <1>5, <1>7, <1>10, <2>1, DistinctConcat
  <2> QED
    BY <1>5, <1>7, <1>8, <1>9, <1>10, <2>1, <2>2
<1> QED
  BY <1>2, <1>9, <1>10

\* The pools in the order in which CreateFinal takes them.
FinalPools ==
  LET pools == plan[Local].StoragePools
      others == Listing({i \in DOMAIN pools : pools[i] # "remote-fs"})
  IN [i \in DOMAIN others |-> pools[others[i]]]
       \o (IF "remote-fs" \in Elements(pools) THEN <<"remote-fs">> ELSE <<>>)

LEMMA FinalPoolsRight ==
  ASSUME PlanInv
  PROVE  /\ FinalPools \in Seq(Pools)
         /\ Elements(FinalPools) = Elements(plan[Local].StoragePools)
         /\ Distinct(plan[Local].StoragePools) => Distinct(FinalPools)
<1> DEFINE pools == plan[Local].StoragePools
           I == {i \in DOMAIN pools : pools[i] # "remote-fs"}
           others == Listing(I)
           n == Cardinality(I)
           a == [i \in DOMAIN others |-> pools[others[i]]]
           b == IF "remote-fs" \in Elements(pools) THEN <<"remote-fs">> ELSE <<>>
<1>1. pools \in Seq(Pools)
  BY WorldFacts, InitSystemFields DEF PlanInv, PlanTyped
<1>2. FinalPools = a \o b
  BY DEF FinalPools
<1> HIDE DEF pools
<1>3. Len(pools) \in Nat /\ DOMAIN pools = 1..Len(pools) /\ \A i \in 1..Len(pools) : pools[i] \in Pools
  BY <1>1, LenProperties
<1>4. I \in SUBSET (1..Len(pools))
  BY <1>3
<1>5. I \subseteq DOMAIN pools /\ \A i \in DOMAIN pools : i \in I <=> pools[i] # "remote-fs"
  OBVIOUS
<1> HIDE DEF I
<1>6. /\ others \in [1..n -> I] /\ n \in Nat
      /\ \A i, k \in 1..n : i < k => others[i] < others[k]
      /\ \A x \in I : \E i \in 1..n : others[i] = x
  BY <1>3, <1>4, ListingRight
<1> HIDE DEF others, n
<1>7. a \in [1..n -> Pools] /\ \A i \in 1..n : a[i] = pools[others[i]]
  BY <1>3, <1>5, <1>6
<1>8. a \in Seq(Pools) /\ DOMAIN a = 1..n
  BY <1>6, <1>7
<1>9. Elements(a) = Elements(pools) \ {"remote-fs"}
  <2>1. ASSUME NEW e \in Elements(a) PROVE e \in Elements(pools) \ {"remote-fs"}
    <3>1. PICK i \in 1..n : e = pools[others[i]]
      BY <1>7, <1>8, <2>1 DEF Elements
    <3>2. others[i] \in I
      BY <1>6
    <3> QED
      BY <1>5, <3>1, <3>2 DEF Elements
  <2>2. ASSUME NEW e \in Elements(pools) \ {"remote-fs"} PROVE e \in Elements(a)
    <3>1. PICK x \in DOMAIN pools : e = pools[x]
      BY <2>2 DEF Elements
    <3>2. x \in I
      BY <1>5, <2>2, <3>1
    <3>3. PICK i \in 1..n : others[i] = x
      BY <1>6, <3>2
    <3> QED
      BY <1>7, <1>8, <3>1, <3>3 DEF Elements
  <2> QED
    BY <2>1, <2>2
<1>10. ASSUME Distinct(pools) PROVE Distinct(a)
  <2> SUFFICES ASSUME NEW i \in 1..n, NEW k \in 1..n, a[i] = a[k]
               PROVE  i = k
    BY <1>8 DEF Distinct
  <2>1. others[i] \in I /\ others[k] \in I /\ pools[others[i]] = pools[others[k]]
    BY <1>6, <1>7
  <2>2. others[i] = others[k]
    BY <1>5, <1>10, <2>1 DEF Distinct
  <2>3. others[i] \in Nat
    <3>1. others[i] \in 1..Len(pools)
      BY <1>4, <2>1
    <3> QED
      BY <1>3, <3>1
  <2> QED
    BY <1>6, <2>2, <2>3
<1>11. "remote-fs" \in Pools
  BY DEF Pools
<1>12. /\ b \in Seq(Pools) /\ Distinct(b)
       /\ Elements(b) = Elements(pools) \cap {"remote-fs"}
  <2>1. CASE "remote-fs" \in Elements(pools)
    <3>1. b = <<"remote-fs">>
      BY <2>1
    <3> QED
      BY <1>11, <2>1, <3>1, Singleton
  <2>2. CASE "remote-fs" \notin Elements(pools)
    <3>1. b = <<>>
      BY <2>2
    <3> QED
      BY <2>2, <3>1, ElementsEmpty DEF Distinct
  <2> QED
    BY <2>1, <2>2
<1> HIDE DEF a, b
<1>13. a \o b \in Seq(Pools) /\ Elements(a \o b) = Elements(a) \cup Elements(b)
  BY <1>8, <1>12, ConcatProperties, ElementsConcat
<1>14. Distinct(pools) => Distinct(a \o b)
  <2>1. Elements(a) \cap Elements(b) = {}
    BY <1>9, <1>12
  <2> QED
    BY <1>8, <1>10, <1>12, <2>1, DistinctConcat
<1>15. Elements(a \o b) = Elements(pools)
  BY <1>9, <1>12, <1>13
<1> QED
  BY <1>2, <1>13, <1>14, <1>15 DEF pools

LEMMA FinalNamesRight ==
  ASSUME PlanInv
  PROVE  /\ FinalNames \in Seq(Pools \cup Nets) /\ Elements(FinalNames) = Planned
         /\ Ask => /\ Distinct(FinalNames)
                   /\ \A i \in DOMAIN FinalNames : FinalNames[i] = "default" =>
                        \E j \in 1..(i - 1) : FinalNames[j] = "UPLINK"
<1> DEFINE P == FinalPools
           N == plan[Local].Networks
<1>1. FinalNames = P \o N
  BY DEF FinalNames, FinalPools
<1>2. P \in Seq(Pools) /\ Elements(P) = Elements(plan[Local].StoragePools)
      /\ (Distinct(plan[Local].StoragePools) => Distinct(P))
  BY FinalPoolsRight
<1>3. N \in Seq(Nets)
  BY WorldFacts, InitSystemFields DEF PlanInv, PlanTyped
<1>4. Planned = Elements(P) \cup Elements(N)
  BY <1>2 DEF Planned
<1>5. Ask => /\ Distinct(plan[Local].StoragePools)
             /\ N \in {<<>>, DefaultOVNNetwork, <<"lxdfan0">>}
  BY DEF PlanInv, PoolsSame, NetworksSame
<1> HIDE DEF P, N
<1>6. P \in Seq(Pools \cup Nets) /\ N \in Seq(Pools \cup Nets)
  BY <1>2, <1>3
<1>7. P \o N \in Seq(Pools \cup Nets) /\ Elements(P \o N) = Elements(P) \cup Elements(N)
  BY <1>6, ConcatProperties, ElementsConcat
<1>8. Elements(P) \subseteq Pools /\ Elements(N) \subseteq Nets
  BY <1>2, <1>3, ElementsType
<1>9. ASSUME Ask
      PROVE  Distinct(P \o N)
  <2>1. Distinct(N)
    BY <1>5, <1>9 DEF Distinct, DefaultOVNNetwork
  <2>2. Elements(P) \cap Elements(N) = {}
    BY <1>8 DEF Pools, Nets
  <2> QED
    BY <1>2, <1>5, <1>6, <1>9, <2>1, <2>2, DistinctConcat
<1>10. ASSUME Ask, NEW i \in DOMAIN (P \o N), (P \o N)[i] = "default"
       PROVE  \E j \in 1..(i - 1) : (P \o N)[j] = "UPLINK"
  <2>1. /\ Len(P) \in Nat /\ Len(N) \in Nat /\ DOMAIN (P \o N) = 1..(Len(P) + Len(N))
        /\ \A k \in 1..(Len(P) + Len(N)) : (P \o N)[k] = IF k <= Len(P) THEN P[k] ELSE N[k - Len(P)]
        /\ \A k \in 1..Len(P) : P[k] \in Pools
    BY <1>2, <1>3, ConcatProperties, LenProperties
  <2>2. ~(i <= Len(P))
    BY <1>10, <2>1 DEF Pools
  <2>3. N[i - Len(P)] = "default" /\ i - Len(P) \in 1..Len(N)
    BY <1>10, <2>1, <2>2
  <2>4. N = DefaultOVNNetwork
    BY <1>5, <1>10, <2>3
  <2>5. i - Len(P) = 2 /\ N[1] = "UPLINK"
    BY <2>3, <2>4 DEF DefaultOVNNetwork
  <2>6. (P \o N)[i - 1] = "UPLINK" /\ i - 1 \in 1..(i - 1)
    BY <2>1, <2>5
  <2> QED
    BY <2>6
<1> QED
  BY <1>1, <1>4, <1>7, <1>9, <1>10

\* The steps of the questions and of a preseed file leave what setupCluster makes alone.
LEMMA PlanningStep ==
  ASSUME PlanInv, PreseedNext
  PROVE  /\ phase \in Planning /\ phase' \in Planning \cup {"planned", "failed", "crashed"}
         /\ world' = world /\ phase' \notin Creating \cup {"replicate", "revert"}
<1>1. phase \in Planning
  BY DEF PreseedNext, PlanNext, CheckInitialized, Gather, AskClustered, AskLocalPool, AskRemotePool,
         SkipOVN, AbortOVN, AskOVNNetwork, AskFanNetwork, ValidateSystems, RunPreseed, Planning, Asking
<1>2. /\ AfterNetwork \in {"validate", "planned"}
      /\ AfterDisks \in {"network", "validate", "planned"}
      /\ AfterClustered \in {"local", "network", "validate", "planned"}
  BY DEF AfterNetwork, AfterDisks, AfterClustered
<1>3. ASSUME AskRemotePool
      PROVE  phase' \in {AfterDisks, "failed"} /\ world' = world
  BY <1>3 DEF AskRemotePool, Go
<1>4. phase' \in {"gather", "parse", "failed", "clustered", "local", "remote", "network", "fan", "validate",
                  "planned", "crashed"} /\ world' = world
  <2>1. CASE CheckInitialized
    BY <2>1 DEF CheckInitialized, Go
  <2>2. CASE Gather \/ AskClustered
    BY <1>2, <2>2 DEF Gather, AskClustered, Go
  <2>3. CASE AskLocalPool
    BY <2>3 DEF AskLocalPool, Go
  <2>4. CASE SkipOVN \/ AbortOVN \/ AskOVNNetwork
    BY <1>2, <2>4 DEF SkipOVN, AbortOVN, AskOVNNetwork, Go
  <2>5. CASE AskFanNetwork \/ ValidateSystems
    BY <1>2, <2>5 DEF AskFanNetwork, ValidateSystems, Go
  <2>6. CASE RunPreseed
    BY <2>6 DEF RunPreseed
  <2> QED
    BY <1>2, <1>3, <2>1, <2>2, <2>3, <2>4, <2>5, <2>6 DEF PreseedNext, PlanNext
<1> QED
  BY <1>1, <1>4 DEF Planning, Asking, Creating

\* The steps of setupCluster leave the plan alone.
LEMMA ToSame ==
  ASSUME NEW p, To(p)
  PROVE  /\ phase' = p /\ Everyone' = Everyone /\ Ask' = Ask /\ services' = services
         /\ world' = world /\ Planned' = Planned /\ Foreign' = Foreign /\ FinalNames' = FinalNames
         /\ \A s : TargetNames(s)' = TargetNames(s) /\ LocalHere(s)' = LocalHere(s)
         /\ DisksOf(inCeph)' = DisksOf(inCeph)
<1>1. phase' = p /\ world' = world /\ plan' = plan /\ services' = services
  BY DEF To
<1>2. Everyone' = Everyone /\ Ask' = Ask /\ Planned' = Planned /\ Foreign' = Foreign
  BY <1>1 DEF Everyone, Ask, Planned, Foreign
<1>3. FinalNames' = FinalNames
  BY <1>1 DEF FinalNames
<1>4. \A s : TargetNames(s)' = TargetNames(s) /\ LocalHere(s)' = LocalHere(s)
  BY <1>1 DEF TargetNames, LocalHere
<1>5. inCeph' = inCeph
  BY DEF To
<1>6. \A S : DisksOf(S)' = DisksOf(S)
  BY <1>1 DEF DisksOf
<1>7. DisksOf(inCeph)' = DisksOf(inCeph)
  BY <1>1, <1>5 DEF DisksOf
<1> QED
  BY <1>1, <1>2, <1>3, <1>4, <1>7

SetupInv == SetupTyped /\ NothingYet /\ Defined /\ BuiltSoFar /\ RevertLeaves

LEMMA OSDCount ==
  ASSUME osds \subseteq Systems \X Disks
  PROVE  Cardinality(osds) \in Nat
<1>1. IsFiniteSet(Systems \X Disks)
  BY SystemsAssumption, FS_Product
<1>2. IsFiniteSet(osds)
  BY <1>1, FS_Subset
<1> QED
  BY <1>2, FS_CardinalityType

LEMMA SetupInitial == Init => SetupInv
<1> SUFFICES ASSUME Init
             PROVE  SetupInv
  OBVIOUS
<1>1. /\ phase = "check" /\ world \in Worlds /\ made = Foreign /\ pending = {} /\ vols = {} /\ conf = {}
      /\ left = {} /\ hooked = FALSE
      /\ profile = [root |-> IF "remote" \in made THEN "remote"
                             ELSE IF "local" \in made THEN "local" ELSE Nil,
                    eth0 |-> IF "default" \in made THEN "default"
                             ELSE IF "lxdfan0" \in made THEN "lxdfan0" ELSE Nil]
      /\ osds = UNION {{s} \X world.osds[s] : s \in Systems}
      /\ sizes \in Sizes /\ inCeph \in CephViews
  BY DEF Init, PreseedInit, PlanInit
<1>2. Foreign \subseteq Pools \cup Nets
  BY DEF Foreign
<1>3. profile \in [root : Pools \cup {Nil}, eth0 : Nets \cup {Nil}]
      /\ {profile.root, profile.eth0} \subseteq made \cup {Nil}
  BY <1>1 DEF Pools, Nets
<1>4. osds \subseteq Systems \X Disks
  <2>1. world.osds \in [Systems -> SUBSET Disks]
    BY <1>1, WorldFacts
  <2> QED
    BY <1>1, <2>1
<1>5. SetupTyped
  <2>1. inCeph \subseteq Everyone
    BY <1>1, WorldFacts DEF CephViews
  <2> QED
    BY <1>1, <1>2, <1>3, <1>4, <2>1, SetupAssumption DEF SetupTyped
<1>6. NothingYet
  BY <1>1 DEF NothingYet
<1>7. Defined
  BY <1>1 DEF Defined
<1>8. BuiltSoFar
  BY <1>1, <1>3 DEF BuiltSoFar, Creating
<1>9. RevertLeaves
  BY <1>1 DEF RevertLeaves
<1> QED
  BY <1>5, <1>6, <1>7, <1>8, <1>9 DEF SetupInv

LEMMA PlanningKeeps ==
  ASSUME PlanInv, SetupInv, PreseedNext, UNCHANGED setupVars
  PROVE  SetupInv'
<1>1. /\ phase \in Planning /\ phase' \in Planning \cup {"planned", "failed", "crashed"}
      /\ world' = world /\ phase' \notin Creating \cup {"replicate", "revert"}
  BY PlanningStep
<1>2. UNCHANGED <<made, pending, profile, vols, conf, osds, sizes, left, hooked, inCeph, undeleted>>
  BY DEF setupVars
<1>3. Everyone' = Everyone /\ Ask' = Ask /\ Foreign' = Foreign
  BY <1>1 DEF Everyone, Ask, Foreign
<1>4. ~hooked /\ pending = {} /\ made = Foreign
  BY <1>1 DEF SetupInv, NothingYet
<1>5. SetupTyped'
  BY <1>2, <1>3 DEF SetupInv, SetupTyped
<1>6. NothingYet'
  BY <1>2, <1>3, <1>4 DEF NothingYet
<1>7. Defined'
  BY <1>1 DEF Defined, Creating
<1>8. BuiltSoFar'
  <2>1. {profile.root, profile.eth0} \subseteq made \cup {Nil}
    BY <1>1 DEF SetupInv, BuiltSoFar, Planning, Asking
  <2> QED
    BY <1>1, <1>2, <2>1 DEF BuiltSoFar, Creating
<1>9. RevertLeaves'
  BY <1>2, <1>3, <1>4 DEF RevertLeaves
<1> QED
  BY <1>5, <1>6, <1>7, <1>8, <1>9 DEF SetupInv

LEMMA DisksOfType ==
  ASSUME PlanInv, NEW S \in SUBSET Everyone
  PROVE  DisksOf(S) \subseteq Systems \X Disks
<1>1. ASSUME NEW s \in Everyone
      PROVE  {s} \X {e.disk : e \in plan[s].MicroCephDisks} \subseteq Systems \X Disks
  <2>1. plan[s].MicroCephDisks \subseteq [disk : Disks, wipe : BOOLEAN] /\ s \in Systems
    BY InitSystemFields, WorldFacts DEF PlanInv, PlanTyped
  <2> QED
    BY <2>1
<1> QED
  BY <1>1 DEF DisksOf

LEMMA FormKeeps ==
  ASSUME PlanInv, SetupInv, Form
  PROVE  SetupInv'
<1>1. PICK p \in {"disks", "failed"} : To(p)
  BY DEF Form
<1>2. /\ phase = "planned" /\ UNCHANGED <<made, pending, profile, vols, conf, sizes, left, hooked, inCeph, undeleted>>
  BY DEF Form, To
<1>3. /\ phase' = p /\ Everyone' = Everyone /\ Ask' = Ask /\ world' = world /\ Foreign' = Foreign
  BY <1>1, ToSame
<1>4. ~hooked /\ pending = {} /\ made = Foreign
  BY <1>2 DEF SetupInv, NothingYet, Forming
<1>5. SetupTyped'
  <2>1. osds \subseteq Systems \X Disks
    BY DEF SetupInv, SetupTyped
  <2>2. \A members : DisksOf(Everyone \ members) \subseteq Systems \X Disks
    BY DisksOfType
  <2>3. osds' \subseteq Systems \X Disks
    BY <2>1, <2>2 DEF Form
  <2> QED
    BY <1>2, <1>3, <2>3 DEF SetupInv, SetupTyped
<1>6. NothingYet'
  BY <1>2, <1>3, <1>4 DEF NothingYet
<1>7. Defined'
  BY <1>3 DEF Defined
<1>8. BuiltSoFar'
  <2>1. {profile.root, profile.eth0} \subseteq made \cup {Nil}
    BY <1>2 DEF SetupInv, BuiltSoFar
  <2> QED
    BY <1>2, <1>3, <2>1 DEF BuiltSoFar, Creating
<1>9. RevertLeaves'
  BY <1>2, <1>3, <1>4 DEF RevertLeaves
<1> QED
  BY <1>5, <1>6, <1>7, <1>8, <1>9 DEF SetupInv

LEMMA AddDisksKeeps ==
  ASSUME PlanInv, SetupInv, AddDisks
  PROVE  SetupInv'
<1> DEFINE disks == IF "MicroCeph" \in services THEN DisksOf(inCeph) ELSE {}
<1>1. PICK added \in SUBSET disks :
        osds' = osds \cup added /\ To(IF added = disks THEN "replicate" ELSE "revert")
  BY DEF AddDisks
<1>2. /\ phase = "disks" /\ UNCHANGED <<made, pending, profile, vols, conf, sizes, left, hooked, inCeph, undeleted>>
  BY DEF AddDisks, To
<1>3. /\ phase' = IF added = disks THEN "replicate" ELSE "revert"
      /\ Everyone' = Everyone /\ Ask' = Ask /\ world' = world /\ Foreign' = Foreign
      /\ services' = services /\ DisksOf(inCeph)' = DisksOf(inCeph)
  BY <1>1, ToSame
<1>4. ~hooked /\ pending = {} /\ made = Foreign
  BY <1>2 DEF SetupInv, NothingYet, Forming
<1>5. SetupTyped'
  <2>1. osds \subseteq Systems \X Disks
    BY DEF SetupInv, SetupTyped
  <2>2. DisksOf(inCeph) \subseteq Systems \X Disks
    BY DisksOfType DEF SetupInv, SetupTyped
  <2>3. osds' \subseteq Systems \X Disks
    BY <1>1, <2>1, <2>2
  <2> QED
    BY <1>2, <1>3, <2>3 DEF SetupInv, SetupTyped
<1>6. NothingYet'
  BY <1>2, <1>3, <1>4 DEF NothingYet
<1>7. Defined'
  BY <1>3 DEF Defined
<1>8. BuiltSoFar'
  <2>1. {profile.root, profile.eth0} \subseteq made \cup {Nil}
    BY <1>2 DEF SetupInv, BuiltSoFar
  <2>2. phase' = "replicate" /\ "MicroCeph" \in services => DisksOf(inCeph) \subseteq osds'
    BY <1>1, <1>3
  <2> QED
    BY <1>2, <1>3, <2>1, <2>2 DEF BuiltSoFar, Creating
<1>9. RevertLeaves'
  BY <1>2, <1>3, <1>4 DEF RevertLeaves
<1> QED
  BY <1>5, <1>6, <1>7, <1>8, <1>9 DEF SetupInv

LEMMA SetReplicationKeeps ==
  ASSUME PlanInv, SetupInv, SetReplication
  PROVE  SetupInv'
<1> DEFINE n == Cardinality(osds)
           size == IF n > RecommendedOSDHosts THEN RecommendedOSDHosts ELSE n
           toUpdate == {p \in DefaultOSDPools : sizes[p] > 0 /\ sizes[p] < size}
           updated == IF "MicroCeph" \in services
                      THEN [p \in OSDPools |-> IF p \in toUpdate THEN size ELSE sizes[p]]
                      ELSE sizes
<1>1. \/ To("targets") /\ sizes' = updated /\ left' = Everyone /\ hooked' = TRUE
      \/ To("revert") /\ UNCHANGED <<sizes, left, hooked>>
  BY DEF SetReplication
<1>2. /\ phase = "replicate" /\ UNCHANGED <<made, pending, profile, vols, conf, osds, inCeph>>
  BY DEF SetReplication, To
<1>3. PICK p \in {"targets", "revert"} : To(p)
  BY <1>1
<1>4. /\ phase' = p /\ Everyone' = Everyone /\ Ask' = Ask /\ world' = world /\ Foreign' = Foreign
      /\ services' = services /\ DisksOf(inCeph)' = DisksOf(inCeph)
  BY <1>3, ToSame
<1>5. ~hooked /\ pending = {} /\ made = Foreign
  BY <1>2 DEF SetupInv, NothingYet, Forming
<1>6. n \in Nat /\ size \in Nat /\ sizes \in [OSDPools -> Nat]
  BY OSDCount, SetupAssumption DEF SetupInv, SetupTyped
<1>7. \/ phase' = "targets" /\ sizes' = updated /\ left' = Everyone
      \/ phase' = "revert" /\ sizes' = sizes /\ left' = left /\ hooked' = hooked
  BY <1>1 DEF To
<1>8. SetupTyped'
  <2>1. updated \in [OSDPools -> Nat]
    <3> HIDE DEF size, toUpdate
    <3> QED
      BY <1>6
  <2> HIDE DEF updated
  <2>2. sizes' \in [OSDPools -> Nat] /\ left' \subseteq Everyone
    BY <1>7, <2>1 DEF SetupInv, SetupTyped
  <2> QED
    BY <1>2, <1>4, <2>2 DEF SetupInv, SetupTyped
<1>9. NothingYet'
  BY <1>2, <1>4, <1>5 DEF NothingYet, Planning, Asking, Forming
<1>10. Defined'
  BY <1>2, <1>4, <1>5, <1>7 DEF Defined
<1>11. BuiltSoFar'
  <2>1. {profile.root, profile.eth0} \subseteq made \cup {Nil}
        /\ ("MicroCeph" \in services => DisksOf(inCeph) \subseteq osds)
    BY <1>2 DEF SetupInv, BuiltSoFar
  <2>2. ASSUME phase' = "targets", "MicroCeph" \in services, NEW q \in DefaultOSDPools, sizes'[q] > 0
        PROVE  sizes'[q] >= (IF n < RecommendedOSDHosts THEN n ELSE RecommendedOSDHosts)
    <3>1. q \in OSDPools /\ RecommendedOSDHosts \in Nat
      BY SetupAssumption
    <3>2. sizes'[q] = IF q \in toUpdate THEN size ELSE sizes[q]
      BY <1>4, <1>7, <2>2, <3>1
    <3>3. size = IF n < RecommendedOSDHosts THEN n ELSE RecommendedOSDHosts
      BY <1>6, <3>1
    <3>4. sizes[q] \in Nat
      BY <1>6, <3>1
    <3>5. CASE q \in toUpdate
      BY <1>6, <3>2, <3>3, <3>5
    <3>6. CASE q \notin toUpdate
      BY <1>6, <2>2, <3>2, <3>3, <3>4, <3>6
    <3> QED
      BY <3>5, <3>6
  <2> QED
    BY <1>2, <1>4, <2>1, <2>2 DEF BuiltSoFar, Creating
<1>12. RevertLeaves'
  BY <1>2, <1>4, <1>5 DEF RevertLeaves
<1> QED
  BY <1>8, <1>9, <1>10, <1>11, <1>12 DEF SetupInv

\* The steps after the reverter knows of what is created: BuiltSoFar says more for the
\* next phase.
LEMMA CreateTargetsKeeps ==
  ASSUME PlanInv, SetupInv, NEW s \in Systems, CreateTargets(s)
  PROVE  SetupInv'
<1> DEFINE names == TargetNames(s)
<1>1. PICK k \in 0..Len(names) :
        /\ pending' = pending \cup {<<names[i], s>> : i \in 1..k}
        /\ left' = left \ {s}
        /\ To(IF k < Len(names) THEN "revert" ELSE IF left = {s} THEN "final" ELSE phase)
  BY DEF CreateTargets
<1>2. /\ phase = "targets" /\ s \in left /\ UNCHANGED <<made, profile, vols, conf, osds, sizes, hooked, inCeph, undeleted>>
  BY DEF CreateTargets, To
<1>3. /\ phase' = IF k < Len(names) THEN "revert" ELSE IF left = {s} THEN "final" ELSE "targets"
      /\ Everyone' = Everyone /\ Ask' = Ask /\ world' = world /\ Foreign' = Foreign
      /\ services' = services /\ DisksOf(inCeph)' = DisksOf(inCeph)
      /\ \A m : TargetNames(m)' = TargetNames(m)
  BY <1>1, <1>2, ToSame
<1>4. made = Foreign /\ s \in Everyone /\ left \subseteq Everyone
  BY <1>2 DEF SetupInv, NothingYet, SetupTyped
<1>5. /\ names \in Seq(Pools \cup Nets) /\ Len(names) \in Nat /\ DOMAIN names = 1..Len(names)
      /\ \A i \in 1..Len(names) : names[i] \in Pools \cup Nets
  BY <1>4, TargetNamesRight, LenProperties
<1> HIDE DEF names
<1>6. SetupTyped'
  <2>1. pending' \subseteq (Pools \cup Nets) \X Systems
    BY <1>1, <1>5 DEF SetupInv, SetupTyped
  <2> QED
    BY <1>1, <1>2, <1>3, <2>1 DEF SetupInv, SetupTyped
<1>7. NothingYet'
  BY <1>2, <1>3, <1>4 DEF NothingYet, Planning, Asking, Forming
<1>8. Defined'
  <2>1. ASSUME phase' = "targets", NEW m \in left', NEW n \in Pools \cup Nets
        PROVE  <<n, m>> \notin pending'
    <3>1. m \in left /\ m # s
      BY <1>1, <2>1
    <3>2. <<n, m>> \notin pending
      BY <1>2, <3>1 DEF SetupInv, Defined
    <3> QED
      BY <1>1, <3>1, <3>2
  <2>2. ASSUME phase' \in {"targets", "final"},
               NEW m \in Everyone \ (IF phase' = "targets" THEN left' ELSE {}),
               NEW i \in DOMAIN TargetNames(m)
        PROVE  <<TargetNames(m)[i], m>> \in pending'
    <3>1. k = Len(names) /\ (phase' = "final" => left = {s})
      <4>1. ~(k < Len(names)) /\ (phase' = "final" => left = {s})
        BY <1>3, <2>2
      <4>2. Len(names) \in Nat /\ k \in 0..Len(names)
        BY <1>5
      <4>3. k = Len(names)
        BY <4>1, <4>2
      <4> QED
        BY <4>1, <4>3
    <3>2. CASE m = s
      BY <1>1, <1>5, <2>2, <3>1, <3>2 DEF names
    <3>3. CASE m # s
      <4>1. m \in Everyone \ left
        BY <1>1, <2>2, <3>1, <3>3
      <4>2. <<TargetNames(m)[i], m>> \in pending
        BY <1>2, <2>2, <4>1 DEF SetupInv, Defined
      <4> QED
        BY <1>1, <4>2
    <3> QED
      BY <3>2, <3>3
  <2> QED
    BY <1>3, <2>1, <2>2 DEF Defined
<1>9. BuiltSoFar'
  BY <1>2, <1>3 DEF SetupInv, BuiltSoFar, Creating
<1>10. RevertLeaves'
  BY <1>2, <1>3, <1>4 DEF RevertLeaves
<1> QED
  BY <1>6, <1>7, <1>8, <1>9, <1>10 DEF SetupInv

LEMMA CreateFinalKeeps ==
  ASSUME PlanInv, SetupInv, CreateFinal
  PROVE  SetupInv'
<1> DEFINE names == FinalNames
<1>1. PICK k \in 0..Len(names) :
        /\ made' = made \cup {names[i] : i \in 1..k}
        /\ To(IF k < Len(names) THEN "revert" ELSE "profile")
  BY DEF CreateFinal
<1>2. /\ phase = "final" /\ UNCHANGED <<pending, profile, vols, conf, osds, sizes, left, hooked, inCeph, undeleted>>
  BY DEF CreateFinal, To
<1>3. /\ phase' = IF k < Len(names) THEN "revert" ELSE "profile"
      /\ Everyone' = Everyone /\ Ask' = Ask /\ world' = world /\ Foreign' = Foreign
      /\ services' = services /\ DisksOf(inCeph)' = DisksOf(inCeph) /\ Planned' = Planned
  BY <1>1, ToSame
<1>4. made = Foreign
  BY <1>2 DEF SetupInv, NothingYet
<1>5. /\ names \in Seq(Pools \cup Nets) /\ Len(names) \in Nat /\ DOMAIN names = 1..Len(names)
      /\ \A i \in 1..Len(names) : names[i] \in Pools \cup Nets
      /\ Elements(names) = Planned
  BY FinalNamesRight, LenProperties
<1> HIDE DEF names
<1>6. SetupTyped'
  <2>1. made' \subseteq Pools \cup Nets
    BY <1>1, <1>5 DEF SetupInv, SetupTyped
  <2> QED
    BY <1>2, <1>3, <2>1 DEF SetupInv, SetupTyped
<1>7. NothingYet'
  BY <1>3 DEF NothingYet, Planning, Asking, Forming
<1>8. Defined'
  BY <1>3 DEF Defined
<1>9. BuiltSoFar'
  <2>1. phase' = "profile" => Planned \subseteq made'
    BY <1>1, <1>3, <1>5 DEF Elements
  <2>2. {profile.root, profile.eth0} \subseteq made' \cup {Nil}
    BY <1>1, <1>2 DEF SetupInv, BuiltSoFar
  <2> QED
    BY <1>2, <1>3, <2>1, <2>2 DEF SetupInv, BuiltSoFar, Creating
<1>10. RevertLeaves'
  BY <1>1, <1>2, <1>3, <1>4 DEF RevertLeaves
<1> QED
  BY <1>6, <1>7, <1>8, <1>9, <1>10 DEF SetupInv

\* The devices that the profile gets are of the plan.
LEMMA DevicesPlanned ==
  ASSUME PlanInv
  PROVE  /\ ProfilePool \in (Planned \cap Pools) \cup {Nil}
         /\ ProfileNetwork \in (Planned \cap Nets) \cup {Nil}
<1> DEFINE P == plan[Local].StoragePools
           N == plan[Local].Networks
<1>1. P \in Seq(Pools) /\ N \in Seq(Nets)
  BY WorldFacts, InitSystemFields DEF PlanInv, PlanTyped
<1>2. Planned = Elements(P) \cup Elements(N)
  BY DEF Planned
<1>3. ProfilePool \in (Elements(P) \cap Pools) \cup {Nil}
  BY DEF ProfilePool, Pools
<1>4. ProfileNetwork = IF "default" \in Elements(N) THEN "default"
                       ELSE IF N = <<>> THEN Nil ELSE N[1]
  BY DEF ProfileNetwork
<1> HIDE DEF P, N
<1>5. N # <<>> => N[1] \in Elements(N) /\ N[1] \in Nets
  <2> SUFFICES ASSUME N # <<>>
               PROVE  N[1] \in Elements(N) /\ N[1] \in Nets
    OBVIOUS
  <2>1. 1 \in DOMAIN N
    BY <1>1
  <2> QED
    BY <1>1, <2>1 DEF Elements
<1> QED
  BY <1>2, <1>3, <1>4, <1>5 DEF Nets

LEMMA UpdateProfileKeeps ==
  ASSUME PlanInv, SetupInv, UpdateProfile
  PROVE  SetupInv'
<1>1. \/ /\ To("volumes") /\ left' = Everyone
         /\ \E replace \in BOOLEAN : profile' = AskUpdateProfile(replace)
      \/ To("revert") /\ UNCHANGED <<profile, left>>
  BY DEF UpdateProfile
<1>2. /\ phase = "profile" /\ UNCHANGED <<made, pending, vols, conf, osds, sizes, hooked, inCeph, undeleted>>
  BY DEF UpdateProfile, To
<1>3. PICK p \in {"volumes", "revert"} : To(p)
  BY <1>1
<1>4. /\ phase' = p /\ Everyone' = Everyone /\ Ask' = Ask /\ world' = world /\ Foreign' = Foreign
      /\ services' = services /\ DisksOf(inCeph)' = DisksOf(inCeph) /\ Planned' = Planned
      /\ \A s : LocalHere(s)' = LocalHere(s)
  BY <1>3, ToSame
<1>5. Planned \subseteq made /\ {profile.root, profile.eth0} \subseteq made \cup {Nil}
      /\ profile \in [root : Pools \cup {Nil}, eth0 : Nets \cup {Nil}]
  BY <1>2 DEF SetupInv, BuiltSoFar, SetupTyped
<1>6. /\ profile' \in [root : Pools \cup {Nil}, eth0 : Nets \cup {Nil}]
      /\ {profile'.root, profile'.eth0} \subseteq made \cup {Nil}
  <2>1. CASE \E replace \in BOOLEAN : profile' = AskUpdateProfile(replace)
    <3>1. /\ profile'.root \in {profile.root, ProfilePool} /\ profile'.eth0 \in {profile.eth0, ProfileNetwork}
          /\ profile' = [root |-> profile'.root, eth0 |-> profile'.eth0]
      BY <2>1 DEF AskUpdateProfile
    <3>2. profile'.root \in Pools \cup {Nil} /\ profile'.eth0 \in Nets \cup {Nil}
      BY <1>5, <3>1, DevicesPlanned
    <3> QED
      BY <1>5, <3>1, <3>2, DevicesPlanned
  <2>2. CASE profile' = profile
    BY <1>5, <2>2
  <2> QED
    BY <1>1, <2>1, <2>2
<1>7. \/ phase' = "volumes" /\ left' = Everyone
      \/ phase' = "revert" /\ left' = left
  BY <1>1 DEF To
<1>8. SetupTyped'
  BY <1>2, <1>4, <1>6, <1>7 DEF SetupInv, SetupTyped
<1>9. NothingYet'
  BY <1>4 DEF NothingYet, Planning, Asking, Forming
<1>10. Defined'
  BY <1>4 DEF Defined
<1>11. BuiltSoFar'
  BY <1>2, <1>4, <1>5, <1>6, <1>7 DEF SetupInv, BuiltSoFar, Creating
<1>12. RevertLeaves'
  BY <1>2, <1>4 DEF SetupInv, RevertLeaves
<1> QED
  BY <1>8, <1>9, <1>10, <1>11, <1>12 DEF SetupInv

LEMMA CreateVolumesKeeps ==
  ASSUME PlanInv, SetupInv, NEW s \in Systems, CreateVolumes(s)
  PROVE  SetupInv'
<1>1. PICK k \in 0..3 :
        /\ ~LocalHere(s) => k = 3
        /\ LocalHere(s) /\ k > 0 => "local" \in made
        /\ vols' = vols \cup {<<s, Volumes[i]>> : i \in IF LocalHere(s) THEN 1..(IF k = 3 THEN 2 ELSE k) ELSE {}}
        /\ conf' = IF k = 3 /\ LocalHere(s) THEN conf \cup {s} ELSE conf
        /\ left' = left \ {s}
        /\ To(IF k < 3 THEN "revert" ELSE IF left = {s} THEN "done" ELSE phase)
  BY DEF CreateVolumes
<1>2. /\ phase = "volumes" /\ s \in left /\ UNCHANGED <<made, pending, profile, osds, sizes, hooked, inCeph, undeleted>>
  BY DEF CreateVolumes, To
<1>3. /\ phase' = IF k < 3 THEN "revert" ELSE IF left = {s} THEN "done" ELSE "volumes"
      /\ Everyone' = Everyone /\ Ask' = Ask /\ world' = world /\ Foreign' = Foreign
      /\ services' = services /\ DisksOf(inCeph)' = DisksOf(inCeph) /\ Planned' = Planned
      /\ \A m : LocalHere(m)' = LocalHere(m)
  BY <1>1, <1>2, ToSame
<1>4. SetupTyped'
  BY <1>1, <1>2, <1>3 DEF SetupInv, SetupTyped
<1>5. NothingYet'
  BY <1>1, <1>3 DEF NothingYet, Planning, Asking, Forming
<1>6. Defined'
  BY <1>1, <1>3 DEF Defined
<1>7. BuiltSoFar'
  <2>1. ASSUME phase' \in {"volumes", "done"},
               NEW m \in Everyone \ (IF phase' = "volumes" THEN left' ELSE {}), LocalHere(m)
        PROVE  "local" \in made /\ m \in conf' /\ {<<m, "images">>, <<m, "backups">>} \subseteq vols'
    <3>1. k = 3 /\ (phase' = "done" => left = {s})
      BY <1>1, <1>3, <2>1
    <3>2. CASE m = s
      <4>1. /\ vols' = vols \cup {<<s, Volumes[i]>> : i \in 1..2} /\ conf' = conf \cup {s}
            /\ "local" \in made
        BY <1>1, <2>1, <3>1, <3>2
      <4>2. Volumes[1] = "images" /\ Volumes[2] = "backups"
        BY DEF Volumes
      <4>3. <<s, Volumes[1]>> \in vols' /\ <<s, Volumes[2]>> \in vols'
        BY <4>1
      <4> QED
        BY <3>2, <4>1, <4>2, <4>3
    <3>3. CASE m # s
      <4>1. m \in Everyone \ left
        BY <1>1, <2>1, <3>1, <3>3
      <4>2. "local" \in made /\ m \in conf /\ {<<m, "images">>, <<m, "backups">>} \subseteq vols
        BY <1>2, <2>1, <4>1 DEF SetupInv, BuiltSoFar
      <4> QED
        BY <1>1, <4>2
    <3> QED
      BY <3>2, <3>3
  <2>2. /\ {profile.root, profile.eth0} \subseteq made \cup {Nil} /\ Planned \subseteq made
        /\ "MicroCeph" \in services =>
             /\ DisksOf(inCeph) \subseteq osds
             /\ \A p \in DefaultOSDPools : sizes[p] > 0 =>
                  sizes[p] >= (IF Cardinality(osds) < RecommendedOSDHosts THEN Cardinality(osds)
                               ELSE RecommendedOSDHosts)
    BY <1>2 DEF SetupInv, BuiltSoFar, Creating
  <2> QED
    BY <1>2, <1>3, <2>1, <2>2 DEF BuiltSoFar
<1>8. RevertLeaves'
  BY <1>1, <1>2, <1>3 DEF SetupInv, RevertLeaves
<1> QED
  BY <1>4, <1>5, <1>6, <1>7, <1>8 DEF SetupInv

LEMMA RevertKeeps ==
  ASSUME PlanInv, SetupInv, Revert
  PROVE  SetupInv'
<1>a. PICK failedVols \in SUBSET (vols \ VolumesKept) :
        \E failed \in SUBSET Deleted(VolumesKept \cup failedVols) :
          LET gone == Deleted(VolumesKept \cup failedVols) \ failed
          IN /\ made' = made \ gone
             /\ pending' = {p \in pending : p[1] \notin gone}
             /\ undeleted' = failed \cup (IF failedVols = {} THEN {} ELSE {"local"})
  BY DEF Revert
<1>0. PICK failed \in SUBSET Deleted(VolumesKept \cup failedVols) :
        LET gone == Deleted(VolumesKept \cup failedVols) \ failed
        IN /\ made' = made \ gone
           /\ pending' = {p \in pending : p[1] \notin gone}
           /\ undeleted' = failed \cup (IF failedVols = {} THEN {} ELSE {"local"})
  BY <1>a
<1> DEFINE gone == Deleted(VolumesKept \cup failedVols) \ failed
<1>1. /\ phase = "revert" /\ To("failed") /\ made' = made \ gone
      /\ pending' = {p \in pending : p[1] \notin gone}
      /\ UNCHANGED <<profile, conf, osds, sizes, left, hooked, inCeph>>
  BY <1>0 DEF Revert, To
<1>2. /\ phase' = "failed" /\ Everyone' = Everyone /\ Ask' = Ask /\ world' = world
      /\ Foreign' = Foreign /\ Planned' = Planned
  BY <1>1, ToSame
<1>3. gone \subseteq Planned
  BY DEF Deleted
<1>4. SetupTyped'
  BY <1>1, <1>2 DEF SetupInv, SetupTyped
<1>5. NothingYet'
  BY <1>2 DEF NothingYet, Planning, Asking, Forming
<1>6. Defined'
  BY <1>2 DEF Defined
<1>7. BuiltSoFar'
  BY <1>2 DEF BuiltSoFar, Creating
<1>8. ASSUME Ask
      PROVE  Foreign \subseteq made'
  <2>1. Foreign \subseteq made /\ Planned \cap Foreign = {}
    BY <1>8 DEF SetupInv, RevertLeaves, PlanInv, NothingForeign
  <2> QED
    BY <1>1, <1>3, <2>1
<1>9. ASSUME world.bootstrap, hooked, conf = {}, {profile.root, profile.eth0} \cap Planned = {}
      PROVE  (made' \cup {p[1] : p \in pending'}) \cap Planned \subseteq {"UPLINK"} \cup undeleted'
  <2>1. VolumesKept = {}
    BY <1>9 DEF VolumesKept
  <2>2. failed \subseteq undeleted' /\ (failedVols # {} => "local" \in undeleted')
    BY <1>0
  <2>3. \A n \in Planned \ ({"UPLINK"} \cup undeleted') : n \in gone
    BY <1>9, <2>1, <2>2 DEF Deleted, InUse
  <2>4. \A p \in pending' : p[1] \notin gone
    BY <1>1
  <2> QED
    BY <1>1, <2>3, <2>4
<1>10. RevertLeaves'
  BY <1>1, <1>2, <1>8, <1>9 DEF RevertLeaves
<1> QED
  BY <1>4, <1>5, <1>6, <1>7, <1>10 DEF SetupInv

LEMMA SetupStep == PlanInv /\ SetupInv /\ [Next]_vars => SetupInv'
<1> SUFFICES ASSUME PlanInv, SetupInv, [Next]_vars
             PROVE  SetupInv'
  OBVIOUS
<1>1. CASE UNCHANGED vars
  <2>1. /\ UNCHANGED <<phase, world, services, plan>>
        /\ UNCHANGED <<made, pending, profile, vols, conf, osds, sizes, left, hooked, inCeph, undeleted>>
    BY <1>1 DEF vars, planVars, setupVars
  <2>2. /\ Everyone' = Everyone /\ Ask' = Ask /\ Foreign' = Foreign /\ Planned' = Planned
        /\ \A s : TargetNames(s)' = TargetNames(s) /\ LocalHere(s)' = LocalHere(s)
    BY <2>1 DEF Everyone, Ask, Foreign, Planned, TargetNames, LocalHere
  <2>3. DisksOf(inCeph)' = DisksOf(inCeph)
    BY <2>1 DEF DisksOf
  <2>4. SetupTyped' /\ NothingYet'
    BY <2>1, <2>2 DEF SetupInv, SetupTyped, NothingYet
  <2>5. Defined'
    BY <2>1, <2>2 DEF SetupInv, Defined
  <2>6. BuiltSoFar'
    BY <2>1, <2>2, <2>3 DEF SetupInv, BuiltSoFar
  <2>7. RevertLeaves'
    BY <2>1, <2>2 DEF SetupInv, RevertLeaves
  <2> QED
    BY <2>4, <2>5, <2>6, <2>7 DEF SetupInv
<1>2. CASE Next /\ ~UNCHANGED vars
  BY <1>2, PlanningKeeps, FormKeeps, AddDisksKeeps, SetReplicationKeeps, CreateTargetsKeeps,
     CreateFinalKeeps, UpdateProfileKeeps, CreateVolumesKeeps, RevertKeeps DEF Next, Ended
<1> QED
  BY <1>1, <1>2

\* What setupCluster has made by the end of each phase, together with what is known of
\* the plan.
THEOREM SetupInductive == Spec => [](PlanInv /\ SetupInv)
<1>1. Init => PlanInv /\ SetupInv
  BY PlanInitial, SetupInitial
<1>2. PlanInv /\ SetupInv /\ [Next]_vars => (PlanInv /\ SetupInv)'
  BY PlanStep, SetupStep
<1> QED
  BY <1>1, <1>2, PTL DEF Spec

LEMMA Typed == PlanInv /\ SetupInv => TypeOK
<1> SUFFICES ASSUME PlanInv, SetupInv
             PROVE  TypeOK
  OBVIOUS
<1>1. PlanTyped /\ SetupTyped
  BY DEF PlanInv, SetupInv
<1>2. \A s \in Everyone : /\ Elements(plan[s].JoinConfig) \cup Elements(plan[s].TargetStoragePools)
                               \cup Elements(plan[s].TargetNetworks) \subseteq Entries
                          /\ plan[s].MicroCephDisks \subseteq [disk : Disks, wipe : BOOLEAN]
  BY <1>1, InitSystemFields, ElementsType DEF PlanTyped
<1>3. phase \in {"check", "gather", "parse", "clustered", "local", "remote", "network", "fan", "validate",
                 "planned", "disks", "replicate", "targets", "final", "profile", "volumes", "revert",
                 "done", "failed", "crashed"}
  BY <1>1 DEF PlanTyped, Planning, Asking, Forming, Creating, Over
<1> QED
  BY <1>1, <1>2, <1>3 DEF TypeOK, PlanTyped, SetupTyped

\* The type invariant: whatever command, answers and file, the plan has entries of
\* MicroCloud's pools and networks only, and what LXD and MicroCeph are given is theirs
\* to have.
THEOREM TypeOKHolds == Spec => []TypeOK
BY SetupInductive, Typed, PTL

\* What LXD had before the command stays when the reverter deletes by names, and a run
\* that fails before the profile is written leaves nothing of its own but the uplink.
THEOREM RevertLeavesHolds == Spec => []RevertLeaves
<1>1. PlanInv /\ SetupInv => RevertLeaves
  BY DEF SetupInv
<1> QED
  BY <1>1, SetupInductive, PTL

\* setupCluster that returns without an error has built what was planned.
THEOREM SuccessMeansBuiltHolds == Spec => []SuccessMeansBuilt
<1>1. PlanInv /\ SetupInv => SuccessMeansBuilt
  <2> SUFFICES ASSUME SetupInv, phase = "done"
               PROVE  /\ Planned \subseteq made
                      /\ \A s \in Everyone : LocalHere(s) =>
                           /\ "local" \in made /\ s \in conf
                           /\ {<<s, "images">>, <<s, "backups">>} \subseteq vols
                      /\ {profile.root, profile.eth0} \subseteq made \cup {Nil}
                      /\ "MicroCeph" \in services =>
                           /\ DisksOf(inCeph) \subseteq osds
                           /\ \A p \in DefaultOSDPools : sizes[p] > 0 =>
                                sizes[p] >= (IF Cardinality(osds) < RecommendedOSDHosts
                                             THEN Cardinality(osds) ELSE RecommendedOSDHosts)
    BY DEF SuccessMeansBuilt
  <2> QED
    BY DEF SetupInv, BuiltSoFar, Creating
<1> QED
  BY <1>1, SetupInductive, PTL

LEMMA Accepted == PlanInv /\ SetupInv => LXDAccepts
<1> SUFFICES ASSUME PlanInv, SetupInv, Ask
             PROVE  /\ phase = "targets" => \A s \in left : \A i \in DOMAIN TargetNames(s) : TargetAccepted(s, i)
                    /\ phase = "final" => \A i \in DOMAIN FinalNames : FinalAccepted(i)
  BY DEF LXDAccepts
<1>1. Planned \cap Foreign = {}
  BY DEF PlanInv, NothingForeign
<1>2. ASSUME phase = "targets", NEW s \in left, NEW i \in DOMAIN TargetNames(s)
      PROVE  TargetAccepted(s, i)
  <2> DEFINE names == TargetNames(s)
  <2>1. s \in Everyone /\ made = Foreign
    BY <1>2 DEF SetupInv, SetupTyped, NothingYet
  <2>2. /\ names \in Seq(Pools \cup Nets) /\ Distinct(names) /\ Elements(names) = Planned \ {"default"}
    BY <2>1, TargetNamesRight
  <2>3. DOMAIN names = 1..Len(names) /\ Len(names) \in Nat
    BY <2>2, LenProperties
  <2>4. names[i] \in Planned /\ names[i] \in Pools \cup Nets
    BY <1>2, <2>2 DEF Elements
  <2>5. <<names[i], s>> \notin pending
    BY <1>2, <2>4 DEF SetupInv, Defined
  <2>6. \A j \in 1..(i - 1) : names[j] # names[i]
    <3> HIDE DEF names
    <3>1. i \in 1..Len(names)
      BY <1>2, <2>3 DEF names
    <3>2. \A j \in 1..(i - 1) : j \in DOMAIN names /\ j # i
      BY <2>3, <3>1
    <3> QED
      BY <2>2, <2>3, <3>1, <3>2 DEF Distinct
  <2> QED
    BY <1>1, <2>1, <2>4, <2>5, <2>6 DEF TargetAccepted
<1>3. ASSUME phase = "final", NEW i \in DOMAIN FinalNames
      PROVE  FinalAccepted(i)
  <2> DEFINE names == FinalNames
  <2>1. made = Foreign
    BY <1>3 DEF SetupInv, NothingYet
  <2>2. /\ names \in Seq(Pools \cup Nets) /\ Distinct(names) /\ Elements(names) = Planned
        /\ names[i] = "default" => \E j \in 1..(i - 1) : names[j] = "UPLINK"
    BY <1>3, FinalNamesRight
  <2>3. DOMAIN names = 1..Len(names) /\ Len(names) \in Nat
    BY <2>2, LenProperties
  <2>4. names[i] \in Planned
    BY <1>3, <2>2 DEF Elements
  <2>5. \A j \in 1..(i - 1) : names[j] # names[i]
    <3> HIDE DEF names
    <3>1. i \in 1..Len(names)
      BY <1>3, <2>3 DEF names
    <3>2. \A j \in 1..(i - 1) : j \in DOMAIN names /\ j # i
      BY <2>3, <3>1
    <3> QED
      BY <2>2, <2>3, <3>1, <3>2 DEF Distinct
  <2>6. ASSUME names[i] # "default", NEW s \in Everyone
        PROVE  <<names[i], s>> \in pending
    <3>1. names[i] \in Elements(TargetNames(s))
      BY <2>4, <2>6, TargetNamesRight
    <3>2. PICK k \in DOMAIN TargetNames(s) : TargetNames(s)[k] = names[i]
      <4> HIDE DEF names
      <4> QED
        BY <3>1 DEF Elements
    <3> QED
      BY <1>3, <3>2 DEF SetupInv, Defined
  <2> QED
    BY <1>1, <2>1, <2>2, <2>4, <2>5, <2>6 DEF FinalAccepted
<1> QED
  BY <1>2, <1>3

\* LXD has no reason to refuse what the questions have planned: nothing is there already
\* or defined twice, and what is created cluster-wide is defined on every member.
THEOREM LXDAcceptsHolds == Spec => []LXDAccepts
BY SetupInductive, Accepted, PTL
==============================================================================
