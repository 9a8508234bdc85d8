------------------------------- MODULE MCSetup -------------------------------
(* Two systems with two disks and two interfaces, in the situations that a    *)
(* command can find; one family of them for each kind of question, with the   *)
(* others answered trivially.                                                 *)
EXTENDS Setup

MCSystems == {"a", "b"}
MCDisks == {"d1", "d2"}
MCIfaces == {"e1", "e2"}
MCSubnets == {"n1", "n2"}
MCOSDPools == {"rbd", "foreign"}
MCDefaultOSDPools == {"rbd"}
MCSizes == {[p \in MCOSDPools |-> 1]}

None(S) == [s \in MCSystems |-> S]
Whole(S) == [s \in MCSystems |-> IF s \in S THEN S ELSE {}]
Same(v) == [s \in MCSystems |-> v]

\* Interfaces: e1 carries MicroCloud's network, e2 is spare, or has n2 as well.
Link(nets) == [managed |-> FALSE, up |-> TRUE, broadcast |-> TRUE, type |-> "physical", nets |-> nets]
Spare == [e1 |-> Link({"n1"}), e2 |-> Link({})]
Second == [e1 |-> Link({"n1"}), e2 |-> Link({"n2"})]
Bridged == [e1 |-> Link({"n1"}), e2 |-> [Link({"n2"}) EXCEPT !.type = "bridge"]]
Unusable == [e1 |-> Link({"n1"}), e2 |-> [Link({}) EXCEPT !.managed = TRUE]]
Down == [e1 |-> [Link({"n1"}) EXCEPT !.up = FALSE], e2 |-> Link({})]

NoNets == [n \in Nets |-> "none"]
NoPools == [p \in Pools |-> "none"]
OVNNets == [UPLINK |-> "created", default |-> "created", lxdfan0 |-> "none"]

NoDisks == Same([d \in MCDisks |-> "absent"])
TwoDisks == [d1 |-> "free", d2 |-> "free"]
OneDisk == [d1 |-> "free", d2 |-> "partitioned"]
CDRom == [d1 |-> "cdrom", d2 |-> "absent"]

Base ==
  [cmd |-> "init", bootstrap |-> TRUE, members |-> {}, joiners |-> MCSystems,
   installed |-> {}, ext |-> {"source_wipe", "cephfs_create_missing", "drop_source"},
   clusters |-> [svc \in Services |-> None({})],
   disks |-> NoDisks, osds |-> None({}), links |-> Same(Spare),
   pools |-> NoPools, nets |-> Same(NoNets), gateway |-> "one",
   cephNet |-> [internal |-> Nil, public |-> Nil]]

\* The same with a MicroCloud of M, and with a MicroCeph of C.
Existing(w, cmd, M) ==
  [w EXCEPT !.cmd = cmd, !.bootstrap = (cmd = "service"),
            !.members = M, !.joiners = MCSystems \ M,
            !.clusters["MicroCloud"] = Whole(M), !.clusters["LXD"] = Whole(M)]
WithCeph(w, C, used) == [w EXCEPT !.installed = @ \cup {"MicroCeph"},
                                  !.clusters["MicroCeph"] = Whole(C), !.osds = used]

\* Disks: of new systems, one of which may bring a MicroCeph; of systems added to
\* a MicroCloud with any pools; for a service that is added.
StorageNew == {WithCeph([Base EXCEPT !.disks = [a |-> TwoDisks, b |-> d], !.ext = e], C, None({})) :
                 d \in {OneDisk, CDRom}, e \in {Base.ext, {"drop_source"}}, C \in {{}, {"b"}}}
                \cup {WithCeph([Base EXCEPT !.disks = Same(TwoDisks)], {"b"}, [a |-> {}, b |-> {"d1"}])}
                \cup {[Base EXCEPT !.joiners = {"a"}, !.disks["a"] = OneDisk, !.installed = {"MicroCeph"}]}
MemberPools == {p \in [Pools -> Conditions] : p["remote"] # "none" \/ p["remote-fs"] = "none"}
StorageAdd ==
  {Existing(WithCeph([Base EXCEPT !.disks = [a |-> OneDisk, b |-> TwoDisks], !.pools = p, !.ext = e],
                     {"a"}, [a |-> {"d1"}, b |-> {}]), "add", {"a"})
     : p \in MemberPools, e \in {Base.ext, {}}}
StorageService ==
  {Existing(WithCeph([Base EXCEPT !.disks = Same(OneDisk), !.pools["local"] = p], C, None({})), "service", MCSystems)
     : p \in {"none", "created", "other"}, C \in {{}, {"a"}, MCSystems}}
  \cup {[Existing(WithCeph([Base EXCEPT !.disks = Same(OneDisk)], {}, None({})), "service", MCSystems)
           EXCEPT !.clusters["MicroCeph"] = [a |-> {"a"}, b |-> {"b"}]]}
StorageFailed == {Existing(WithCeph([Base EXCEPT !.pools["remote-fs"] = "created"], {"a"}, None({})), "add", {"a"})}

\* Subnets for MicroCeph.
CephNets ==
  {WithCeph([Base EXCEPT !.disks["a"] = OneDisk, !.links = l, !.cephNet = n], C, [a |-> {}, b |-> {}])
     : l \in {Same(Second), [a |-> Second, b |-> Spare]}, C \in {{}, {"a"}},
       n \in {[internal |-> "n2", public |-> "n2"], [internal |-> "n1", public |-> "n1"]}}

\* Networks, with and without an OVN network, an uplink and a default route.
Networks ==
  {[Base EXCEPT !.installed = {"MicroOVN"}, !.links = [a |-> l, b |-> k], !.gateway = g]
     : l \in {Spare, Bridged}, k \in {Spare, Bridged, Unusable, Down}, g \in {"none", "one", "many"}}
  \cup {[Base EXCEPT !.installed = {"MicroOVN"}, !.nets = [a |-> n, b |-> NoNets]]
     : n \in {m \in [Nets -> Conditions] : m["lxdfan0"] # "other"}}
NetworksAdd ==
  {Existing([Base EXCEPT !.installed = {"MicroOVN"}, !.nets = [a |-> n, b |-> NoNets], !.clusters["MicroOVN"] = Whole(C)],
            "add", {"a"}) : n \in {OVNNets, NoNets}, C \in {{}, {"a"}}}
NetworksService ==
  {Existing([Base EXCEPT !.installed = {"MicroOVN"}, !.nets = Same(n)], "service", MCSystems) : n \in {OVNNets, NoNets}}

\* Refusals before the first question, and services brought by systems that are to
\* join.
Refused ==
  {Existing(Base, "init", {"a"}), Existing(Base, "service", MCSystems),
   [Base EXCEPT !.clusters["LXD"] = [a |-> {}, b |-> {"b"}]],
   [WithCeph(Base, {}, None({})) EXCEPT !.clusters["MicroCeph"] = [a |-> {"a"}, b |-> {"b"}]],
   [Base EXCEPT !.links["b"] = Down]}

\* Preseed: a new MicroCloud, and one that a system is added to.
Preseeded ==
  {[WithCeph([Base EXCEPT !.disks = [a |-> TwoDisks, b |-> d], !.gateway = g, !.links = [a |-> Spare, b |-> k]], C, None({}))
      EXCEPT !.cmd = "preseed", !.installed = Optional]
     : d \in {TwoDisks, OneDisk}, g \in {"none", "one", "many"}, k \in {Spare, Second}, C \in {{}, {"b"}}}
PreseededAdd ==
  {[Existing(WithCeph([Base EXCEPT !.disks = Same(TwoDisks), !.pools["local"] = "created", !.nets = [a |-> n, b |-> NoNets]],
                      {"a"}, [a |-> {"d1"}, b |-> {}]), "preseed", {"a"}) EXCEPT !.installed = i,
      !.clusters["MicroOVN"] = Whole({"a"})]
     : n \in {OVNNets, NoNets}, i \in {Optional, {"MicroOVN"}}}

MCWorlds == StorageNew \cup StorageAdd \cup StorageService \cup StorageFailed \cup CephNets
              \cup Networks \cup NetworksAdd \cup NetworksService \cup Refused
              \cup Preseeded \cup PreseededAdd

\* Files with disks named, found by filters, or both; a filter that two disks match,
\* and bounds that are not met.
Filter(S, min, max) == [find |-> S, min |-> min, max |-> max, wipe |-> TRUE]
File(S) == [systems |-> S, uplink |-> Same(Nil), underlay |-> Same(Nil),
            local |-> Same([disk |-> Nil, wipe |-> FALSE]), ceph |-> Same({}),
            localFilters |-> <<>>, cephFilters |-> <<>>, gateway |-> FALSE, range |-> "nothing",
            internal |-> Nil, public |-> Nil, cephfs |-> FALSE]
Files(S) ==
  LET ceph == {<<>>, <<Filter({"d1"}, 1, 0)>>, <<Filter({"d1"}, 1, 1)>>, <<Filter({"d2"}, 1, 2), Filter({"d1", "d2"}, 1, 0)>>}
      zfs == {<<>>, <<Filter({"d2"}, 0, 0)>>, <<Filter({"d1"}, 0, 0), Filter({"d2"}, 1, 1)>>}
      net == {[up |-> Nil, gw |-> FALSE, range |-> "nothing", int |-> Nil, fs |-> FALSE],
              [up |-> "e2", gw |-> TRUE, range |-> "nothing", int |-> "n2", fs |-> TRUE],
              [up |-> Nil, gw |-> TRUE, range |-> "a", int |-> Nil, fs |-> FALSE],
              [up |-> Nil, gw |-> TRUE, range |-> "nothing", int |-> "n1", fs |-> TRUE]}
  IN {[File(S) EXCEPT !.cephFilters = c, !.localFilters = z, !.uplink = Same(n.up), !.gateway = n.gw,
                      !.range = n.range, !.internal = n.int, !.cephfs = n.fs] : c \in ceph, z \in zfs, n \in net}
     \cup {[File(S) EXCEPT !.local = Same([disk |-> "d1", wipe |-> FALSE]), !.ceph = c, !.underlay = Same(u)]
            : c \in {Same({}), [a |-> {[disk |-> "d2", wipe |-> FALSE]}, b |-> {}]}, u \in {Nil, "n1", "n2"}}
     \cup {[File(S) EXCEPT !.local["b"] = [disk |-> "d1", wipe |-> FALSE]]}
     \cup {[File(S) EXCEPT !.local["b"] = [disk |-> Nil, wipe |-> TRUE], !.localFilters = <<Filter({"d1"}, 0, 0)>>]}
MCPreseeds == Files(MCSystems) \cup Files({"b"})
==============================================================================
