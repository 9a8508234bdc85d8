--------------------------- MODULE FormationProofs ---------------------------
(***************************************************************************)
(* For any systems, services, reused clusters and number of attempts:      *)
(* Formation keeps its types, and no command that has ended leaves a token *)
(* it could have deleted.  Success puts every system into every service    *)
(* that no outsider changed meanwhile, the sizes that waitForJoin expects  *)
(* are right for those services, and each disk is added once.              *)
(***************************************************************************)
EXTENDS Formation, FiniteSetTheorems, TLAPS

\* The local variables of addPeers and of RunConcurrent that a step may set.
LocalType ==
  /\ pc \in Steps \cup Ends
  /\ loop \in {"cloud", "local", "peers"}
  /\ todo \subseteq Systems
  /\ peer \in Systems
  /\ hook \in [Services -> {"todo", "running", "ok", "err"}]
  /\ err \in {"ok", "err"}
  /\ clustered \subseteq Services
  /\ cfg \in [Systems -> SUBSET Services]
  /\ reverts \subseteq Services \X Systems

\* Idle is a function from services to hook states.
LEMMA IdleType == Idle \in [Services -> {"todo", "running", "ok", "err"}]
BY DEF Idle

\* The command's own variables have their types when it ends.
LEMMA EndType ==
  ASSUME TypeOK, NEW how \in Ends, End(how)
  PROVE  /\ LocalType'
         /\ known' \in [Services -> SUBSET Nodes]
         /\ size' \in [Services -> Nat]
         /\ attempts' \in 1..MaxAttempts
         /\ late' \subseteq Services \X Systems
         /\ meddled' \subseteq Services
<1>1. InFlight \subseteq Services \X Systems
  BY DEF InFlight, TypeOK
<1>2. LocalType'
  BY IdleType, FormationAssumption DEF TypeOK, End, LocalType, Ends, Steps
<1> QED
  BY <1>1, <1>2 DEF TypeOK, End

\* Abort keeps the types.
LEMMA AbortType ==
  ASSUME TypeOK, Abort
  PROVE  TypeOK'
<1>1. End("failed") /\ "failed" \in Ends
  BY DEF Abort, Ends
<1>2. /\ LocalType' /\ known' \in [Services -> SUBSET Nodes]
      /\ size' \in [Services -> Nat] /\ attempts' \in 1..MaxAttempts
      /\ late' \subseteq Services \X Systems /\ meddled' \subseteq Services
  BY <1>1, EndType
<1>3. tokens' \subseteq Services \X Systems /\ stray' \subseteq Services \X Systems
  BY DEF Abort, TypeOK
<1>4. UNCHANGED <<members, disks, adds>>
  BY DEF Abort
<1> QED
  BY <1>2, <1>3, <1>4 DEF TypeOK, LocalType

\* The clusters the command knows are finite, as all sets of systems are.
LEMMA KnownFinite ==
  ASSUME TypeOK
  PROVE  Sizes \in [Services -> Nat]
<1>1. SUFFICES ASSUME NEW s \in Services
               PROVE  Cardinality(known[s]) \in Nat
  BY <1>1 DEF Sizes
<1>2. known[s] \subseteq Nodes
  BY DEF TypeOK
<1>3. IsFiniteSet(known[s])
  BY <1>2, FormationAssumption, FS_Subset DEF Nodes
<1> QED
  BY <1>3, FS_CardinalityType

\* A step of the command or the joiner keeps the types.
LEMMA ProgressType ==
  ASSUME TypeOK, Progress
  PROVE  TypeOK'
<1> USE FormationAssumption
<1>1. CASE HooksFail
  BY <1>1, AbortType DEF HooksFail
<1>2. CASE AddPeers
  BY <1>2, KnownFinite, IdleType
  DEF AddPeers, TypeOK, services, run, Steps, Ends
<1>3. CASE IssueTokens
  BY <1>3 DEF IssueTokens, TypeOK, services, plan, run, Steps, Ends
<1>4. CASE NextPeer
  BY <1>4, IdleType DEF NextPeer, TypeOK, services, plan, run, Steps, Ends
<1>5. CASE JoinLocal
  BY <1>5 DEF JoinLocal, Request, TypeOK, services, plan, run, Steps, Ends
<1>6. CASE PeersJoined
  BY <1>6 DEF PeersJoined, DiskHosts, TypeOK, services, plan, run, Steps, Ends
<1>7. CASE Joined
  BY <1>7, IdleType DEF Joined, Group, TypeOK, services, plan, run, Steps, Ends
<1>8. CASE Clustered
  BY <1>8 DEF Clustered, TypeOK, services, plan, run, Steps, Ends
<1>9. CASE TimesOut
  BY <1>9, AbortType DEF TimesOut
<1>10. CASE Success
  <2>1. "done" \in Ends /\ End("done") /\ UNCHANGED services
    BY <1>10 DEF Success, Ends
  <2>2. /\ LocalType' /\ known' \in [Services -> SUBSET Nodes]
        /\ size' \in [Services -> Nat] /\ attempts' \in 1..MaxAttempts
        /\ late' \subseteq Services \X Systems /\ meddled' \subseteq Services
    BY <2>1, EndType
  <2> QED
    BY <2>1, <2>2 DEF TypeOK, LocalType, services
<1>11. ASSUME NEW s \in Services, SkipBootstrap(s)
       PROVE  TypeOK'
  BY <1>11 DEF SkipBootstrap, SetHook, TypeOK, services, plan, run, Steps, Ends
<1>12. ASSUME NEW s \in Services, Bootstrap(s)
       PROVE  TypeOK'
  BY <1>12 DEF Bootstrap, SetHook, TypeOK, Nodes, services, plan, run, Steps, Ends
<1>13. ASSUME NEW s \in Services, SkipToken(s)
       PROVE  TypeOK'
  BY <1>13 DEF SkipToken, SetHook, TypeOK, services, plan, run, Steps, Ends
<1>14. ASSUME NEW s \in Services, IssueToken(s)
       PROVE  TypeOK'
  BY <1>14 DEF IssueToken, SetHook, TypeOK, services, plan, run, Steps, Ends
<1>15. ASSUME NEW s \in Services, RecordToken(s)
       PROVE  TypeOK'
  BY <1>15 DEF RecordToken, SetHook, TypeOK, services, plan, run, Steps, Ends
<1>16. ASSUME NEW s \in Services, Join(s)
       PROVE  TypeOK'
  <2>1. PICK joined \in BOOLEAN, ok \in BOOLEAN :
          /\ members' = [members EXCEPT ![s] = IF joined THEN @ \cup {peer} ELSE @]
          /\ tokens' = IF joined THEN tokens \ {<<s, peer>>} ELSE tokens
          /\ adds' = [adds EXCEPT ![peer] =
                        IF s = "MicroCeph" /\ joined /\ peer \in disks
                        THEN @ + 1 ELSE @]
          /\ err' = IF ok THEN "ok" ELSE "err"
    BY <1>16 DEF Join
  <2>2. members' \in [Services -> SUBSET Nodes]
    BY <2>1 DEF TypeOK, Nodes
  <2>3. adds' \in [Systems -> Nat]
    BY <2>1 DEF TypeOK
  <2>4. tokens' \subseteq Services \X Systems /\ err' \in {"ok", "err"}
    BY <2>1 DEF TypeOK
  <2>5. hook' \in [Services -> {"todo", "running", "ok", "err"}]
    BY <1>16 DEF Join, SetHook, TypeOK
  <2>6. UNCHANGED <<stray, disks, known, size, cfg, reverts, pc, loop, todo,
                    peer, clustered, attempts, late, meddled>>
    BY <1>16 DEF Join, plan, run
  <2> QED
    BY <2>2, <2>3, <2>4, <2>5, <2>6 DEF TypeOK
<1>17. ASSUME NEW s \in Services, JoinReturns(s)
       PROVE  TypeOK'
  BY <1>17 DEF JoinReturns, SetHook, TypeOK, services, plan, run, Steps, Ends
<1>18. ASSUME NEW s \in Services, Poll(s)
       PROVE  TypeOK'
  BY <1>18 DEF Poll, TypeOK, services, plan, run, Steps, Ends
<1>19. ASSUME NEW n \in Systems, JoinCloud(n)
       PROVE  TypeOK'
  BY <1>19 DEF JoinCloud, Request, TypeOK, services, plan, run, Steps, Ends
<1>20. ASSUME NEW n \in Systems, JoinPeer(n)
       PROVE  TypeOK'
  BY <1>20 DEF JoinPeer, Request, TypeOK, services, plan, run, Steps, Ends
<1>21. ASSUME NEW n \in Systems, AddDisk(n)
       PROVE  TypeOK'
  BY <1>21 DEF AddDisk, TypeOK, services, plan, run, Steps, Ends
<1> QED
  BY <1>1, <1>2, <1>3, <1>4, <1>5, <1>6, <1>7, <1>8, <1>9, <1>10, <1>11, <1>12,
     <1>13, <1>14, <1>15, <1>16, <1>17, <1>18, <1>19, <1>20, <1>21
  DEF Progress

\* So does every other step.
LEMMA TypeStep == TypeOK /\ [Next]_vars => TypeOK'
<1> SUFFICES ASSUME TypeOK, [Next]_vars
             PROVE  TypeOK'
  OBVIOUS
<1> USE FormationAssumption
<1>1. CASE Progress
  BY <1>1, ProgressType
<1>2. CASE CallFails
  BY <1>2, AbortType DEF CallFails
<1>3. CASE Kill
  <2>1. "killed" \in Ends /\ End("killed")
    BY <1>3 DEF Kill, Ends
  <2>2. /\ LocalType' /\ known' \in [Services -> SUBSET Nodes]
        /\ size' \in [Services -> Nat] /\ attempts' \in 1..MaxAttempts
        /\ late' \subseteq Services \X Systems /\ meddled' \subseteq Services
    BY <2>1, EndType
  <2>3. stray' \subseteq Services \X Systems /\ UNCHANGED <<members, tokens, disks, adds>>
    BY <1>3 DEF Kill, TypeOK
  <2> QED
    BY <2>2, <2>3 DEF TypeOK, LocalType
<1>4. CASE Retry
  BY <1>4 DEF Retry, TypeOK, Steps, Ends
<1>5. CASE Ended \/ UNCHANGED vars
  BY <1>5 DEF Ended, vars, services, plan, run, TypeOK
<1>6. ASSUME NEW s \in Services, IssueTokenFails(s)
      PROVE  TypeOK'
  BY <1>6 DEF IssueTokenFails, SetHook, TypeOK, plan, run, Steps, Ends
<1>7. ASSUME NEW o \in Outsiders, NEW s \in Services, OutsiderJoins(o, s)
      PROVE  TypeOK'
  BY <1>7 DEF OutsiderJoins, TypeOK, Nodes, plan, Steps, Ends
<1>8. ASSUME NEW s \in Services, NEW n \in Systems, LateJoin(s, n)
      PROVE  TypeOK'
  BY <1>8 DEF LateJoin, TypeOK, Nodes, plan, run, Steps, Ends
<1> QED
  BY <1>1, <1>2, <1>3, <1>4, <1>5, <1>6, <1>7, <1>8 DEF Next

LEMMA TypeInit == Init => TypeOK
BY FormationAssumption, IdleType DEF Init, TypeOK, Steps, Ends, Nodes

\* Formation never leaves its types: in particular every system it asks to join,
\* and every system whose disks it adds, is one of those to be clustered.
THEOREM TypeCorrect == Spec => []TypeOK
BY TypeInit, TypeStep, PTL DEF Spec

-----------------------------------------------------------------------------
\* Tokens that have been issued but are not in the reverter yet.
Unrecorded ==
  {<<s, peer>> : s \in {x \in Services : pc = "issue" /\ hook[x] = "running"}}

\* The strengthening of TokensRevoked that is inductive: at any time, a token is
\* known to the reverter or about to be, unless it is MicroCloud's or stray.
TokenInv ==
  /\ pc # "done" => tokens \subseteq Leftover \cup reverts \cup Unrecorded
  /\ pc \in Ends => reverts = {}

\* With no token about to be recorded, Abort leaves only stray tokens.
LEMMA AbortTokens ==
  ASSUME TokenInv, Abort, Unrecorded = {}, pc # "done"
  PROVE  TokenInv'
BY DEF Abort, End, TokenInv, Ends, Leftover

\* A step that touches neither tokens nor reverter, and loses no running hook.
LEMMA TokensKept ==
  ASSUME TokenInv, UNCHANGED <<tokens, stray, reverts>>,
         Unrecorded \subseteq Unrecorded', pc # "done", pc' \notin Ends
  PROVE  TokenInv'
BY DEF TokenInv, Leftover

LEMMA TokenInit == Init => TokenInv
BY DEF Init, TokenInv, Ends, Leftover

LEMMA TokenStep == TypeOK /\ TokenInv /\ [Next]_vars => TokenInv'
<1> SUFFICES ASSUME TypeOK, TokenInv, [Next]_vars
             PROVE  TokenInv'
  OBVIOUS
<1> USE DEF Steps, Ends, Leftover
<1>1. CASE HooksFail
  <2>1. Unrecorded = {} /\ pc # "done"
    BY <1>1 DEF HooksFail, Failed, Group, Unrecorded
  <2> QED
    BY <1>1, <2>1, AbortTokens DEF HooksFail
<1>2. CASE CallFails \/ TimesOut
  <2>1. Unrecorded = {} /\ Abort /\ pc # "done"
    BY <1>2 DEF CallFails, TimesOut, Unrecorded
  <2> QED
    BY <2>1, AbortTokens
<1>3. CASE Kill
  BY <1>3 DEF Kill, End, TokenInv
<1>4. CASE NextPeer
  <2>1. Unrecorded = {}
    BY <1>4 DEF NextPeer, Ok, Unrecorded
  <2> QED
    BY <1>4, <2>1, TokensKept DEF NextPeer, services, plan
<1>5. CASE AddPeers \/ IssueTokens \/ JoinLocal \/ PeersJoined \/ Joined \/ Clustered
  <2>1. pc \notin {"issue", "done"} /\ UNCHANGED <<tokens, stray, reverts>>
    BY <1>5 DEF AddPeers, IssueTokens, JoinLocal, PeersJoined, Joined, Clustered,
                services, plan
  <2>2. Unrecorded = {}
    BY <2>1 DEF Unrecorded
  <2>3. pc' \notin Ends
    BY <1>5 DEF AddPeers, IssueTokens, JoinLocal, Request, PeersJoined, Joined,
                Clustered, TypeOK
  <2> QED
    BY <2>1, <2>2, <2>3, TokensKept
<1>6. CASE Success
  BY <1>6 DEF Success, End, TokenInv
<1>7. ASSUME NEW s \in Services, SkipBootstrap(s) \/ Bootstrap(s) \/ JoinReturns(s)
                                 \/ Poll(s)
      PROVE  TokenInv'
  <2>1. pc # "issue" /\ UNCHANGED <<tokens, stray, reverts, pc>>
    BY <1>7 DEF SkipBootstrap, Bootstrap, JoinReturns, Poll, services, plan
  <2>2. Unrecorded = {}
    BY <2>1 DEF Unrecorded
  <2>3. pc \notin Ends
    BY <1>7 DEF SkipBootstrap, Bootstrap, JoinReturns, Poll
  <2> QED
    BY <2>1, <2>2, <2>3, TokensKept
<1>8. ASSUME NEW s \in Services, SkipToken(s)
      PROVE  TokenInv'
  <2>1. Unrecorded \subseteq Unrecorded'
    BY <1>8 DEF SkipToken, Callable, SetHook, Unrecorded, TypeOK
  <2> QED
    BY <1>8, <2>1, TokensKept DEF SkipToken, services, plan
<1>9. ASSUME NEW s \in Services, IssueToken(s)
      PROVE  TokenInv'
  <2>1. Unrecorded \subseteq Unrecorded' /\ <<s, peer>> \in Unrecorded'
    BY <1>9 DEF IssueToken, Callable, SetHook, Unrecorded, TypeOK
  <2> QED
    BY <1>9, <2>1 DEF IssueToken, TokenInv, plan
<1>10. ASSUME NEW s \in Services, IssueTokenFails(s)
       PROVE  TokenInv'
  <2>1. Unrecorded \subseteq Unrecorded'
    BY <1>10 DEF IssueTokenFails, Callable, SetHook, Unrecorded, TypeOK
  <2> QED
    BY <1>10, <2>1 DEF IssueTokenFails, TokenInv, plan
<1>11. ASSUME NEW s \in Services, RecordToken(s)
       PROVE  TokenInv'
  <2>1. Unrecorded \subseteq Unrecorded' \cup {<<s, peer>>}
    BY <1>11 DEF RecordToken, SetHook, Unrecorded, TypeOK
  <2> QED
    BY <1>11, <2>1 DEF RecordToken, TokenInv, services
<1>12. ASSUME NEW s \in Services, Join(s)
       PROVE  TokenInv'
  <2>1. Unrecorded = {} /\ tokens' \subseteq tokens
    BY <1>12 DEF Join, Unrecorded
  <2> QED
    BY <1>12, <2>1 DEF Join, TokenInv, plan
<1>13. ASSUME NEW n \in Systems, JoinCloud(n)
       PROVE  TokenInv'
  <2>1. Unrecorded = {}
    BY <1>13 DEF JoinCloud, Unrecorded
  <2> QED
    BY <1>13, <2>1 DEF JoinCloud, Request, TokenInv
<1>14. ASSUME NEW n \in Systems, JoinPeer(n) \/ AddDisk(n)
       PROVE  TokenInv'
  <2>1. /\ pc \notin {"issue", "done"} /\ pc' \notin Ends
        /\ UNCHANGED <<tokens, stray, reverts>>
    BY <1>14 DEF JoinPeer, Request, AddDisk, services, plan
  <2>2. Unrecorded = {}
    BY <2>1 DEF Unrecorded
  <2> QED
    BY <2>1, <2>2, TokensKept
<1>15. CASE Retry
  <2>1. Unrecorded = {}
    BY <1>15 DEF Retry, Unrecorded
  <2> QED
    BY <1>15, <2>1, TokensKept DEF Retry
<1>16. ASSUME NEW o \in Outsiders, NEW s \in Services, OutsiderJoins(o, s)
       PROVE  TokenInv'
  <2>1. Unrecorded' = Unrecorded /\ UNCHANGED <<tokens, stray, reverts, pc>>
    BY <1>16 DEF OutsiderJoins, Unrecorded, plan
  <2> QED
    BY <2>1 DEF TokenInv
<1>17. CASE Ended \/ UNCHANGED vars
  <2>1. Unrecorded' = Unrecorded /\ UNCHANGED <<tokens, stray, reverts, pc>>
    BY <1>17 DEF Ended, vars, services, plan, Unrecorded
  <2> QED
    BY <2>1 DEF TokenInv
<1>18. ASSUME NEW s \in Services, NEW n \in Systems, LateJoin(s, n)
       PROVE  TokenInv'
  <2>1. /\ tokens' \subseteq tokens /\ UNCHANGED <<stray, reverts, pc>>
        /\ Unrecorded' = Unrecorded
    BY <1>18 DEF LateJoin, plan, Unrecorded
  <2> QED
    BY <2>1 DEF TokenInv
<1> QED
  BY <1>1, <1>2, <1>3, <1>4, <1>5, <1>6, <1>7, <1>8, <1>9, <1>10, <1>11, <1>12,
     <1>13, <1>14, <1>15, <1>16, <1>17, <1>18
  DEF Next, Progress

\* Whatever fails, and however often the command is run: when it has ended, the
\* services other than MicroCloud accept no token that the command knew of and
\* was able to delete.
THEOREM TokensRevokedHolds == Spec => []TokensRevoked
<1>1. Spec => [](TypeOK /\ TokenInv)
  BY TypeInit, TypeStep, TokenInit, TokenStep, PTL DEF Spec
<1>2. TypeOK /\ TokenInv => TokensRevoked
  <2> SUFFICES ASSUME TokenInv, pc \in {"failed", "killed"}
               PROVE  tokens \subseteq Leftover
    BY DEF TokensRevoked
  <2>1. Unrecorded = {} /\ reverts = {}
    BY DEF Unrecorded, TokenInv, Ends
  <2> QED
    BY <2>1 DEF TokenInv
<1> QED
  BY <1>1, <1>2, PTL

-----------------------------------------------------------------------------
(* What the command knows of the clusters while it runs.  An outsider makes *)
(* the sizes of a service wrong, but not who of the systems is in it.       *)

\* waitForJoin is at work, for one of addPeers' loops.
Busy == pc \in {"request", "poll"}

\* The first loop of addPeers.
InCloud == pc = "cloud" \/ (Busy /\ loop = "cloud")

\* The other two, which send the tokens that were issued.
InOthers == pc \in {"local", "peers"} \/ (Busy /\ loop # "cloud")

\* The services whose size does not count the peer yet.
Waiting == IF pc = "request" THEN cfg[peer] ELSE IF pc = "poll" THEN clustered ELSE {}

\* A service's members without the peer if it is still waited for.
Counted(s) == members[s] \ (IF s \in Waiting THEN {peer} ELSE {})

\* Nobody leaves a cluster, and the local system is the first in MicroCloud.
KnownIn ==
  /\ \A s \in Services : known[s] \subseteq members[s]
  /\ members["MicroCloud"] # {} => Local \in members["MicroCloud"]
  /\ pc \in Steps \ {"bootstrap"} => Local \in members["MicroCloud"]

\* Hooks are left over neither for the next peer nor for the next attempt.
HooksIdle ==
  pc \notin {"bootstrap", "issue", "request"} => \A s \in Services : hook[s] = "todo"

\* No tokens are kept for a system until they are issued.
NoTokensYet ==
  /\ pc \in {"bootstrap", "cloud"} \cup Ends => \A n \in Systems : cfg[n] = {}
  /\ pc \in {"bootstrap"} \cup Ends => reverts = {}

\* The command knows which systems are in a service, and all its members if no
\* outsider joined it during this run.
SeenRight(s) ==
  /\ \A n \in Systems : n \in known[s] <=> n \in members[s]
  /\ s \notin meddled => known[s] = members[s]

\* Outsiders join services that may be reused, and have a cluster.
MeddledReused == meddled \subseteq Reusable

\* A bootstrap that has not failed leaves what the command knows true.
Fresh ==
  pc = "bootstrap" =>
    \A s \in Services :
      /\ hook[s] \in {"todo", "ok"} => SeenRight(s)
      /\ hook[s] = "ok" => known[s] # {}

\* Until the peers join them, the other services are as they were.
AsKnown ==
  InCloud \/ pc = "issue" =>
    \A s \in Services \ {"MicroCloud"} : SeenRight(s)

\* The local system's turn comes before the peers'.
LocalFirst ==
  /\ Busy /\ loop = "local" => peer = Local
  /\ pc = "peers" \/ (Busy /\ loop = "peers") =>
       Local \notin todo /\ (Busy => peer # Local)

\* Whoever is not in MicroCloud is asked to join, and nobody else.
CloudLoop ==
  InCloud =>
    /\ todo \cap members["MicroCloud"] = {}
    /\ \A n \in Systems : \/ n \in members["MicroCloud"] \cup todo
                          \/ Busy /\ n = peer
    /\ Busy => \A n \in Systems : cfg[n] = IF n = peer THEN {"MicroCloud"} ELSE {}

\* The systems that were dealt with have a token for each service they need.
Issuing ==
  pc = "issue" =>
    /\ peer \in todo
    /\ \A n \in Systems \ todo, s \in Services : NeedsToken(s, n) => s \in cfg[n]
    /\ \A s \in Services :
         /\ hook[s] = "running" => NeedsToken(s, peer)
         /\ hook[s] = "ok" /\ NeedsToken(s, peer) => s \in cfg[peer]

\* A system that is missing from a service has a token of it, and its turn.
Covered ==
  InOthers =>
    /\ \A n \in Systems, s \in Services \ {"MicroCloud"} :
         n \in members[s] \/ s \in cfg[n] \/ s \in meddled
    /\ (pc = "peers" \/ (Busy /\ loop = "peers")) =>
         \A n \in Systems : cfg[n] # {} => n \in todo \/ (Busy /\ n = peer)

\* Tokens are kept for systems that are not in the service.
NotInYet ==
  pc = "issue" \/ InOthers =>
    \A n \in Systems : \A s \in cfg[n] : n \in members[s] => Busy /\ n = peer

\* The peer is in the services that waitForJoin no longer waits for.
PolledIn ==
  /\ Busy => peer \notin todo
  /\ pc = "poll" => /\ clustered \subseteq cfg[peer]
                    /\ \A s \in cfg[peer] \ (clustered \cup meddled) :
                         peer \in members[s]

\* clusterSizes is right but for the peer.
SizeRight ==
  pc \in Steps \ {"bootstrap", "disks"} =>
    \A s \in Services \ meddled : size[s] = Cardinality(Counted(s))

\* Once a phase is over, nobody is missing from its services.
AllIn ==
  /\ pc \in {"issue", "disks", "done"} \/ InOthers => Systems \subseteq members["MicroCloud"]
  /\ pc \in {"disks", "done"} =>
       \A s \in Services \ meddled : Systems \subseteq members[s]

\* A token that will be deleted has not been used.
Unused ==
  \A s \in Services, n \in Systems :
    <<s, n>> \in tokens \ Leftover => n \notin members[s]

\* Together with TypeOK and TokenInv, inductive.
ClusterInv ==
  /\ KnownIn /\ HooksIdle /\ NoTokensYet /\ Fresh /\ AsKnown /\ CloudLoop
  /\ Issuing /\ Covered /\ NotInYet /\ PolledIn /\ SizeRight /\ AllIn /\ Unused
  /\ LocalFirst /\ MeddledReused

-----------------------------------------------------------------------------
(* ClusterInv is inductive.                                                 *)

LEMMA ClusterInit == Init => ClusterInv
<1> SUFFICES ASSUME Init
             PROVE  ClusterInv
  OBVIOUS
<1> USE FormationAssumption
<1>1. pc = "bootstrap" /\ ~Busy /\ ~InCloud /\ ~InOthers
  BY DEF Init, Busy, InCloud, InOthers
<1>2. KnownIn /\ NoTokensYet /\ Unused
  BY DEF Init, KnownIn, NoTokensYet, Unused, Steps, Ends
<1>3. Fresh /\ HooksIdle
  BY DEF Init, Fresh, SeenRight, HooksIdle, Idle
<1>4. AsKnown /\ CloudLoop /\ Issuing /\ Covered /\ NotInYet /\ PolledIn
      /\ SizeRight /\ AllIn
  BY <1>1 DEF AsKnown, CloudLoop, Issuing, Covered, NotInYet, PolledIn, SizeRight, AllIn
<1>5. LocalFirst /\ MeddledReused
  BY <1>1 DEF Init, LocalFirst, MeddledReused
<1> QED
  BY <1>2, <1>3, <1>4, <1>5 DEF ClusterInv

\* An attempt that ends leaves little to say.
LEMMA ClusterEnds ==
  ASSUME TypeOK, ClusterInv, NEW how \in {"failed", "killed"}, End(how),
         UNCHANGED members, tokens' \subseteq tokens, stray \subseteq stray'
  PROVE  ClusterInv'
<1> USE FormationAssumption
<1>1. pc' = how /\ ~Busy' /\ ~InCloud' /\ ~InOthers'
  BY DEF End, Busy, InCloud, InOthers
<1>2. KnownIn'
  BY DEF ClusterInv, KnownIn, End, Steps
<1>3. NoTokensYet' /\ HooksIdle'
  BY DEF NoTokensYet, HooksIdle, End, Idle
<1>4. Unused'
  BY DEF ClusterInv, Unused, Leftover
<1>5. Fresh' /\ AsKnown' /\ CloudLoop' /\ Issuing' /\ Covered' /\ NotInYet'
  BY <1>1 DEF Fresh, AsKnown, CloudLoop, Issuing, Covered, NotInYet
<1>6. PolledIn' /\ SizeRight' /\ AllIn'
  BY <1>1 DEF PolledIn, SizeRight, AllIn, Steps
<1>7. LocalFirst' /\ MeddledReused'
  BY <1>1 DEF End, ClusterInv, LocalFirst, MeddledReused
<1> QED
  BY <1>2, <1>3, <1>4, <1>5, <1>6, <1>7 DEF ClusterInv

\* A step of a hook that touches neither clusters nor plan.
LEMMA ClusterQuiet ==
  ASSUME ClusterInv, HooksIdle', Fresh', Issuing', Unused',
         UNCHANGED <<members, plan, pc, loop, todo, peer, clustered, meddled>>
  PROVE  ClusterInv'
<1>1. KnownIn' /\ NoTokensYet' /\ AsKnown' /\ CloudLoop'
  BY DEF ClusterInv, KnownIn, NoTokensYet, AsKnown, SeenRight, CloudLoop, Busy,
     InCloud, plan
<1>2. Covered' /\ NotInYet' /\ PolledIn'
  BY DEF ClusterInv, Covered, NotInYet, PolledIn, Busy, InOthers, plan
<1>3. SizeRight'
  BY DEF ClusterInv, SizeRight, Counted, Waiting, plan
<1>4. AllIn'
  BY DEF ClusterInv, AllIn, Busy, InOthers
<1>5. LocalFirst' /\ MeddledReused'
  BY DEF ClusterInv, LocalFirst, Busy, MeddledReused
<1> QED
  BY <1>1, <1>2, <1>3, <1>4, <1>5 DEF ClusterInv

\* The hooks of setupCluster and of addPeers.
LEMMA ClusterHooks ==
  ASSUME TypeOK, TokenInv, ClusterInv, NEW s \in Services,
         \/ SkipBootstrap(s) \/ SkipToken(s) \/ IssueToken(s)
         \/ IssueTokenFails(s) \/ JoinReturns(s)
  PROVE  ClusterInv'
<1> USE FormationAssumption
<1>1. CASE SkipBootstrap(s)
  <2>1. /\ pc = "bootstrap" /\ hook[s] = "todo" /\ known[s] # {}
        /\ hook' = [hook EXCEPT ![s] = "ok"]
        /\ UNCHANGED <<services, plan, pc, loop, todo, peer, clustered, meddled>>
    BY <1>1 DEF SkipBootstrap, Callable, SetHook, run
  <2>2. HooksIdle' /\ Issuing'
    BY <2>1 DEF HooksIdle, Issuing
  <2>3. Fresh'
    BY <2>1 DEF ClusterInv, Fresh, SeenRight, services, plan, TypeOK
  <2>4. Unused'
    BY <2>1 DEF ClusterInv, Unused, services, Leftover
  <2> QED
    BY <2>1, <2>2, <2>3, <2>4, ClusterQuiet DEF services, plan
<1>2. CASE SkipToken(s)
  <2>1. /\ pc = "issue" /\ ~NeedsToken(s, peer)
        /\ hook' = [hook EXCEPT ![s] = "ok"]
        /\ UNCHANGED <<services, plan, pc, loop, todo, peer, clustered, meddled>>
    BY <1>2 DEF SkipToken, SetHook, run
  <2>2. HooksIdle' /\ Fresh'
    BY <2>1 DEF HooksIdle, Fresh
  <2>3. Issuing'
    BY <2>1 DEF ClusterInv, Issuing, NeedsToken, plan, TypeOK
  <2>4. Unused'
    BY <2>1 DEF ClusterInv, Unused, services, Leftover
  <2> QED
    BY <2>1, <2>2, <2>3, <2>4, ClusterQuiet DEF services, plan
<1>3. CASE IssueToken(s) \/ IssueTokenFails(s)
  <2>1. /\ pc = "issue" /\ NeedsToken(s, peer)
        /\ UNCHANGED <<members, plan, pc, loop, todo, peer, clustered, meddled>>
        /\ tokens' \subseteq tokens \cup {<<s, peer>>} /\ stray \subseteq stray'
    BY <1>3 DEF IssueToken, IssueTokenFails, run
  <2>2. /\ hook' \in [Services -> {"todo", "running", "ok", "err"}]
        /\ hook'[s] # "ok"
        /\ \A x \in Services \ {s} : hook'[x] = hook[x]
    BY <1>3 DEF IssueToken, IssueTokenFails, SetHook, TypeOK
  <2>3. HooksIdle' /\ Fresh'
    BY <2>1 DEF HooksIdle, Fresh
  <2>4. Issuing'
    BY <2>1, <2>2 DEF ClusterInv, Issuing, NeedsToken, plan
  <2>5. peer \in Systems /\ peer \notin members[s]
    BY <2>1 DEF NeedsToken, ClusterInv, AsKnown, SeenRight, TypeOK
  <2>6. Unused'
    BY <2>1, <2>5 DEF ClusterInv, Unused, Leftover
  <2> QED
    BY <2>1, <2>3, <2>4, <2>6, ClusterQuiet DEF plan
<1>4. CASE JoinReturns(s)
  <2>1. /\ pc = "request"
        /\ UNCHANGED <<services, plan, pc, loop, todo, peer, clustered, meddled>>
    BY <1>4 DEF JoinReturns, run
  <2>2. HooksIdle' /\ Issuing' /\ Fresh'
    BY <2>1 DEF HooksIdle, Issuing, Fresh
  <2>3. Unused'
    BY <2>1 DEF ClusterInv, Unused, services, Leftover
  <2> QED
    BY <2>1, <2>2, <2>3, ClusterQuiet DEF services, plan
<1> QED
  BY <1>1, <1>2, <1>3, <1>4

\* setupCluster, up to addPeers.
LEMMA ClusterBootstrap ==
  ASSUME TypeOK, TokenInv, ClusterInv, NEW s \in Services, Bootstrap(s)
  PROVE  ClusterInv'
<1> USE FormationAssumption
<1>1. PICK exists \in BOOLEAN, ok \in BOOLEAN :
        /\ ok => exists
        /\ members' = [members EXCEPT ![s] = IF exists THEN {Local} ELSE @]
        /\ known' = [known EXCEPT ![s] = IF ok THEN {Local} ELSE @]
        /\ hook' = [hook EXCEPT ![s] = IF ok THEN "ok" ELSE "err"]
  BY DEF Bootstrap, SetHook
<1>2. /\ pc = "bootstrap" /\ known[s] = {}
      /\ UNCHANGED <<tokens, stray, size, cfg, reverts, pc, loop, todo, peer,
                     clustered, meddled>>
  BY DEF Bootstrap, run
<1>3. ~Busy' /\ ~InCloud' /\ ~InOthers'
  BY <1>2 DEF Busy, InCloud, InOthers
<1>4. \A x \in Services : /\ known'[x] \subseteq members'[x]
                          /\ x # s => members'[x] = members[x] /\ known'[x] = known[x]
  BY <1>1, <1>2 DEF ClusterInv, KnownIn, TypeOK
<1>5. members'[s] = {Local} \/ members'[s] = members[s]
  BY <1>1 DEF TypeOK
<1>6. KnownIn'
  BY <1>2, <1>4, <1>5 DEF ClusterInv, KnownIn, Steps
<1>7. Fresh'
  <2> SUFFICES ASSUME NEW x \in Services
               PROVE  /\ hook'[x] \in {"todo", "ok"} => SeenRight(x)'
                      /\ hook'[x] = "ok" => known'[x] # {}
    BY DEF Fresh
  <2>1. CASE x = s
    BY <2>1, <1>1 DEF TypeOK, SeenRight
  <2>2. CASE x # s
    <3>1. hook'[x] = hook[x] /\ (SeenRight(x)' <=> SeenRight(x))
      BY <2>2, <1>1, <1>2, <1>4 DEF TypeOK, SeenRight
    <3> QED
      BY <2>2, <3>1, <1>2, <1>4 DEF ClusterInv, Fresh
  <2> QED
    BY <2>1, <2>2
<1>8. NoTokensYet'
  BY <1>2 DEF ClusterInv, NoTokensYet
<1>9. HooksIdle' /\ AsKnown' /\ CloudLoop' /\ Issuing' /\ Covered' /\ NotInYet'
  BY <1>2, <1>3 DEF HooksIdle, AsKnown, CloudLoop, Issuing, Covered, NotInYet
<1>10. PolledIn' /\ SizeRight' /\ AllIn'
  BY <1>2, <1>3 DEF PolledIn, SizeRight, AllIn
<1>11. Unused'
  <2>1. Unrecorded = {} /\ reverts = {}
    BY <1>2 DEF Unrecorded, ClusterInv, NoTokensYet
  <2>2. tokens \subseteq Leftover
    BY <1>2, <2>1 DEF TokenInv
  <2> QED
    BY <1>2, <2>2 DEF Unused, Leftover
<1>12. LocalFirst' /\ MeddledReused'
  BY <1>2, <1>3 DEF ClusterInv, LocalFirst, MeddledReused
<1> QED
  BY <1>6, <1>7, <1>8, <1>9, <1>10, <1>11, <1>12 DEF ClusterInv

\* addPeers starts with the sizes that the clusters have.
LEMMA ClusterAddPeers ==
  ASSUME TypeOK, ClusterInv, AddPeers
  PROVE  ClusterInv'
<1> USE FormationAssumption
<1>1. /\ pc = "bootstrap" /\ pc' = "cloud"
      /\ \A s \in Services : hook[s] = "ok" /\ hook'[s] = "todo"
      /\ size' = Sizes
      /\ todo' = Systems \ (known["MicroCloud"] \cup {Local})
      /\ UNCHANGED <<services, known, cfg, reverts, loop, peer, clustered, meddled>>
  BY DEF AddPeers, Ok, Idle, run
<1>2. ~Busy' /\ InCloud' /\ ~InOthers'
  BY <1>1 DEF Busy, InCloud, InOthers
<1>3. \A s \in Services : SeenRight(s) /\ known[s] # {}
  BY <1>1 DEF ClusterInv, Fresh
<1>4. /\ Local \in members["MicroCloud"]
      /\ known["MicroCloud"] = members["MicroCloud"]
  BY <1>3 DEF ClusterInv, KnownIn, SeenRight, MeddledReused
<1>5. KnownIn'
  BY <1>1, <1>4 DEF ClusterInv, KnownIn, services
<1>6. NoTokensYet' /\ HooksIdle'
  BY <1>1 DEF ClusterInv, NoTokensYet, HooksIdle, Ends
<1>7. AsKnown'
  BY <1>1, <1>3 DEF AsKnown, SeenRight, services
<1>8. CloudLoop'
  BY <1>1, <1>2, <1>4 DEF CloudLoop, services
<1>9. Fresh' /\ Issuing' /\ Covered' /\ NotInYet' /\ PolledIn' /\ AllIn'
  BY <1>1, <1>2 DEF Fresh, Issuing, Covered, NotInYet, PolledIn, AllIn
<1>10. SizeRight'
  <2>1. \A s \in Services : Counted(s)' = members[s]
    BY <1>1 DEF Counted, Waiting, services
  <2> QED
    BY <1>1, <1>3, <2>1 DEF SizeRight, Sizes, SeenRight
<1>11. Unused' /\ LocalFirst' /\ MeddledReused'
  BY <1>1, <1>2 DEF ClusterInv, Unused, services, Leftover, LocalFirst, MeddledReused
<1> QED
  BY <1>5, <1>6, <1>7, <1>8, <1>9, <1>10, <1>11 DEF ClusterInv

\* A request is sent to a system that is in none of the services it is for.
LEMMA ClusterRequest ==
  ASSUME TypeOK, ClusterInv, NEW n \in Systems,
         JoinCloud(n) \/ JoinPeer(n) \/ (n = Local /\ cfg[Local] # {} /\ JoinLocal)
  PROVE  ClusterInv'
<1> USE FormationAssumption
<1> DEFINE S == IF pc = "cloud" THEN {"MicroCloud"} ELSE cfg[n]
<1>1. /\ pc \in {"cloud", "local", "peers"}
      /\ pc = "local" => n = Local
      /\ pc # "local" => n \in todo
      /\ loop' = pc /\ pc' = "request" /\ peer' = n
      /\ cfg' = [cfg EXCEPT ![n] = S]
      /\ todo' = todo \ {n}
      /\ tokens' \subseteq tokens \cup {<<"MicroCloud", n>>}
      /\ UNCHANGED <<members, stray, known, size, reverts, hook, clustered, meddled>>
  BY DEF JoinCloud, JoinPeer, JoinLocal, Request, services, run
<1>2. S \subseteq Services /\ cfg'[n] = S /\ \A m \in Systems \ {n} : cfg'[m] = cfg[m]
  BY <1>1 DEF TypeOK
<1>3. \A s \in S : n \notin members[s]
  <2>1. CASE pc = "cloud"
    BY <1>1, <2>1 DEF ClusterInv, CloudLoop, InCloud
  <2>2. CASE pc # "cloud"
    BY <1>1, <2>2 DEF ClusterInv, NotInYet, InOthers, Busy
  <2> QED
    BY <2>1, <2>2
<1> HIDE DEF S
<1>4. /\ Busy' /\ (InCloud' <=> pc = "cloud") /\ (InOthers' <=> pc # "cloud")
      /\ (InCloud <=> pc = "cloud") /\ (InOthers <=> pc # "cloud") /\ ~Busy
  BY <1>1 DEF Busy, InCloud, InOthers
<1>5. KnownIn'
  BY <1>1 DEF ClusterInv, KnownIn, Steps
<1>6. NoTokensYet' /\ HooksIdle' /\ Fresh' /\ Issuing'
  BY <1>1 DEF NoTokensYet, HooksIdle, Fresh, Issuing, Ends
<1>7. AsKnown'
  BY <1>1, <1>4 DEF ClusterInv, AsKnown, SeenRight
<1>8. CloudLoop'
  <2> SUFFICES ASSUME pc = "cloud"
               PROVE  /\ todo' \cap members'["MicroCloud"] = {}
                      /\ \A m \in Systems : \/ m \in members'["MicroCloud"] \cup todo'
                                            \/ m = n
                      /\ \A m \in Systems : cfg'[m] = IF m = n THEN {"MicroCloud"} ELSE {}
    BY <1>1, <1>4 DEF CloudLoop
  <2>1. todo \cap members["MicroCloud"] = {} /\ Systems \subseteq members["MicroCloud"] \cup todo
    BY <1>4 DEF ClusterInv, CloudLoop
  <2>2. \A m \in Systems : cfg[m] = {}
    BY DEF ClusterInv, NoTokensYet
  <2>3. S = {"MicroCloud"}
    BY DEF S
  <2> QED
    BY <2>1, <2>2, <2>3, <1>1, <1>2
<1>9. Covered'
  <2> SUFFICES ASSUME pc # "cloud"
               PROVE  Covered'
    BY <1>4 DEF Covered
  <2>1. S = cfg[n]
    BY DEF S
  <2>2. \A m \in Systems : cfg'[m] = cfg[m]
    BY <2>1, <1>2
  <2> QED
    BY <2>2, <1>1, <1>4 DEF ClusterInv, Covered
<1>10. NotInYet'
  <2> SUFFICES ASSUME NEW m \in Systems, m # n, pc # "cloud", NEW s \in cfg'[m]
               PROVE  m \notin members'[s]
    BY <1>1, <1>4 DEF NotInYet
  <2> QED
    BY <1>1, <1>2, <1>4 DEF ClusterInv, NotInYet
<1>11. PolledIn'
  BY <1>1 DEF PolledIn, Busy
<1>12. SizeRight'
  <2> SUFFICES ASSUME NEW s \in Services \ meddled
               PROVE  size'[s] = Cardinality(Counted(s)')
    BY <1>1 DEF SizeRight
  <2>1. Waiting' = S /\ Waiting = {}
    BY <1>1, <1>2 DEF Waiting
  <2>2. Counted(s)' = members[s] /\ Counted(s) = members[s]
    BY <2>1, <1>1, <1>3 DEF Counted
  <2> QED
    BY <2>2, <1>1 DEF ClusterInv, SizeRight, Steps
<1>13. AllIn'
  BY <1>1, <1>4 DEF ClusterInv, AllIn
<1>14. Unused'
  BY <1>1 DEF ClusterInv, Unused, Leftover
<1>15. LocalFirst' /\ MeddledReused'
  BY <1>1, <1>4 DEF ClusterInv, LocalFirst, MeddledReused
<1> QED
  BY <1>5, <1>6, <1>7, <1>8, <1>9, <1>10, <1>11, <1>12, <1>13, <1>14, <1>15
  DEF ClusterInv

\* The loop that issues the tokens.
LEMMA ClusterIssue ==
  ASSUME TypeOK, TokenInv, ClusterInv, IssueTokens \/ NextPeer
  PROVE  ClusterInv'
<1> USE FormationAssumption
<1>1. /\ pc \in {"cloud", "issue"} /\ pc' \in {"issue", "local"}
      /\ UNCHANGED <<services, plan, loop, clustered, meddled>>
      /\ pc = "cloud" => pc' = "issue" /\ todo = {} /\ todo' = Systems
      /\ pc = "issue" => /\ todo' = todo \ {peer}
                         /\ \A s \in Services : hook[s] = "ok"
      /\ pc' = "issue" => peer' \in todo'
      /\ pc' = "local" => todo' = {}
      /\ \A s \in Services : hook'[s] = "todo"
  BY DEF IssueTokens, NextPeer, Ok, Idle, ClusterInv, HooksIdle, run
<1>2. /\ ~Busy /\ ~Busy' /\ ~InCloud' /\ (InCloud <=> pc = "cloud") /\ ~InOthers
      /\ (InOthers' <=> pc' = "local")
  BY <1>1 DEF Busy, InCloud, InOthers
<1>3. Systems \subseteq members["MicroCloud"]
  BY <1>1, <1>2 DEF ClusterInv, CloudLoop, AllIn
<1>4. \A s \in Services \ {"MicroCloud"} : SeenRight(s)
  BY <1>1, <1>2 DEF ClusterInv, AsKnown
<1>5. \A n \in Systems \ todo', s \in Services : NeedsToken(s, n) => s \in cfg[n]
  BY <1>1 DEF ClusterInv, Issuing, TypeOK
<1>6. KnownIn' /\ HooksIdle'
  BY <1>1 DEF ClusterInv, KnownIn, HooksIdle, Steps, services, plan
<1>7. NoTokensYet' /\ Fresh' /\ CloudLoop' /\ PolledIn'
  BY <1>1, <1>2 DEF NoTokensYet, Fresh, CloudLoop, PolledIn, Ends
<1>8. AsKnown'
  BY <1>1, <1>4 DEF AsKnown, SeenRight, services, plan
<1>9. Issuing'
  BY <1>1, <1>5 DEF Issuing, NeedsToken, plan
<1>10. Covered'
  <2> SUFFICES ASSUME pc' = "local", NEW n \in Systems, NEW s \in Services \ {"MicroCloud"}
               PROVE  n \in members'[s] \/ s \in cfg'[n]
    BY <1>1, <1>2 DEF Covered
  <2> QED
    BY <1>1, <1>4, <1>5 DEF NeedsToken, SeenRight, services, plan
<1>11. NotInYet'
  <2> SUFFICES ASSUME NEW n \in Systems, NEW s \in cfg[n]
               PROVE  n \notin members[s]
    BY <1>1 DEF NotInYet, services, plan
  <2>1. pc = "cloud" => cfg[n] = {}
    BY DEF ClusterInv, NoTokensYet
  <2> QED
    BY <1>1, <1>2, <2>1 DEF ClusterInv, NotInYet
<1>12. SizeRight'
  BY <1>1 DEF ClusterInv, SizeRight, Counted, Waiting, Steps, services, plan
<1>13. AllIn'
  BY <1>1, <1>3 DEF AllIn, services
<1>14. Unused' /\ LocalFirst' /\ MeddledReused'
  BY <1>1, <1>2 DEF ClusterInv, Unused, services, Leftover, LocalFirst, MeddledReused
<1> QED
  BY <1>6, <1>7, <1>8, <1>9, <1>10, <1>11, <1>12, <1>13, <1>14 DEF ClusterInv

\* A token is recorded for a system that needs it.
LEMMA ClusterRecord ==
  ASSUME TypeOK, ClusterInv, NEW s \in Services, RecordToken(s)
  PROVE  ClusterInv'
<1> USE FormationAssumption
<1>1. /\ pc = "issue" /\ hook[s] = "running"
      /\ cfg' = [cfg EXCEPT ![peer] = @ \cup {s}]
      /\ hook' = [hook EXCEPT ![s] = "ok"]
      /\ UNCHANGED <<services, known, size, pc, loop, todo, peer, clustered, meddled>>
  BY DEF RecordToken, SetHook, run
<1>2. /\ ~Busy /\ ~Busy' /\ ~InCloud /\ ~InCloud' /\ ~InOthers /\ ~InOthers'
  BY <1>1 DEF Busy, InCloud, InOthers
<1>3. /\ cfg'[peer] = cfg[peer] \cup {s} /\ peer \in Systems
      /\ \A n \in Systems \ {peer} : cfg'[n] = cfg[n]
  BY <1>1 DEF TypeOK
<1>4. NeedsToken(s, peer)
  BY <1>1 DEF ClusterInv, Issuing
<1>5. KnownIn' /\ HooksIdle' /\ AsKnown'
  BY <1>1, <1>2 DEF ClusterInv, KnownIn, HooksIdle, AsKnown, SeenRight, services
<1>6. NoTokensYet' /\ Fresh' /\ CloudLoop' /\ Covered' /\ PolledIn'
  BY <1>1, <1>2 DEF NoTokensYet, Fresh, CloudLoop, Covered, PolledIn, Ends
<1>7. Issuing'
  <2>1. /\ peer \in todo
        /\ \A n \in Systems \ todo, x \in Services : NeedsToken(x, n) => x \in cfg[n]
        /\ \A x \in Services :
             /\ hook[x] = "running" => NeedsToken(x, peer)
             /\ hook[x] = "ok" /\ NeedsToken(x, peer) => x \in cfg[peer]
    BY <1>1 DEF ClusterInv, Issuing
  <2>2. \A x \in Services, n \in Systems : NeedsToken(x, n)' <=> NeedsToken(x, n)
    BY <1>1 DEF NeedsToken
  <2>3. \A x \in Services \ {s} : hook'[x] = hook[x]
    BY <1>1 DEF TypeOK
  <2>4. hook'[s] = "ok"
    BY <1>1 DEF TypeOK
  <2>5. \A n \in Systems \ todo', x \in Services : NeedsToken(x, n)' => x \in cfg'[n]
    BY <2>1, <2>2, <1>1, <1>3
  <2>6. ASSUME NEW x \in Services
        PROVE  /\ hook'[x] = "running" => NeedsToken(x, peer)'
               /\ hook'[x] = "ok" /\ NeedsToken(x, peer)' => x \in cfg'[peer]
    <3>1. NeedsToken(x, peer)' <=> NeedsToken(x, peer)
      BY <1>1 DEF NeedsToken
    <3>2. CASE x = s
      BY <3>2, <2>4, <1>1, <1>3
    <3>3. CASE x # s
      BY <3>1, <3>3, <2>1, <2>3, <1>1, <1>3
    <3> QED
      BY <3>2, <3>3
  <2> QED
    BY <2>1, <2>5, <2>6, <1>1 DEF Issuing, NeedsToken
<1>8. NotInYet'
  <2>1. peer \notin members[s]
    BY <1>1, <1>3, <1>4 DEF NeedsToken, ClusterInv, AsKnown, SeenRight
  <2>2. \A n \in Systems : \A x \in cfg[n] : n \notin members[x]
    BY <1>1, <1>2 DEF ClusterInv, NotInYet
  <2> QED
    BY <2>1, <2>2, <1>1, <1>3 DEF NotInYet, services
<1>9. SizeRight'
  BY <1>1 DEF ClusterInv, SizeRight, Counted, Waiting, services
<1>10. AllIn'
  BY <1>1, <1>2 DEF ClusterInv, AllIn, services
<1>11. Unused' /\ LocalFirst' /\ MeddledReused'
  BY <1>1, <1>2 DEF ClusterInv, Unused, services, Leftover, LocalFirst, MeddledReused
<1> QED
  BY <1>5, <1>6, <1>7, <1>8, <1>9, <1>10, <1>11 DEF ClusterInv

\* From the local system to the peers, and from the peers to the disks.
LEMMA ClusterPhase ==
  ASSUME TypeOK, ClusterInv, (JoinLocal /\ cfg[Local] = {}) \/ PeersJoined
  PROVE  ClusterInv'
<1> USE FormationAssumption
<1>1. /\ UNCHANGED <<services, plan, loop, peer, hook, clustered, meddled>>
      /\ \/ /\ pc = "local" /\ pc' = "peers" /\ cfg[Local] = {}
            /\ todo' = {n \in Systems \ {Local} : cfg[n] # {}}
         \/ pc = "peers" /\ todo = {} /\ pc' = "disks"
  BY DEF JoinLocal, PeersJoined, plan, run
<1>2. /\ ~Busy /\ ~Busy' /\ ~InCloud /\ ~InCloud' /\ InOthers
      /\ (InOthers' <=> pc' = "peers")
  BY <1>1 DEF Busy, InCloud, InOthers
<1>3. KnownIn' /\ HooksIdle'
  BY <1>1 DEF ClusterInv, KnownIn, HooksIdle, Steps, services, plan
<1>4. NoTokensYet' /\ Fresh' /\ CloudLoop' /\ PolledIn' /\ Issuing' /\ AsKnown'
  BY <1>1, <1>2 DEF NoTokensYet, Fresh, CloudLoop, PolledIn, Issuing, AsKnown, Ends
<1>5. Covered'
  BY <1>1, <1>2 DEF ClusterInv, Covered, services, plan
<1>6. NotInYet'
  BY <1>1, <1>2 DEF ClusterInv, NotInYet, services, plan
<1>7. SizeRight'
  BY <1>1 DEF ClusterInv, SizeRight, Counted, Waiting, Steps, services, plan
<1>8. AllIn'
  <2>1. Systems \subseteq members["MicroCloud"]
    BY <1>2 DEF ClusterInv, AllIn
  <2>2. pc = "peers" /\ todo = {} =>
          \A s \in Services \ meddled : Systems \subseteq members[s]
    BY <2>1, <1>2 DEF ClusterInv, Covered
  <2> QED
    BY <1>1, <2>1, <2>2 DEF AllIn, services
<1>9. Unused' /\ LocalFirst' /\ MeddledReused'
  BY <1>1, <1>2 DEF ClusterInv, Unused, services, Leftover, LocalFirst, MeddledReused
<1> QED
  BY <1>3, <1>4, <1>5, <1>6, <1>7, <1>8, <1>9 DEF ClusterInv

\* The joiner: whatever its hooks do, only the peer's own membership changes.
LEMMA ClusterJoin ==
  ASSUME TypeOK, ClusterInv, NEW s \in Services, Join(s)
  PROVE  ClusterInv'
<1> USE FormationAssumption
<1>1. PICK joined \in BOOLEAN :
        /\ members' = [members EXCEPT ![s] = IF joined THEN @ \cup {peer} ELSE @]
        /\ tokens' = IF joined THEN tokens \ {<<s, peer>>} ELSE tokens
  BY DEF Join
<1>2. /\ pc = "request" /\ s \in cfg[peer]
      /\ UNCHANGED <<stray, plan, pc, loop, todo, peer, clustered, meddled>>
  BY DEF Join, Callable, Group, run
<1>3. Busy /\ Busy' /\ (InCloud' <=> InCloud) /\ (InOthers' <=> InOthers)
  BY <1>2 DEF Busy, InCloud, InOthers
<1>4. /\ \A x \in Services : /\ members[x] \subseteq members'[x]
                             /\ members'[x] \subseteq members[x] \cup {peer}
                             /\ x # s => members'[x] = members[x]
      /\ peer \in Systems
  BY <1>1 DEF TypeOK
<1>5. KnownIn'
  BY <1>2, <1>4 DEF ClusterInv, KnownIn, Steps, plan
<1>6. NoTokensYet' /\ HooksIdle' /\ Fresh' /\ Issuing'
  BY <1>2 DEF NoTokensYet, HooksIdle, Fresh, Issuing, Ends
<1>7. InCloud => s = "MicroCloud"
  BY <1>2, <1>3, <1>4 DEF ClusterInv, CloudLoop
<1>8. AsKnown'
  BY <1>2, <1>3, <1>4, <1>7 DEF ClusterInv, AsKnown, SeenRight, plan
<1>9. peer \notin todo
  BY <1>3 DEF ClusterInv, PolledIn
<1>10. CloudLoop'
  <2> SUFFICES ASSUME InCloud
               PROVE  /\ todo \cap members'["MicroCloud"] = {}
                      /\ \A n \in Systems : \/ n \in members'["MicroCloud"] \cup todo
                                            \/ n = peer
                      /\ \A n \in Systems : cfg[n] = IF n = peer THEN {"MicroCloud"} ELSE {}
    BY <1>2, <1>3 DEF CloudLoop, plan
  <2> QED
    BY <1>3, <1>4, <1>9 DEF ClusterInv, CloudLoop
<1>11. Covered'
  BY <1>2, <1>3, <1>4 DEF ClusterInv, Covered, plan
<1>12. NotInYet'
  <2> SUFFICES ASSUME InOthers, NEW n \in Systems, n # peer, NEW x \in cfg[n]
               PROVE  n \notin members'[x]
    BY <1>2, <1>3 DEF NotInYet, plan
  <2>1. x \in Services /\ n \notin members[x]
    BY DEF ClusterInv, NotInYet, TypeOK
  <2> QED
    BY <2>1, <1>4
<1>13. PolledIn'
  BY <1>2, <1>9 DEF PolledIn
<1>14. SizeRight'
  <2> SUFFICES ASSUME NEW x \in Services \ meddled
               PROVE  size'[x] = Cardinality(Counted(x)')
    BY <1>2 DEF SizeRight
  <2>1. Waiting' = cfg[peer] /\ Waiting = cfg[peer]
    BY <1>2 DEF Waiting, plan
  <2>2. Counted(x)' = Counted(x)
    <3>1. CASE x = s
      BY <3>1, <2>1, <1>2, <1>4 DEF Counted
    <3>2. CASE x # s
      BY <3>2, <2>1, <1>2, <1>4 DEF Counted
    <3> QED
      BY <3>1, <3>2
  <2> QED
    BY <2>2, <1>2 DEF ClusterInv, SizeRight, Steps, plan
<1>15. AllIn' /\ LocalFirst' /\ MeddledReused'
  BY <1>2, <1>3, <1>4 DEF ClusterInv, AllIn, LocalFirst, MeddledReused
<1>16. Unused'
  <2> SUFFICES ASSUME NEW x \in Services, NEW n \in Systems,
                      <<x, n>> \in tokens', <<x, n>> \notin Leftover
               PROVE  n \notin members'[x]
    BY <1>2 DEF Unused, Leftover
  <2>1. <<x, n>> \in tokens /\ n \notin members[x]
    BY <1>1 DEF ClusterInv, Unused
  <2>2. CASE joined /\ x = s
    BY <2>1, <2>2, <1>1, <1>4
  <2>3. CASE ~joined \/ x # s
    BY <2>1, <2>3, <1>1, <1>4 DEF TypeOK
  <2> QED
    BY <2>2, <2>3
<1> QED
  BY <1>5, <1>6, <1>8, <1>10, <1>11, <1>12, <1>13, <1>14, <1>15, <1>16 DEF ClusterInv

\* waitForJoin begins to look.
LEMMA ClusterJoined ==
  ASSUME TypeOK, ClusterInv, Joined
  PROVE  ClusterInv'
<1> USE FormationAssumption
<1>1. /\ pc = "request" /\ pc' = "poll" /\ clustered' = cfg[peer]
      /\ \A s \in Services : hook'[s] = "todo"
      /\ UNCHANGED <<services, plan, loop, todo, peer, meddled>>
  BY DEF Joined, Group, Idle, run
<1>2. Busy /\ Busy' /\ (InCloud' <=> InCloud) /\ (InOthers' <=> InOthers)
  BY <1>1 DEF Busy, InCloud, InOthers
<1>3. KnownIn' /\ HooksIdle' /\ AsKnown'
  BY <1>1, <1>2
  DEF ClusterInv, KnownIn, HooksIdle, AsKnown, SeenRight, Steps, services, plan
<1>4. NoTokensYet' /\ Fresh' /\ Issuing'
  BY <1>1 DEF NoTokensYet, Fresh, Issuing, Ends
<1>5. CloudLoop'
  BY <1>1, <1>2 DEF ClusterInv, CloudLoop, services, plan
<1>6. Covered'
  BY <1>1, <1>2 DEF ClusterInv, Covered, services, plan
<1>7. NotInYet'
  BY <1>1, <1>2 DEF ClusterInv, NotInYet, services, plan
<1>8. PolledIn'
  BY <1>1, <1>2 DEF ClusterInv, PolledIn, plan
<1>9. SizeRight'
  <2>1. Waiting' = Waiting
    BY <1>1 DEF Waiting
  <2> QED
    BY <2>1, <1>1 DEF ClusterInv, SizeRight, Counted, Steps, services, plan
<1>10. AllIn' /\ LocalFirst' /\ MeddledReused'
  BY <1>1, <1>2 DEF ClusterInv, AllIn, services, LocalFirst, MeddledReused
<1>11. Unused'
  BY <1>1 DEF ClusterInv, Unused, services, Leftover
<1> QED
  BY <1>3, <1>4, <1>5, <1>6, <1>7, <1>8, <1>9, <1>10, <1>11 DEF ClusterInv

\* Members are finite sets, so that a member more is a member more.
LEMMA MemberCount ==
  ASSUME TypeOK, NEW s \in Services, NEW n
  PROVE  /\ Cardinality(members[s]) \in Nat
         /\ n \in members[s] => Cardinality(members[s]) = Cardinality(members[s] \ {n}) + 1
         /\ n \notin members[s] => Cardinality(members[s] \ {n}) = Cardinality(members[s])
<1>1. IsFiniteSet(members[s])
  BY FormationAssumption, FS_Subset DEF TypeOK, Nodes
<1>2. Cardinality(members[s]) \in Nat
  BY <1>1, FS_CardinalityType
<1>3. ASSUME n \in members[s]
      PROVE  Cardinality(members[s] \ {n}) = Cardinality(members[s]) - 1
  BY <1>1, <1>3, FS_RemoveElement
<1>4. ASSUME n \notin members[s]
      PROVE  Cardinality(members[s] \ {n}) = Cardinality(members[s])
  BY <1>1, <1>4, FS_RemoveElement
<1> QED
  BY <1>2, <1>3, <1>4

\* A cluster that has grown by one has the peer.
LEMMA AppearedMeansIn ==
  ASSUME TypeOK, ClusterInv, pc = "poll", NEW s \in clustered \ meddled
  PROVE  Appeared(s) <=> peer \in members[s]
<1>1. s \in Services
  BY DEF TypeOK
<1>2. size[s] = Cardinality(members[s] \ {peer})
  BY <1>1 DEF ClusterInv, SizeRight, Counted, Waiting, Steps
<1>3. Appeared(s) <=> Cardinality(members[s]) = Cardinality(members[s] \ {peer}) + 1
  BY <1>2 DEF Appeared
<1>4. CASE peer \in members[s]
  BY <1>1, <1>3, <1>4, MemberCount
<1>5. CASE peer \notin members[s]
  <2>1. /\ Cardinality(members[s] \ {peer}) = Cardinality(members[s])
        /\ Cardinality(members[s]) \in Nat
    BY <1>1, <1>5, MemberCount
  <2> QED
    BY <2>1, <1>3, <1>5
<1> QED
  BY <1>4, <1>5

\* A look that finds the size finds the peer.
LEMMA ClusterPoll ==
  ASSUME TypeOK, ClusterInv, NEW s \in Services, Poll(s)
  PROVE  ClusterInv'
<1> USE FormationAssumption
<1>1. /\ pc = "poll" /\ s \in clustered /\ Appeared(s)
      /\ clustered' = clustered \ {s}
      /\ size' = [size EXCEPT ![s] = @ + 1]
      /\ UNCHANGED <<services, known, cfg, reverts, pc, loop, todo, peer, hook, meddled>>
  BY DEF Poll, run
<1>2. Busy /\ Busy' /\ (InCloud' <=> InCloud) /\ (InOthers' <=> InOthers)
  BY <1>1 DEF Busy, InCloud, InOthers
<1>3. s \notin meddled => peer \in members[s]
  BY <1>1, AppearedMeansIn
<1>4. KnownIn' /\ HooksIdle' /\ AsKnown'
  BY <1>1, <1>2 DEF ClusterInv, KnownIn, HooksIdle, AsKnown, SeenRight, services
<1>5. NoTokensYet' /\ Fresh' /\ Issuing'
  BY <1>1 DEF NoTokensYet, Fresh, Issuing, Ends
<1>6. CloudLoop'
  BY <1>1, <1>2 DEF ClusterInv, CloudLoop, services
<1>7. Covered'
  BY <1>1, <1>2 DEF ClusterInv, Covered, services
<1>8. NotInYet'
  BY <1>1, <1>2 DEF ClusterInv, NotInYet, services
<1>9. PolledIn'
  BY <1>1, <1>2, <1>3 DEF ClusterInv, PolledIn, services
<1>10. SizeRight'
  <2> SUFFICES ASSUME NEW x \in Services \ meddled
               PROVE  size'[x] = Cardinality(Counted(x)')
    BY <1>1 DEF SizeRight
  <2>1. Waiting' = clustered \ {s} /\ Waiting = clustered
    BY <1>1 DEF Waiting
  <2>2. size[x] = Cardinality(Counted(x))
    BY <1>1 DEF ClusterInv, SizeRight, Steps
  <2>3. CASE x = s
    <3>1. Counted(x)' = members[s]
      BY <2>1, <2>3, <1>1 DEF Counted, services
    <3>2. size'[s] = size[s] + 1
      BY <1>1 DEF TypeOK
    <3> QED
      BY <3>1, <3>2, <2>3, <1>1 DEF Appeared
  <2>4. CASE x # s
    <3>1. Counted(x)' = Counted(x)
      BY <2>1, <2>4, <1>1 DEF Counted, services
    <3>2. size'[x] = size[x]
      BY <2>4, <1>1 DEF TypeOK
    <3> QED
      BY <3>1, <3>2, <2>2
  <2> QED
    BY <2>3, <2>4
<1>11. AllIn' /\ LocalFirst' /\ MeddledReused'
  BY <1>1, <1>2 DEF ClusterInv, AllIn, services, LocalFirst, MeddledReused
<1>12. Unused'
  BY <1>1 DEF ClusterInv, Unused, services, Leftover
<1> QED
  BY <1>4, <1>5, <1>6, <1>7, <1>8, <1>9, <1>10, <1>11, <1>12 DEF ClusterInv

\* Back in the loop of addPeers: the peer is done.
LEMMA ClusterClustered ==
  ASSUME TypeOK, ClusterInv, Clustered
  PROVE  ClusterInv'
<1> USE FormationAssumption
<1>1. /\ pc = "poll" /\ clustered = {} /\ pc' = loop
      /\ cfg' = [cfg EXCEPT ![peer] = {}]
      /\ UNCHANGED <<services, known, size, reverts, loop, todo, hook, clustered,
                     meddled>>
  BY DEF Clustered, run
<1>2. loop \in {"cloud", "local", "peers"} /\ peer \in Systems
  BY DEF TypeOK
<1>3. /\ Busy /\ ~Busy' /\ (InCloud' <=> InCloud) /\ (InOthers' <=> InOthers)
      /\ (InCloud <=> loop = "cloud") /\ (InOthers <=> loop # "cloud")
  BY <1>1, <1>2 DEF Busy, InCloud, InOthers
<1>4. cfg'[peer] = {} /\ \A n \in Systems \ {peer} : cfg'[n] = cfg[n]
  BY <1>1, <1>2 DEF TypeOK
<1>5. \A s \in cfg[peer] \ meddled : peer \in members[s]
  BY <1>1 DEF ClusterInv, PolledIn
<1>6. KnownIn' /\ HooksIdle' /\ AsKnown'
  BY <1>1, <1>2, <1>3
  DEF ClusterInv, KnownIn, HooksIdle, AsKnown, SeenRight, Steps, services
<1>7. NoTokensYet'
  <2>1. loop = "cloud" => \A n \in Systems \ {peer} : cfg[n] = {}
    BY <1>3 DEF ClusterInv, CloudLoop
  <2> QED
    BY <2>1, <1>1, <1>2, <1>4 DEF NoTokensYet, Ends
<1>8. Fresh' /\ Issuing' /\ PolledIn'
  BY <1>1, <1>2, <1>3 DEF Fresh, Issuing, PolledIn
<1>9. CloudLoop'
  <2> SUFFICES ASSUME InCloud
               PROVE  /\ todo \cap members["MicroCloud"] = {}
                      /\ \A n \in Systems : n \in members["MicroCloud"] \cup todo
    BY <1>1, <1>3 DEF CloudLoop, services
  <2>1. cfg[peer] = {"MicroCloud"}
    BY <1>2, <1>3 DEF ClusterInv, CloudLoop
  <2>2. peer \in members["MicroCloud"]
    BY <2>1, <1>5 DEF ClusterInv, MeddledReused
  <2> QED
    BY <2>2 DEF ClusterInv, CloudLoop
<1>10. Covered'
  <2> SUFFICES ASSUME InOthers
               PROVE  Covered'
    BY <1>3 DEF Covered
  <2>1. \A n \in Systems, s \in Services \ {"MicroCloud"} :
          n \in members[s] \/ s \in cfg[n] \/ s \in meddled
    BY DEF ClusterInv, Covered
  <2>2. \A n \in Systems, s \in Services \ {"MicroCloud"} :
          n \in members'[s] \/ s \in cfg'[n] \/ s \in meddled'
    BY <2>1, <1>1, <1>4, <1>5 DEF services
  <2>3. loop = "peers" => \A n \in Systems : cfg[n] # {} => n \in todo \/ n = peer
    BY <1>3 DEF ClusterInv, Covered
  <2>4. loop = "peers" => \A n \in Systems : cfg'[n] # {} => n \in todo
    BY <2>3, <1>4
  <2> QED
    BY <2>2, <2>4, <1>1, <1>3 DEF Covered
<1>11. NotInYet'
  BY <1>1, <1>2, <1>3, <1>4 DEF ClusterInv, NotInYet, services
<1>12. SizeRight'
  <2>1. Waiting = {} /\ Waiting' = {}
    BY <1>1, <1>2 DEF Waiting
  <2>2. \A s \in Services : Counted(s)' = Counted(s)
    BY <2>1, <1>1 DEF Counted, services
  <2>3. \A s \in Services \ meddled : size[s] = Cardinality(Counted(s))
    BY <1>1 DEF ClusterInv, SizeRight, Steps
  <2> QED
    BY <2>2, <2>3, <1>1 DEF SizeRight
<1>13. AllIn' /\ LocalFirst' /\ MeddledReused'
  BY <1>1, <1>2, <1>3 DEF ClusterInv, AllIn, services, LocalFirst, MeddledReused, Busy
<1>14. Unused'
  BY <1>1 DEF ClusterInv, Unused, services, Leftover
<1> QED
  BY <1>6, <1>7, <1>8, <1>9, <1>10, <1>11, <1>12, <1>13, <1>14 DEF ClusterInv

\* The disks, and the end.
LEMMA ClusterDisks ==
  ASSUME TypeOK, ClusterInv, Success \/ \E n \in Systems : AddDisk(n)
  PROVE  ClusterInv'
<1> USE FormationAssumption
<1>1. /\ pc = "disks" /\ UNCHANGED <<members, tokens, stray, meddled>>
      /\ \/ pc' = "disks" /\ UNCHANGED <<known, hook>>
         \/ /\ pc' = "done" /\ \A s \in Services : known'[s] = {} /\ hook'[s] = "todo"
            /\ reverts' = {} /\ \A n \in Systems : cfg'[n] = {}
  BY DEF AddDisk, Success, End, Idle, services, plan, run
<1>2. ~Busy' /\ ~InCloud' /\ ~InOthers'
  BY <1>1 DEF Busy, InCloud, InOthers
<1>3. KnownIn' /\ HooksIdle'
  BY <1>1 DEF ClusterInv, KnownIn, HooksIdle, Steps
<1>4. NoTokensYet'
  BY <1>1 DEF NoTokensYet, Ends
<1>5. Fresh' /\ AsKnown' /\ CloudLoop' /\ Issuing' /\ Covered' /\ NotInYet'
  BY <1>1, <1>2 DEF Fresh, AsKnown, CloudLoop, Issuing, Covered, NotInYet
<1>6. PolledIn' /\ SizeRight'
  BY <1>1, <1>2 DEF PolledIn, SizeRight, Steps
<1>7. AllIn' /\ LocalFirst' /\ MeddledReused'
  BY <1>1, <1>2 DEF ClusterInv, AllIn, LocalFirst, MeddledReused
<1>8. Unused'
  BY <1>1 DEF ClusterInv, Unused, Leftover
<1> QED
  BY <1>3, <1>4, <1>5, <1>6, <1>7, <1>8 DEF ClusterInv

\* The command is run again, or a join outlives it.
LEMMA ClusterBetween ==
  ASSUME TypeOK, ClusterInv,
         Retry \/ \E s \in Services, n \in Systems : LateJoin(s, n)
  PROVE  ClusterInv'
<1> USE FormationAssumption
<1>1. pc \in {"failed", "killed"} /\ pc' \in {pc, "bootstrap"}
      /\ UNCHANGED <<stray, cfg, reverts, hook>>
  BY DEF Retry, LateJoin, plan
<1>2. /\ \A s \in Services : members[s] \subseteq members'[s]
      /\ members'["MicroCloud"] # {} => members["MicroCloud"] # {}
  <2>1. CASE Retry
    BY <2>1 DEF Retry
  <2>2. ASSUME NEW s \in Services, NEW n \in Systems, LateJoin(s, n)
        PROVE  \A x \in Services : /\ members[x] \subseteq members'[x]
                                   /\ members'[x] # {} => members[x] # {}
    <3>1. /\ members' = [members EXCEPT ![s] = @ \cup {n}] /\ members[s] # {}
      BY <2>2 DEF LateJoin
    <3> QED
      BY <3>1 DEF TypeOK
  <2> QED
    BY <2>1, <2>2
<1>3. \/ pc' = "bootstrap" /\ known' = members' /\ meddled' = {}
      \/ pc' = pc /\ UNCHANGED <<known, meddled>>
  BY DEF Retry, LateJoin, plan, run
<1>4. ~Busy' /\ ~InCloud' /\ ~InOthers'
  BY <1>1 DEF Busy, InCloud, InOthers
<1>5. KnownIn'
  BY <1>1, <1>2, <1>3 DEF ClusterInv, KnownIn, Steps
<1>6. \A s \in Services : hook'[s] = "todo"
  BY <1>1 DEF ClusterInv, HooksIdle
<1>7. HooksIdle' /\ Fresh'
  BY <1>1, <1>3, <1>6 DEF HooksIdle, Fresh, SeenRight
<1>8. NoTokensYet'
  BY <1>1 DEF ClusterInv, NoTokensYet, Ends
<1>9. /\ AsKnown' /\ CloudLoop' /\ Issuing' /\ Covered' /\ NotInYet' /\ PolledIn'
      /\ SizeRight' /\ AllIn'
  BY <1>1, <1>4 DEF AsKnown, CloudLoop, Issuing, Covered, NotInYet, PolledIn,
                    SizeRight, AllIn, Steps
<1>10. LocalFirst' /\ MeddledReused'
  BY <1>1, <1>3, <1>4 DEF ClusterInv, LocalFirst, MeddledReused
<1>11. Unused'
  <2>1. CASE Retry
    BY <2>1 DEF Retry, ClusterInv, Unused, Leftover
  <2>2. ASSUME NEW s \in Services, NEW n \in Systems, LateJoin(s, n)
        PROVE  Unused'
    <3> SUFFICES ASSUME NEW x \in Services, NEW m \in Systems,
                        <<x, m>> \in tokens', <<x, m>> \notin Leftover
                 PROVE  m \notin members'[x]
      BY <1>1 DEF Unused, Leftover
    <3>1. /\ <<x, m>> \in tokens /\ <<x, m>> # <<s, n>>
          /\ members'[x] = IF x = s THEN members[x] \cup {n} ELSE members[x]
      BY <2>2 DEF LateJoin, TypeOK
    <3>2. m \notin members[x]
      BY <3>1 DEF ClusterInv, Unused
    <3> QED
      BY <3>1, <3>2
  <2> QED
    BY <2>1, <2>2
<1> QED
  BY <1>5, <1>7, <1>8, <1>9, <1>10, <1>11 DEF ClusterInv

\* An outsider joins a service at any time: the sizes expected of it are void.
LEMMA ClusterOutsider ==
  ASSUME TypeOK, ClusterInv,
         NEW o \in Outsiders, NEW s \in Services, OutsiderJoins(o, s)
  PROVE  ClusterInv'
<1> USE FormationAssumption
<1>1. /\ s \in Reusable /\ members[s] # {}
      /\ meddled' = IF pc \in Steps THEN meddled \cup {s} ELSE meddled
      /\ UNCHANGED <<tokens, stray, known, size, cfg, reverts, pc, loop, todo,
                     peer, hook, clustered>>
  BY DEF OutsiderJoins, plan
<1>2. /\ \A x \in Services, n \in Systems : n \in members'[x] <=> n \in members[x]
      /\ \A x \in Services : members[x] \subseteq members'[x]
      /\ \A x \in Services \ {s} : members'[x] = members[x]
  BY DEF OutsiderJoins, TypeOK
<1>3. (Busy' <=> Busy) /\ (InCloud' <=> InCloud) /\ (InOthers' <=> InOthers)
  BY <1>1 DEF Busy, InCloud, InOthers
<1>4. pc \in Steps => \A x \in Services \ meddled' : x # s /\ x \notin meddled
  BY <1>1
<1>5. pc \in Steps => \A x \in Services : SeenRight(x) => SeenRight(x)'
  BY <1>1, <1>2, <1>4 DEF SeenRight
<1>6. KnownIn'
  BY <1>1, <1>2 DEF ClusterInv, KnownIn
<1>7. HooksIdle' /\ NoTokensYet'
  BY <1>1 DEF ClusterInv, HooksIdle, NoTokensYet
<1>8. Fresh' /\ AsKnown'
  BY <1>1, <1>3, <1>5 DEF ClusterInv, Fresh, AsKnown, Steps, InCloud, Busy
<1>9. CloudLoop'
  BY <1>1, <1>2, <1>3 DEF ClusterInv, CloudLoop
<1>10. Issuing'
  BY <1>1 DEF ClusterInv, Issuing, NeedsToken
<1>11. Covered' /\ NotInYet'
  BY <1>1, <1>2, <1>3 DEF ClusterInv, Covered, NotInYet, TypeOK
<1>12. PolledIn'
  BY <1>1, <1>2, <1>3 DEF ClusterInv, PolledIn, TypeOK
<1>13. SizeRight'
  <2> SUFFICES ASSUME pc \in Steps \ {"bootstrap", "disks"},
                      NEW x \in Services \ meddled'
               PROVE  size[x] = Cardinality(Counted(x)')
    BY <1>1 DEF SizeRight
  <2>1. x # s /\ x \notin meddled
    BY <1>4
  <2>2. Counted(x)' = Counted(x)
    BY <1>1, <1>2, <2>1 DEF Counted, Waiting
  <2> QED
    BY <2>1, <2>2 DEF ClusterInv, SizeRight
<1>14. AllIn'
  BY <1>1, <1>2, <1>3 DEF ClusterInv, AllIn
<1>15. Unused'
  BY <1>1, <1>2 DEF ClusterInv, Unused, Leftover
<1>16. LocalFirst' /\ MeddledReused'
  BY <1>1, <1>3 DEF ClusterInv, LocalFirst, MeddledReused
<1> QED
  BY <1>6, <1>7, <1>8, <1>9, <1>10, <1>11, <1>12, <1>13, <1>14, <1>15, <1>16
  DEF ClusterInv

\* Every step keeps ClusterInv.
LEMMA ClusterStep ==
  TypeOK /\ TokenInv /\ ClusterInv /\ [Next]_vars => ClusterInv'
<1> SUFFICES ASSUME TypeOK, TokenInv, ClusterInv, [Next]_vars
             PROVE  ClusterInv'
  OBVIOUS
<1>1. CASE HooksFail \/ TimesOut \/ CallFails
  <2>1. Abort
    BY <1>1 DEF HooksFail, TimesOut, CallFails
  <2>2. /\ End("failed") /\ UNCHANGED members
        /\ tokens' \subseteq tokens /\ stray \subseteq stray'
    BY <2>1 DEF Abort
  <2> QED
    BY <2>2, ClusterEnds
<1>2. CASE Kill
  BY <1>2, ClusterEnds DEF Kill
<1>3. CASE AddPeers
  BY <1>3, ClusterAddPeers
<1>4. CASE IssueTokens \/ NextPeer
  BY <1>4, ClusterIssue
<1>5. CASE JoinLocal
  BY <1>5, ClusterRequest, ClusterPhase, FormationAssumption
<1>6. CASE PeersJoined
  BY <1>6, ClusterPhase
<1>7. CASE Joined
  BY <1>7, ClusterJoined
<1>8. CASE Clustered
  BY <1>8, ClusterClustered
<1>9. CASE Success
  BY <1>9, ClusterDisks
<1>10. ASSUME NEW s \in Services,
              \/ SkipBootstrap(s) \/ SkipToken(s) \/ IssueToken(s)
              \/ IssueTokenFails(s) \/ JoinReturns(s)
       PROVE  ClusterInv'
  BY <1>10, ClusterHooks
<1>11. ASSUME NEW s \in Services, Bootstrap(s)
       PROVE  ClusterInv'
  BY <1>11, ClusterBootstrap
<1>12. ASSUME NEW s \in Services, RecordToken(s)
       PROVE  ClusterInv'
  BY <1>12, ClusterRecord
<1>13. ASSUME NEW s \in Services, Join(s)
       PROVE  ClusterInv'
  BY <1>13, ClusterJoin
<1>14. ASSUME NEW s \in Services, Poll(s)
       PROVE  ClusterInv'
  BY <1>14, ClusterPoll
<1>15. ASSUME NEW n \in Systems, JoinCloud(n) \/ JoinPeer(n)
       PROVE  ClusterInv'
  BY <1>15, ClusterRequest
<1>16. ASSUME NEW n \in Systems, AddDisk(n)
       PROVE  ClusterInv'
  BY <1>16, ClusterDisks
<1>17. CASE Retry
  BY <1>17, ClusterBetween
<1>18. ASSUME NEW o \in Outsiders, NEW s \in Services, OutsiderJoins(o, s)
       PROVE  ClusterInv'
  BY <1>18, ClusterOutsider
<1>19. ASSUME NEW s \in Services, NEW n \in Systems, LateJoin(s, n)
       PROVE  ClusterInv'
  BY <1>19, ClusterBetween
<1>20. CASE Ended \/ UNCHANGED vars
  <2>1. UNCHANGED <<services, plan, pc, loop, todo, peer, hook, clustered, meddled>>
    BY <1>20 DEF Ended, vars, run
  <2>2. HooksIdle' /\ Fresh'
    BY <2>1 DEF ClusterInv, HooksIdle, Fresh, SeenRight, services, plan
  <2>3. Issuing'
    BY <2>1 DEF ClusterInv, Issuing, NeedsToken, plan
  <2>4. Unused'
    BY <2>1 DEF ClusterInv, Unused, Leftover, services
  <2> QED
    BY <2>1, <2>2, <2>3, <2>4, ClusterQuiet DEF services
<1> QED
  BY <1>1, <1>2, <1>3, <1>4, <1>5, <1>6, <1>7, <1>8, <1>9, <1>10, <1>11, <1>12,
     <1>13, <1>14, <1>15, <1>16, <1>17, <1>18, <1>19, <1>20
  DEF Next, Progress

\* The command's picture of the clusters is right at every step, whatever failed
\* and was retried before, but for the sizes of the services others changed.
THEOREM PictureRight == Spec => [](TypeOK /\ TokenInv /\ ClusterInv)
BY TypeInit, TypeStep, TokenInit, TokenStep, ClusterInit, ClusterStep, PTL DEF Spec

\* A command that succeeds has put every system into every service that no
\* outsider changed meanwhile, reused ones and those of earlier failed attempts
\* included, and has used up its tokens of them.
THEOREM SuccessMeansClusteredHolds == Spec => []SuccessMeansClustered
<1>1. ClusterInv /\ TypeOK => SuccessMeansClustered
  <2> SUFFICES ASSUME ClusterInv, TypeOK, pc = "done"
               PROVE  /\ \A s \in Services \ meddled : Systems \subseteq members[s]
                      /\ tokens \subseteq Leftover \cup (meddled \X Systems)
    BY DEF SuccessMeansClustered
  <2>1. \A s \in Services \ meddled : Systems \subseteq members[s]
    BY DEF ClusterInv, AllIn
  <2>2. ASSUME NEW t \in tokens
        PROVE  t \in Leftover \cup (meddled \X Systems)
    <3>1. PICK s \in Services, n \in Systems : t = <<s, n>>
      BY DEF TypeOK
    <3>2. CASE s \in meddled
      BY <3>1, <3>2
    <3>3. CASE s \notin meddled
      BY <2>1, <3>1, <3>3 DEF ClusterInv, Unused
    <3> QED
      BY <3>2, <3>3
  <2> QED
    BY <2>1, <2>2
<1> QED
  BY <1>1, PictureRight, PTL

\* Counting members, waitForJoin sees the peer exactly when it is there, in every
\* service that no outsider changed meanwhile, and the local system is in that
\* service by then and can be asked.
THEOREM PollSeesPeerHolds == Spec => []PollSeesPeer
<1>1. TypeOK /\ ClusterInv => PollSeesPeer
  <2> SUFFICES ASSUME TypeOK, ClusterInv, pc = "poll", NEW s \in clustered \ meddled,
                      peer \in members[s]
               PROVE  Local \in members[s]
    BY AppearedMeansIn DEF PollSeesPeer
  <2>1. s \in Services /\ Busy /\ loop \in {"cloud", "local", "peers"}
    BY DEF TypeOK, Busy
  <2>2. Local \in members["MicroCloud"]
    BY DEF ClusterInv, KnownIn, Steps
  <2>3. CASE loop = "cloud"
    <3>1. InCloud
      BY <2>1, <2>3 DEF InCloud
    <3>2. s \in cfg[peer] /\ cfg[peer] = {"MicroCloud"}
      BY <2>1, <3>1 DEF ClusterInv, CloudLoop, PolledIn, TypeOK
    <3> QED
      BY <2>2, <3>2
  <2>4. CASE loop = "local"
    BY <2>1, <2>4 DEF ClusterInv, LocalFirst
  <2>5. CASE loop = "peers"
    <3>1. InOthers /\ Local \notin todo /\ peer # Local
      BY <2>1, <2>5 DEF InOthers, ClusterInv, LocalFirst
    <3>2. cfg[Local] = {}
      BY <2>1, <2>5, <3>1, FormationAssumption DEF ClusterInv, Covered
    <3> QED
      BY <2>1, <2>2, <3>1, <3>2, FormationAssumption DEF ClusterInv, Covered
  <2> QED
    BY <2>1, <2>3, <2>4, <2>5
<1> QED
  BY <1>1, PictureRight, PTL

-----------------------------------------------------------------------------
(* The disks.                                                               *)

\* The disk of a system has been added by now: by the joiner, or by the command.
Added(n) ==
  /\ n \in disks
  /\ \/ n \in members["MicroCeph"] \ known["MicroCeph"]
     \/ n \in known["MicroCeph"] /\ pc = "disks" /\ n \notin todo

\* Under ClusterInv, inductive.
DiskInv ==
  /\ disks \subseteq Selected
  /\ \A n \in Systems : adds[n] <= 1
  /\ pc = "bootstrap" => \A n \in Systems : adds[n] = 0
  /\ "MicroCeph" \in Services /\ pc \in Steps \ {"bootstrap"} =>
       \A n \in Systems : adds[n] = IF Added(n) THEN 1 ELSE 0
  /\ pc = "disks" => todo \subseteq known["MicroCeph"]
  /\ pc = "done" /\ "MicroCeph" \notin meddled => \A n \in disks : adds[n] = 1
  /\ "MicroCeph" \in Services =>
       \A n \in Systems : n \notin members["MicroCeph"] => adds[n] = 0

\* A step within an attempt that leaves the disks and MicroCeph alone.
LEMMA DiskQuiet ==
  ASSUME DiskInv, pc \in Steps \ {"bootstrap", "disks"}, pc' \in Steps \ {"bootstrap", "disks"},
         UNCHANGED <<disks, adds, known>>,
         \A n \in Systems, s \in Services : n \in members'[s] <=> n \in members[s]
  PROVE  DiskInv'
<1>1. "MicroCeph" \in Services => \A n \in Systems : Added(n)' <=> Added(n)
  BY DEF Added, Steps
<1> QED
  BY <1>1 DEF DiskInv, Steps

LEMMA DiskInit == Init => DiskInv
BY FormationAssumption DEF Init, DiskInv, Steps

LEMMA DiskStep == TypeOK /\ ClusterInv /\ DiskInv /\ [Next]_vars => DiskInv'
<1> SUFFICES ASSUME TypeOK, ClusterInv, DiskInv, [Next]_vars
             PROVE  DiskInv'
  OBVIOUS
<1> USE FormationAssumption
<1>1. CASE HooksFail \/ TimesOut \/ CallFails \/ Kill
  <2>1. pc' \in {"failed", "killed"} /\ UNCHANGED <<disks, adds, members>>
    BY <1>1 DEF HooksFail, TimesOut, CallFails, Abort, Kill, End
  <2> QED
    BY <2>1 DEF DiskInv, Steps
<1>2. CASE AddPeers
  <2>1. /\ pc = "bootstrap" /\ pc' = "cloud" /\ UNCHANGED <<members, disks, adds, known>>
        /\ \A s \in Services : hook[s] = "ok"
    BY <1>2 DEF AddPeers, Ok, services
  <2>2. "MicroCeph" \in Services => \A n \in Systems : ~Added(n)'
    BY <2>1 DEF Added, ClusterInv, Fresh, SeenRight
  <2> QED
    BY <2>1, <2>2 DEF DiskInv
<1>3. CASE \/ IssueTokens \/ NextPeer \/ JoinLocal \/ Joined \/ Clustered
           \/ \E s \in Services : \/ SkipToken(s) \/ IssueToken(s) \/ IssueTokenFails(s)
                                  \/ RecordToken(s) \/ JoinReturns(s) \/ Poll(s)
           \/ \E n \in Systems : JoinCloud(n) \/ JoinPeer(n)
  <2>1. UNCHANGED <<members, disks, adds, known>>
    BY <1>3 DEF IssueTokens, NextPeer, JoinLocal, Joined, Clustered, SkipToken, IssueToken,
                IssueTokenFails, RecordToken, JoinReturns, Poll, JoinCloud, JoinPeer,
                services, plan
  <2>2. pc \in Steps \ {"bootstrap", "disks"}
    BY <1>3 DEF IssueTokens, NextPeer, JoinLocal, Joined, Clustered, SkipToken, IssueToken,
                IssueTokenFails, RecordToken, JoinReturns, Poll, JoinCloud, JoinPeer, Steps
  <2>3. pc' \in {pc, "issue", "local", "peers", "request", "poll", loop}
    BY <1>3 DEF IssueTokens, NextPeer, JoinLocal, Joined, Clustered, SkipToken, IssueToken,
                IssueTokenFails, RecordToken, JoinReturns, Poll, JoinCloud, JoinPeer, Request
  <2>4. pc' \in Steps \ {"bootstrap", "disks"}
    BY <2>2, <2>3 DEF TypeOK, Steps
  <2> QED
    BY <2>1, <2>2, <2>4, DiskQuiet
<1>4. CASE PeersJoined
  <2>1. /\ pc = "peers" /\ pc' = "disks" /\ UNCHANGED <<members, disks, adds, known>>
        /\ todo' = IF "MicroCeph" \in Services THEN known["MicroCeph"] \cap Systems ELSE {}
    BY <1>4 DEF PeersJoined, DiskHosts, services, plan
  <2>2. "MicroCeph" \in Services => \A n \in Systems : Added(n)' <=> Added(n)
    BY <2>1 DEF Added
  <2> QED
    BY <2>1, <2>2 DEF DiskInv, Steps
<1>5. CASE Success
  <2>1. /\ pc = "disks" /\ todo = {} /\ pc' = "done"
        /\ UNCHANGED <<members, disks, adds, meddled>>
    BY <1>5 DEF Success, End, services
  <2>2. ASSUME "MicroCeph" \notin meddled, NEW n \in disks
        PROVE  adds[n] = 1
    <3>1. n \in Systems /\ "MicroCeph" \in Services
      BY DEF TypeOK, DiskInv
    <3>2. n \in members["MicroCeph"]
      BY <2>1, <2>2, <3>1 DEF ClusterInv, AllIn
    <3>3. Added(n)
      BY <2>1, <3>2 DEF Added
    <3> QED
      BY <2>1, <3>1, <3>3 DEF DiskInv, Steps
  <2> QED
    BY <2>1, <2>2 DEF DiskInv, Steps
<1>6. ASSUME NEW s \in Services, SkipBootstrap(s) \/ Bootstrap(s)
      PROVE  DiskInv'
  <2>1. pc = "bootstrap" /\ UNCHANGED <<disks, adds, pc>>
    BY <1>6 DEF SkipBootstrap, Bootstrap, services
  <2> QED
    BY <2>1 DEF DiskInv
<1>7. ASSUME NEW s \in Services, Join(s)
      PROVE  DiskInv'
  <2>1. PICK joined \in BOOLEAN :
          /\ joined => peer \notin members[s]
          /\ members' = [members EXCEPT ![s] = IF joined THEN @ \cup {peer} ELSE @]
          /\ adds' = [adds EXCEPT ![peer] =
                        IF s = "MicroCeph" /\ joined /\ peer \in disks
                        THEN @ + 1 ELSE @]
    BY <1>7 DEF Join
  <2>2. /\ pc = "request" /\ pc' = "request" /\ UNCHANGED <<disks, known, todo>>
        /\ peer \in Systems
    BY <1>7 DEF Join, plan, TypeOK
  <2>3. CASE s = "MicroCeph" /\ joined
    <3>1. /\ members'["MicroCeph"] = members["MicroCeph"] \cup {peer}
          /\ peer \notin members["MicroCeph"] /\ peer \notin known["MicroCeph"]
      BY <2>1, <2>3 DEF TypeOK, ClusterInv, KnownIn
    <3>2. \A n \in Systems : adds[n] = IF Added(n) THEN 1 ELSE 0
      BY <2>2, <2>3 DEF DiskInv, Steps
    <3>3. /\ adds'[peer] = IF peer \in disks THEN adds[peer] + 1 ELSE adds[peer]
          /\ \A n \in Systems \ {peer} : adds'[n] = adds[n]
      BY <2>1, <2>2, <2>3 DEF TypeOK
    <3>4. ~Added(peer)
      BY <3>1 DEF Added
    <3>5. \A n \in Systems : adds'[n] = IF Added(n)' THEN 1 ELSE 0
      <4> SUFFICES ASSUME NEW n \in Systems
                   PROVE  adds'[n] = IF Added(n)' THEN 1 ELSE 0
        OBVIOUS
      <4>1. CASE n = peer
        <5>1. Added(n)' <=> n \in disks
          BY <4>1, <2>2, <3>1 DEF Added
        <5> QED
          BY <5>1, <4>1, <2>2, <3>2, <3>3, <3>4
      <4>2. CASE n # peer
        <5>1. Added(n)' <=> Added(n)
          BY <4>2, <2>2, <3>1 DEF Added
        <5> QED
          BY <5>1, <4>2, <3>2, <3>3
      <4> QED
        BY <4>1, <4>2
    <3>6. \A n \in Systems : adds'[n] <= 1
      BY <3>5
    <3>7. \A n \in Systems : n \notin members'["MicroCeph"] => adds'[n] = 0
      BY <2>3, <3>1, <3>3 DEF DiskInv
    <3> QED
      BY <2>2, <3>5, <3>6, <3>7 DEF DiskInv
  <2>4. CASE s # "MicroCeph" \/ ~joined
    <3>1. \A n \in Systems : adds'[n] = adds[n]
      BY <2>1, <2>4 DEF TypeOK
    <3>2. members'["MicroCeph"] = members["MicroCeph"]
      BY <2>1, <2>4 DEF TypeOK
    <3>3. \A n : Added(n)' <=> Added(n)
      BY <2>2, <3>2 DEF Added
    <3> QED
      BY <2>2, <3>1, <3>2, <3>3 DEF DiskInv, Steps
  <2> QED
    BY <2>3, <2>4
<1>8. ASSUME NEW m \in Systems, AddDisk(m)
      PROVE  DiskInv'
  <2>1. /\ pc = "disks" /\ pc' = "disks" /\ m \in todo /\ todo' = todo \ {m}
        /\ adds' = [adds EXCEPT ![m] = IF m \in disks THEN @ + 1 ELSE @]
        /\ UNCHANGED <<members, known, disks>>
    BY <1>8 DEF AddDisk, plan
  <2>2. m \in known["MicroCeph"]
    BY <2>1 DEF DiskInv
  <2>3. /\ adds'[m] = IF m \in disks THEN adds[m] + 1 ELSE adds[m]
        /\ \A n \in Systems \ {m} : adds'[n] = adds[n]
    BY <2>1 DEF TypeOK
  <2>4. ~Added(m) /\ (Added(m)' <=> m \in disks)
    BY <2>1, <2>2 DEF Added
  <2>5. \A n \in Systems \ {m} : Added(n)' <=> Added(n)
    BY <2>1 DEF Added
  <2>6. CASE "MicroCeph" \in Services
    <3>1. \A n \in Systems : adds[n] = IF Added(n) THEN 1 ELSE 0
      BY <2>1, <2>6 DEF DiskInv, Steps
    <3>2. \A n \in Systems : adds'[n] = IF Added(n)' THEN 1 ELSE 0
      BY <2>3, <2>4, <2>5, <3>1
    <3>3. \A n \in Systems : adds'[n] <= 1
      BY <3>2
    <3>4. \A n \in Systems : n \notin members["MicroCeph"] => adds'[n] = 0
      BY <2>2, <2>3, <2>6 DEF DiskInv, ClusterInv, KnownIn
    <3> QED
      BY <2>1, <3>2, <3>3, <3>4 DEF DiskInv
  <2>7. CASE "MicroCeph" \notin Services
    <3>1. disks = {}
      BY <2>7 DEF DiskInv
    <3>2. \A n \in Systems : adds'[n] = adds[n]
      BY <2>3, <3>1
    <3> QED
      BY <2>1, <2>7, <3>2 DEF DiskInv
  <2> QED
    BY <2>6, <2>7
<1>9. CASE Retry
  BY <1>9 DEF Retry, DiskInv, Steps
<1>10. ASSUME NEW o \in Outsiders, NEW s \in Services, OutsiderJoins(o, s)
       PROVE  DiskInv'
  <2>1. /\ UNCHANGED <<disks, adds, pc, known, todo>>
        /\ pc = "done" => meddled' = meddled
    BY <1>10 DEF OutsiderJoins, plan, Steps
  <2>2. \A n \in Systems, x \in Services : n \in members'[x] <=> n \in members[x]
    BY <1>10 DEF OutsiderJoins, TypeOK
  <2>3. "MicroCeph" \in Services => \A n \in Systems : Added(n)' <=> Added(n)
    BY <2>1, <2>2 DEF Added
  <2> QED
    BY <2>1, <2>2, <2>3 DEF DiskInv
<1>11. ASSUME NEW s \in Services, NEW m \in Systems, LateJoin(s, m)
       PROVE  DiskInv'
  <2>1. /\ pc \in {"failed", "killed"} /\ m \notin members[s]
        /\ members' = [members EXCEPT ![s] = @ \cup {m}]
        /\ adds' = [adds EXCEPT ![m] = IF s = "MicroCeph" /\ m \in disks
                                       THEN @ + 1 ELSE @]
        /\ UNCHANGED <<disks, pc>>
    BY <1>11 DEF LateJoin
  <2>2. CASE s = "MicroCeph"
    <3>1. adds[m] = 0
      BY <2>1, <2>2 DEF DiskInv
    <3>2. adds'[m] \in {0, 1} /\ \A n \in Systems \ {m} : adds'[n] = adds[n]
      BY <2>1, <3>1 DEF TypeOK
    <3>3. members'["MicroCeph"] = members["MicroCeph"] \cup {m}
      BY <2>1, <2>2 DEF TypeOK
    <3> QED
      BY <2>1, <3>2, <3>3 DEF DiskInv, Steps
  <2>3. CASE s # "MicroCeph"
    <3>1. \A n \in Systems : adds'[n] = adds[n]
      BY <2>1, <2>3 DEF TypeOK
    <3>2. "MicroCeph" \in Services => members'["MicroCeph"] = members["MicroCeph"]
      BY <2>1, <2>3 DEF TypeOK
    <3> QED
      BY <2>1, <3>1, <3>2 DEF DiskInv, Steps
  <2> QED
    BY <2>2, <2>3
<1>12. CASE Ended \/ UNCHANGED vars
  <2>1. UNCHANGED <<members, disks, adds, known, pc, todo, meddled>>
    BY <1>12 DEF Ended, vars, services, plan, run
  <2>2. \A n : Added(n)' <=> Added(n)
    BY <2>1 DEF Added
  <2> QED
    BY <2>1, <2>2 DEF DiskInv
<1> QED
  BY <1>1, <1>2, <1>3, <1>4, <1>5, <1>6, <1>7, <1>8, <1>9, <1>10, <1>11, <1>12
  DEF Next, Progress

\* MicroCeph is asked for no disk twice in an attempt, joins that outlive it
\* included, and a command that succeeds while no outsider joined MicroCeph has
\* asked for every disk that was selected and still free.
THEOREM DisksOnceHolds == Spec => []DisksOnce
<1>1. Spec => [](TypeOK /\ ClusterInv /\ DiskInv)
  <2>1. TypeOK /\ TokenInv /\ ClusterInv /\ DiskInv /\ [Next]_vars => DiskInv'
    BY DiskStep
  <2> QED
    BY <2>1, DiskInit, PictureRight, PTL DEF Spec
<1>2. DiskInv => DisksOnce
  BY DEF DiskInv, DisksOnce
<1> QED
  BY <1>1, <1>2, PTL
=============================================================================
