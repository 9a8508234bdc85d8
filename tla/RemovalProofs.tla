---------------------------- MODULE RemovalProofs ----------------------------
(***************************************************************************)
(* Proofs about Removal, for any systems and any requests at once.         *)
(***************************************************************************)
EXTENDS Removal, FiniteSetTheorems, TLAPS

\* The part of the type invariant the proofs need.
Typed ==
  /\ name \in [Reqs -> Names]
  /\ members \in [Services -> SUBSET Names]
  /\ stage \in [Reqs -> [Services -> Hook]]
  /\ ret \in [Reqs -> {"none", "checking", "running"} \cup Ends]

\* A hook that succeeded has made sure that the system is no member, and no
\* system comes back.
DoneIsGone ==
  \A r \in Reqs, s \in Services :
    stage[r][s] = "ok" => name[r] \notin members[s]

\* MicroCloud's hook is called after all others have succeeded.
LastIsLast ==
  \A r \in Reqs : stage[r][Last] # "todo" => Ok(r, Present[r] \ {Last})

\* A successful answer means that the hook of every service that is there has
\* succeeded.
AnswerMeans ==
  \A r \in Reqs : ret[r] \in {"ok", "notFound"} => Ok(r, Present[r])

\* No hook is called for a service that is not there.
OnlyPresent ==
  \A r \in Reqs, s \in Services : stage[r][s] # "todo" => s \in Present[r]

IInv ==
  /\ Typed /\ DoneIsGone /\ LastIsLast /\ AnswerMeans /\ OnlyPresent
  /\ MicroCloudKnows

\* Initially no hook has been called and MicroCloud has every system.
LEMMA InitOK == Init => IInv
  BY RemovalAssumption DEF Init, IInv, Typed, OnlyPresent, DoneIsGone, LastIsLast, AnswerMeans,
     MicroCloudKnows, Hook, Ends, Ok, Services, Last, Ceph

\* Every step keeps IInv: a member that has left never returns, and a hook that
\* has succeeded stays so.
LEMMA StepOK == IInv /\ [Next]_vars => IInv'
<1> SUFFICES ASSUME IInv, [Next]_vars PROVE IInv'
  OBVIOUS
<1> USE RemovalAssumption DEF IInv, Typed, SetStage, Running
<1>1. ASSUME NEW r \in Reqs, Begin(r) \/ CheckMonmap(r) PROVE IInv'
  <2>1. PICK to \in {"refused", "checking", "running"} :
          ret' = [ret EXCEPT ![r] = to]
    BY <1>1 DEF Begin, CheckMonmap
  <2>2. UNCHANGED <<name, members, stage>>
    BY <1>1 DEF Begin, CheckMonmap
  <2>3. QED
    BY <2>1, <2>2 DEF Ends, DoneIsGone, LastIsLast, AnswerMeans, OnlyPresent,
       MicroCloudKnows, Ok
<1>2. ASSUME NEW r \in Reqs, CountDisks(r) PROVE IInv'
  BY <1>2 DEF CountDisks, Hook, Services, Last, Ceph, DoneIsGone, LastIsLast,
     OnlyPresent, AnswerMeans,
     MicroCloudKnows, Ok, Ends
<1>3. ASSUME NEW r \in Reqs, ResizePools(r) PROVE IInv'
  BY <1>3 DEF ResizePools, Hook, Services, Last, Ceph, DoneIsGone, LastIsLast,
     OnlyPresent, AnswerMeans, MicroCloudKnows, Ok, Ends
<1>4. ASSUME NEW r \in Reqs, Answer(r) PROVE IInv'
  BY <1>4 DEF Answer, Ends, DoneIsGone, LastIsLast, OnlyPresent, AnswerMeans,
     MicroCloudKnows, Ok
<1>5. ASSUME NEW r \in Reqs, Crash(r) PROVE IInv'
  BY <1>5 DEF Crash, Ends, DoneIsGone, LastIsLast, OnlyPresent, AnswerMeans,
     MicroCloudKnows, Ok
<1>6. ASSUME NEW r \in Reqs, NEW s \in Services, Look(r, s) PROVE IInv'
  <2>1. stage[r][s] = "todo" /\ CanStart(r, s)
    BY <1>6 DEF Look
  <2>2. PICK h \in {"ok", "counting", "deleting"} :
          /\ SetStage(r, s, h)
          /\ h = "ok" => name[r] \notin members[s]
    BY <1>6 DEF Look
  <2>3. members' = members /\ ret' = ret /\ name' = name
    BY <1>6 DEF Look
  <2>4. \A q \in Reqs, x \in Services :
          stage'[q][x] = IF q = r /\ x = s THEN h ELSE stage[q][x]
    BY <2>2
  <2>5. Typed'
    BY <2>2, <2>3 DEF Hook
  <2>6. DoneIsGone'
    BY <2>2, <2>3, <2>4 DEF DoneIsGone
  <2>7. LastIsLast'
    BY <2>1, <2>4 DEF LastIsLast, Ok, CanStart, First, Last, Services, Ceph
  <2>8. AnswerMeans'
    BY <2>1, <2>3, <2>4 DEF AnswerMeans, Ok
  <2>9. MicroCloudKnows'
    BY <2>3 DEF MicroCloudKnows
  <2>10. OnlyPresent'
    BY <2>1, <2>4 DEF OnlyPresent, CanStart
  <2>11. QED
    BY <2>5, <2>6, <2>7, <2>8, <2>9, <2>10
<1>7. ASSUME NEW r \in Reqs, NEW s \in Services, DeleteClusterMember(r, s)
      PROVE  IInv'
  BY <1>7 DEF DeleteClusterMember, CanLeave, Hook, Services, Last, Ceph,
     DoneIsGone, LastIsLast, OnlyPresent, AnswerMeans, MicroCloudKnows, Ok, Ends
<1>8. ASSUME NEW r \in Reqs, NEW s \in Services, HookFails(r, s) PROVE IInv'
  BY <1>8 DEF HookFails, CanStart, Hook, Services, Last, First, Ceph,
     DoneIsGone, LastIsLast, OnlyPresent, AnswerMeans, MicroCloudKnows, Ok, Ends
<1>9. ASSUME NEW n \in Names, MonLeaves(n) PROVE IInv'
  BY <1>9 DEF MonLeaves, DoneIsGone, LastIsLast, OnlyPresent, AnswerMeans,
     MicroCloudKnows, Ok
<1>10. ASSUME NEW n \in Names, NEW s \in Services, RemoveByHand(n, s)
       PROVE  IInv'
  BY <1>10 DEF RemoveByHand, CanLeave, Services, Ceph, Last, DoneIsGone,
     LastIsLast, OnlyPresent, AnswerMeans, MicroCloudKnows, Ok
<1>11. CASE UNCHANGED vars
  BY <1>11 DEF vars, DoneIsGone, LastIsLast, OnlyPresent, AnswerMeans, MicroCloudKnows, Ok
<1>12. QED
  BY <1>1, <1>2, <1>3, <1>4, <1>5, <1>6, <1>7, <1>8, <1>9, <1>10, <1>11
     DEF Next, Idle

\* IInv is inductive.
THEOREM Inductive == Spec => []IInv
  BY InitOK, StepOK, PTL DEF Spec

\* MicroCloud is the last service to forget a system, whatever fails, crashes
\* or overlaps.
THEOREM MicroCloudKnowsHolds == Spec => []MicroCloudKnows
<1>1. IInv => MicroCloudKnows
  BY DEF IInv
<1>2. QED
  BY <1>1, Inductive, PTL

\* After a successful request the system is in no service, whatever earlier or
\* concurrent requests did.
THEOREM RemovedEverywhereHolds == Spec => []RemovedEverywhere
<1>1. IInv => RemovedEverywhere
  BY RemovalAssumption DEF IInv, AnswerMeans, DoneIsGone, RemovedEverywhere, Ok
<1>2. QED
  BY <1>1, Inductive, PTL

-----------------------------------------------------------------------------
(* The type invariant.                                                      *)

\* A number of disks is a natural number.
LEMMA DiskTotalNat == ASSUME NEW S PROVE DiskTotal(S) \in Nat
<1>1. IsFiniteSet({d \in Disks : Location[d] \in S})
  BY RemovalAssumption, FS_Subset
<1>2. QED
  BY <1>1, FS_CardinalityType DEF DiskTotal

\* The smaller of two numbers.
LEMMA MinOfTwo ==
  ASSUME NEW i \in Nat, NEW j \in Nat
  PROVE  Min({i, j}) \in Nat /\ Min({i, j}) <= i /\ Min({i, j}) <= j
<1>1. \E x \in {i, j} : \A y \in {i, j} : x <= y
  OBVIOUS
<1>2. Min({i, j}) \in {i, j} /\ \A y \in {i, j} : Min({i, j}) <= y
  BY <1>1 DEF Min
<1>3. QED
  BY <1>2

\* Initially the state has its type.
LEMMA TypeInit == Init => TypeOK
<1> SUFFICES ASSUME Init PROVE TypeOK
  OBVIOUS
<1>1. Typed
  BY InitOK DEF IInv
<1>2. size \in [Pools -> Nat]
  BY RemovalAssumption, MinOfTwo, DiskTotalNat DEF Init
<1>3. mon \subseteq Names
  BY <1>1 DEF Init, Typed, Services
<1>4. QED
  BY <1>1, <1>2, <1>3 DEF Init, TypeOK, Typed

\* Every step keeps the type.
LEMMA TypeStep == TypeOK /\ IInv' /\ [Next]_vars => TypeOK'
<1> SUFFICES ASSUME TypeOK, IInv', [Next]_vars PROVE TypeOK'
  OBVIOUS
<1> USE DEF TypeOK
<1>1. Typed'
  BY DEF IInv
<1>2. mon' \subseteq Names
  BY DEF Next, vars, Idle, Begin, CheckMonmap, CountDisks, ResizePools, Answer,
     Crash, Look, DeleteClusterMember, HookFails, MonLeaves, RemoveByHand
<1>3. count' \in [Reqs -> Nat]
  BY DiskTotalNat
     DEF Next, vars, Idle, Begin, CheckMonmap, CountDisks, ResizePools, Answer,
     Crash, Look, DeleteClusterMember, HookFails, MonLeaves, RemoveByHand
<1>4. exists' \in [Reqs -> BOOLEAN]
  BY DEF Next, vars, Idle, Begin, CheckMonmap, CountDisks, ResizePools, Answer,
     Crash, Look, DeleteClusterMember, HookFails, MonLeaves, RemoveByHand
<1>5. size' \in [Pools -> Nat]
  BY DEF Next, vars, Idle, Begin, CheckMonmap, CountDisks, ResizePools, Answer,
     Crash, Look, DeleteClusterMember, HookFails, MonLeaves, RemoveByHand
<1>6. crossed' \in BOOLEAN
  BY DEF Next, vars, Idle, Begin, CheckMonmap, CountDisks, ResizePools, Answer,
     Crash, Look, DeleteClusterMember, HookFails, MonLeaves, RemoveByHand
<1>7. QED
  BY <1>1, <1>2, <1>3, <1>4, <1>5, <1>6 DEF Typed

\* The state keeps its type; in particular diskCount and the pools' sizes never
\* fall below zero.
THEOREM TypeOKHolds == Spec => []TypeOK
  BY TypeInit, TypeStep, Inductive, PTL DEF Spec

-----------------------------------------------------------------------------
(* MicroCeph's pools.                                                       *)

\* A request that was not let through has called no hook.
NotSent ==
  \A r \in Reqs : ret[r] \in {"none", "checking"} => stage[r][Ceph] = "todo"

\* The requests that are in MicroCeph's hook are for one system.
OneSystem ==
  \A q, r \in Reqs : InCeph(q) /\ InCeph(r) => name[q] = name[r]

\* diskCount is right until the pools are resized, though the system may be
\* removed by another request meanwhile ...
CountRight ==
  \A r \in Reqs : Running(r) /\ stage[r][Ceph] = "resizing" =>
    count[r] = DiskTotal(Remaining(r))

\* ... and from then on the pools fit the disks that stay.
PoolsWillFit ==
  \A r \in Reqs : Running(r) /\ stage[r][Ceph] = "deleting" =>
    \A p \in Pools \ {Default} : size[p] <= DiskTotal(Remaining(r))

CephInv ==
  /\ NotSent /\ PoolsFit
  /\ ~crossed => OneSystem /\ CountRight /\ PoolsWillFit

\* Initially nothing runs and the pools fit.
LEMMA CephInit == Init => CephInv
<1> SUFFICES ASSUME Init PROVE CephInv
  OBVIOUS
<1>1. \A p \in Pools : size[p] <= DiskTotal(members[Ceph])
  BY RemovalAssumption, MinOfTwo, DiskTotalNat DEF Init
<1>2. \A r \in Reqs : ~Running(r) /\ stage[r][Ceph] = "todo"
  BY DEF Init, Running, Services
<1>3. QED
  BY <1>1, <1>2 DEF CephInv, OneSystem, NotSent, CountRight, PoolsWillFit,
     PoolsFit, InCeph

\* A step that leaves MicroCeph, its pools and the counts alone, lets no hook
\* of MicroCeph run before its request does, and moves none of them but to its
\* first stage, which must not cross another, or to its end.
LEMMA CephFramed ==
  ASSUME TypeOK, CephInv,
         members'[Ceph] = members[Ceph], size' = size, count' = count,
         name' = name,
         ~crossed' => ~crossed,
         \A r \in Reqs : Running(r)' => Running(r) \/ stage[r][Ceph] = "todo",
         \A r \in Reqs : ret'[r] \in {"none", "checking"} =>
                           ret[r] \in {"none", "checking"},
         \A r \in Reqs :
           \/ stage'[r][Ceph] = stage[r][Ceph]
           \/ Running(r) /\ stage'[r][Ceph] \in {"ok", "err"}
           \/ /\ Running(r) /\ stage'[r][Ceph] = "counting"
              /\ ~crossed' => \A q \in Reqs : InCeph(q) => name[q] = name[r],
         \A q, r \in Reqs : stage'[q] # stage[q] /\ stage'[r] # stage[r] => q = r
  PROVE  CephInv'
<1> USE DEF CephInv
<1>1. NotSent'
  BY DEF NotSent, Running
<1>2. PoolsFit'
  BY DEF PoolsFit
<1>3. ASSUME ~crossed' PROVE OneSystem' /\ CountRight' /\ PoolsWillFit'
  <2>1. \A r \in Reqs : InCeph(r)' =>
          \/ InCeph(r) /\ stage'[r][Ceph] = stage[r][Ceph]
          \/ /\ stage'[r] # stage[r]
             /\ \A q \in Reqs : InCeph(q) => name[q] = name[r]
    BY <1>3 DEF InCeph
  <2>2. OneSystem'
    BY <1>3, <2>1 DEF OneSystem
  <2>3. CountRight'
    BY <1>3 DEF CountRight, Remaining
  <2>4. PoolsWillFit'
    BY <1>3 DEF PoolsWillFit, Remaining
  <2>5. QED
    BY <2>2, <2>3, <2>4
<1>4. QED
  BY <1>1, <1>2, <1>3

\* The disks are counted.
LEMMA CephCount ==
  ASSUME TypeOK, CephInv, NEW r \in Reqs, CountDisks(r) PROVE CephInv'
<1> USE DEF CephInv
<1>1. /\ members' = members /\ size' = size /\ ret' = ret /\ crossed' = crossed
      /\ name' = name
      /\ Running(r) /\ stage[r][Ceph] = "counting"
  BY DEF CountDisks
<1>2. \A q \in Reqs : stage'[q][Ceph] = IF q = r THEN "resizing" ELSE stage[q][Ceph]
  BY DEF CountDisks, SetStage, TypeOK, Services
<1>3. \A q \in Reqs : count'[q] = IF q = r THEN DiskTotal(Remaining(r)) ELSE count[q]
  BY DEF CountDisks, TypeOK
<1>4. NotSent' /\ PoolsFit'
  BY <1>1, <1>2 DEF NotSent, PoolsFit, Running
<1>5. ASSUME ~crossed PROVE OneSystem' /\ CountRight' /\ PoolsWillFit'
  <2>1. OneSystem'
    BY <1>1, <1>2, <1>5 DEF OneSystem, InCeph, Running
  <2>2. CountRight'
    BY <1>1, <1>2, <1>3, <1>5 DEF CountRight, Remaining, Running
  <2>3. PoolsWillFit'
    BY <1>1, <1>2, <1>5 DEF PoolsWillFit, Remaining, Running
  <2>4. QED
    BY <2>1, <2>2, <2>3
<1>6. QED
  BY <1>1, <1>4, <1>5

\* The pools are resized: none grows, and all fit the disks that stay.
LEMMA CephResize ==
  ASSUME TypeOK, CephInv, NEW r \in Reqs, ResizePools(r) PROVE CephInv'
<1> USE DEF CephInv
<1>1. /\ members' = members /\ count' = count /\ ret' = ret /\ crossed' = crossed
      /\ name' = name
      /\ Running(r) /\ stage[r][Ceph] = "resizing"
  BY DEF ResizePools
<1>2. \A q \in Reqs : stage'[q][Ceph] = IF q = r THEN "deleting" ELSE stage[q][Ceph]
  BY DEF ResizePools, SetStage, TypeOK, Services
<1>3. /\ \A p \in Pools : size[p] \in Nat /\ size'[p] \in Nat
      /\ count[r] \in Nat
  BY DEF ResizePools, TypeOK
<1>4. \A p \in Pools \ {Default} :
        size'[p] = IF size[p] > count[r] THEN count[r] ELSE size[p]
  BY DEF ResizePools
<1>5. \A p \in Pools \ {Default} : size'[p] <= size[p] /\ size'[p] <= count[r]
  BY <1>3, <1>4
<1>6. NotSent'
  BY <1>1, <1>2 DEF NotSent, Running
<1>7. ASSUME ~crossed PROVE OneSystem' /\ CountRight'
  BY <1>1, <1>2, <1>7 DEF OneSystem, InCeph, CountRight, Remaining, Running
<1>8. ASSUME ~crossed PROVE PoolsWillFit'
  <2> SUFFICES ASSUME NEW q \in Reqs, Running(q)', stage'[q][Ceph] = "deleting",
                      NEW p \in Pools \ {Default}
               PROVE  size'[p] <= DiskTotal(Remaining(q))'
    BY DEF PoolsWillFit
  <2>1. DiskTotal(Remaining(q))' = DiskTotal(Remaining(q))
    BY <1>1 DEF Remaining, DiskTotal
  <2>2. CASE q = r
    BY <1>1, <1>5, <1>8, <2>1, <2>2 DEF CountRight
  <2>3. CASE q # r
    <3>1. size[p] <= DiskTotal(Remaining(q))
      BY <1>1, <1>2, <1>8, <2>3 DEF PoolsWillFit, Running
    <3>2. QED
      BY <1>3, <1>5, <2>1, <3>1, DiskTotalNat
  <2>4. QED
    BY <2>2, <2>3
<1>9. PoolsFit'
  <2> SUFFICES ASSUME ~crossed, NEW p \in Pools \ {Default}
               PROVE  size'[p] <= DiskTotal(members[Ceph])
    BY <1>1 DEF PoolsFit, DiskTotal
  <2>1. size[p] <= DiskTotal(members[Ceph])
    BY DEF PoolsFit
  <2>2. QED
    BY <1>3, <1>5, <2>1, DiskTotalNat
<1>10. QED
  BY <1>1, <1>6, <1>7, <1>8, <1>9

\* MicroCeph loses the system: every request in its hook is for this system, so
\* the disks that stay are the ones it counted.
LEMMA CephDelete ==
  ASSUME TypeOK, CephInv, NEW r \in Reqs, DeleteClusterMember(r, Ceph)
  PROVE  CephInv'
<1> USE DEF CephInv
<1>1. /\ size' = size /\ count' = count /\ ret' = ret /\ crossed' = crossed
      /\ name' = name
      /\ Running(r) /\ stage[r][Ceph] = "deleting"
  BY DEF DeleteClusterMember
<1>2. members'[Ceph] = members[Ceph] \ {name[r]}
  BY DEF DeleteClusterMember, TypeOK, Services
<1>3. \A q \in Reqs : stage'[q][Ceph] = IF q = r THEN "ok" ELSE stage[q][Ceph]
  BY DEF DeleteClusterMember, SetStage, TypeOK, Services
<1>4. NotSent'
  BY <1>1, <1>3 DEF NotSent, Running
<1>5. ASSUME ~crossed PROVE OneSystem' /\ CountRight' /\ PoolsWillFit' /\ PoolsFit'
  <2>1. \A q \in Reqs : InCeph(q) => name[q] = name[r]
    BY <1>1, <1>5 DEF OneSystem, InCeph
  <2>2. \A q \in Reqs : InCeph(q) => Remaining(q)' = Remaining(q)
    BY <1>1, <1>2, <2>1 DEF Remaining
  <2>3. OneSystem'
    BY <1>1, <1>3, <1>5 DEF OneSystem, InCeph, Running
  <2>4. CountRight'
    BY <1>1, <1>3, <1>5, <2>2 DEF CountRight, InCeph, Running
  <2>5. PoolsWillFit'
    BY <1>1, <1>3, <1>5, <2>2 DEF PoolsWillFit, InCeph, Running
  <2>6. members'[Ceph] = Remaining(r)
    BY <1>2 DEF Remaining
  <2>7. PoolsFit'
    BY <1>1, <1>5, <2>6 DEF PoolsFit, PoolsWillFit
  <2>8. QED
    BY <2>3, <2>4, <2>5, <2>7
<1>6. CASE crossed
  BY <1>1, <1>4, <1>6 DEF PoolsFit
<1>7. QED
  BY <1>1, <1>4, <1>5, <1>6

\* Every step keeps CephInv.
LEMMA CephStep ==
  ASSUME TypeOK, CephInv, [Next]_vars PROVE CephInv'
<1>1. ASSUME NEW r \in Reqs,
             Begin(r) \/ CheckMonmap(r) \/ Answer(r) \/ Crash(r)
      PROVE  CephInv'
  <2>1. /\ members' = members /\ size' = size /\ count' = count
        /\ stage' = stage /\ crossed' = crossed /\ name' = name
    BY <1>1 DEF Begin, CheckMonmap, Answer, Crash
  <2>2. \A q \in Reqs : Running(q)' => Running(q) \/ stage[q][Ceph] = "todo"
    BY <1>1 DEF Begin, CheckMonmap, Answer, Crash, Running, TypeOK, CephInv,
       NotSent
  <2>3. \A q \in Reqs : ret'[q] \in {"none", "checking"} =>
                          ret[q] \in {"none", "checking"}
    BY <1>1 DEF Begin, CheckMonmap, Answer, Crash, Running, TypeOK
  <2>4. QED
    BY <2>1, <2>2, <2>3, CephFramed
<1>2. ASSUME NEW r \in Reqs, NEW s \in Services, Look(r, s) PROVE CephInv'
  <2>1. /\ members' = members /\ size' = size /\ count' = count
        /\ ret' = ret /\ Running(r) /\ name' = name
    BY <1>2 DEF Look
  <2>2. PICK h \in {"ok", "counting", "deleting"} :
          SetStage(r, s, h) /\ (s = Ceph => h # "deleting")
    BY <1>2 DEF Look
  <2>3. \A q \in Reqs : q # r => stage'[q] = stage[q]
    BY <2>2 DEF SetStage, TypeOK
  <2>4. \/ stage'[r][Ceph] = stage[r][Ceph]
        \/ s = Ceph /\ stage'[r][Ceph] \in {"counting", "ok"}
    BY <2>2 DEF SetStage, TypeOK, Services
  <2>5. /\ ~crossed' => ~crossed
        /\ s = Ceph /\ ~crossed' =>
             \A q \in Reqs : InCeph(q) => name[q] = name[r]
    BY <1>2 DEF Look, TypeOK
  <2>6. QED
    BY <2>1, <2>3, <2>4, <2>5, CephFramed DEF Running
<1>3. ASSUME NEW r \in Reqs, NEW s \in Services, HookFails(r, s) PROVE CephInv'
  <2>1. /\ members' = members /\ size' = size /\ count' = count
        /\ ret' = ret /\ Running(r) /\ crossed' = crossed /\ name' = name
    BY <1>3 DEF HookFails
  <2>2. \A q \in Reqs : q # r => stage'[q] = stage[q]
    BY <1>3 DEF HookFails, SetStage, TypeOK
  <2>3. stage'[r][Ceph] = stage[r][Ceph] \/ stage'[r][Ceph] = "err"
    BY <1>3 DEF HookFails, SetStage, TypeOK, Services
  <2>4. QED
    BY <2>1, <2>2, <2>3, CephFramed DEF Running
<1>4. ASSUME NEW r \in Reqs, NEW s \in Services, s # Ceph,
             DeleteClusterMember(r, s)
      PROVE  CephInv'
  <2>1. /\ members'[Ceph] = members[Ceph] /\ size' = size
        /\ count' = count /\ ret' = ret /\ crossed' = crossed /\ name' = name
    BY <1>4 DEF DeleteClusterMember, TypeOK, Services
  <2>2. \A q \in Reqs : stage'[q][Ceph] = stage[q][Ceph]
    BY <1>4 DEF DeleteClusterMember, SetStage, TypeOK, Services
  <2>3. \A q \in Reqs : q # r => stage'[q] = stage[q]
    BY <1>4 DEF DeleteClusterMember, SetStage, TypeOK
  <2>4. QED
    BY <2>1, <2>2, <2>3, CephFramed DEF Running
<1>5. ASSUME NEW n \in Names, MonLeaves(n) PROVE CephInv'
  BY <1>5, CephFramed DEF MonLeaves, Running
<1>6. ASSUME NEW n \in Names, NEW s \in Services, RemoveByHand(n, s)
      PROVE  CephInv'
  <2>1. members'[Ceph] = members[Ceph]
    BY <1>6 DEF RemoveByHand, TypeOK, Services, Ceph
  <2>2. QED
    BY <1>6, <2>1, CephFramed DEF RemoveByHand, Running
<1>7. CASE UNCHANGED vars
  BY <1>7, CephFramed DEF vars, Running
<1>8. QED
  BY <1>1, <1>2, <1>3, <1>4, <1>5, <1>6, <1>7, CephCount, CephResize,
     CephDelete DEF Next, Idle, TypeOK

\* CephInv is inductive.
THEOREM CephInductive == Spec => []CephInv
  BY CephInit, CephStep, TypeOKHolds, PTL DEF Spec

\* No pool ever asks for more replicas than there are disks, however often a
\* removal is sent again, fails or dies, and whatever requests for other systems
\* do outside MicroCeph's hook.
THEOREM PoolsFitHolds == Spec => []PoolsFit
<1>1. CephInv => PoolsFit
  BY DEF CephInv
<1>2. QED
  BY <1>1, CephInductive, PTL

-----------------------------------------------------------------------------
(* removeClusterMember implements RunConcurrent.                            *)

\* Initially nothing has been called.
LEMMA RCInit == Init => \A r \in Reqs : RC(r)!Init
  BY RemovalAssumption
     DEF Init, RC!Init, Hooks, Status, Returned, Services, Ceph, Hook

\* A step that moves one hook of request r and answers no request.
LEMMA HookMoves ==
  ASSUME Typed, NEW r \in Reqs, NEW s \in Services, NEW h \in Hook,
         SetStage(r, s, h), ret' = ret, NEW q \in Reqs
  PROVE  /\ Hooks(q)' = IF q = r THEN [Hooks(q) EXCEPT ![s] = Status(h)]
                                 ELSE Hooks(q)
         /\ Returned(q)' = Returned(q)
<1>1. stage' = [stage EXCEPT ![r][s] = h]
  BY DEF SetStage
<1>2. \A x \in Services :
        stage'[q][x] = IF q = r /\ x = s THEN h ELSE stage[q][x]
  BY <1>1 DEF Typed
<1>3. Hooks(q)' = IF q = r THEN [Hooks(q) EXCEPT ![s] = Status(h)]
                           ELSE Hooks(q)
  BY <1>2, RemovalAssumption DEF Hooks, Status
<1>4. QED
  BY <1>3 DEF Returned

\* A request that has not been answered, as RunConcurrent sees it.
LEMMA RunningReturnedNothing ==
  ASSUME NEW r \in Reqs, Running(r) PROVE Returned(r) = "none"
  BY DEF Running, Returned

\* Every step of the handler is one of RunConcurrent, or none.
LEMMA RCStep ==
  ASSUME IInv, [Next]_vars, NEW q \in Reqs
  PROVE  RC(q)!Next \/ UNCHANGED RC(q)!rcVars
<1> USE RemovalAssumption DEF IInv, RC!rcVars
<1> DEFINE Done == RC(q)!Next \/ UNCHANGED RC(q)!rcVars
<1>1. ASSUME NEW r \in Reqs, Begin(r) \/ CheckMonmap(r) PROVE Done
  BY <1>1 DEF Begin, CheckMonmap, Returned, Hooks, Typed
<1>2. ASSUME NEW r \in Reqs, CountDisks(r) PROVE Done
  <2>1. Ceph \in Services /\ "resizing" \in Hook
    BY DEF Services, Hook
  <2>2. SetStage(r, Ceph, "resizing") /\ ret' = ret /\ stage[r][Ceph] = "counting"
    BY <1>2 DEF CountDisks
  <2>3. [Hooks(r) EXCEPT ![Ceph] = "running"] = Hooks(r)
    BY <2>1, <2>2 DEF Hooks, Status
  <2>4. QED
    BY <2>1, <2>2, <2>3, HookMoves DEF Status
<1>3. ASSUME NEW r \in Reqs, ResizePools(r) PROVE Done
  <2>1. Ceph \in Services /\ "deleting" \in Hook
    BY DEF Services, Hook
  <2>2. SetStage(r, Ceph, "deleting") /\ ret' = ret /\ stage[r][Ceph] = "resizing"
    BY <1>3 DEF ResizePools
  <2>3. [Hooks(r) EXCEPT ![Ceph] = "running"] = Hooks(r)
    BY <2>1, <2>2 DEF Hooks, Status
  <2>4. QED
    BY <2>1, <2>2, <2>3, HookMoves DEF Status
<1>4. ASSUME NEW r \in Reqs, Answer(r) PROVE Done
  <2>1. CASE q # r
    BY <1>4, <2>1 DEF Answer, Hooks, Returned, Typed
  <2>2. CASE q = r
    <3>1. Hooks(q)' = Hooks(q) /\ Returned(q) = "none"
      BY <1>4, <2>2, RunningReturnedNothing DEF Answer, Hooks
    <3>2. CASE Failed(r) /\ ret' = [ret EXCEPT ![r] = "err"]
      <4>1. Returned(q)' = "err"
        BY <2>2, <3>2 DEF Returned, Typed
      <4>2. RC(q)!Failed
        <5>1. Present[r] \subseteq Services
          OBVIOUS
        <5>2. \A x \in Present[r] : Hooks(r)[x] = Status(stage[r][x])
          BY DEF Hooks
        <5>3. QED
          BY <2>2, <3>2, <5>1, <5>2 DEF RC!Failed, RC!Middle, RC!Ok, Failed, Ok,
             Status, Typed, Hook
      <4>3. QED
        BY <3>1, <4>1, <4>2 DEF RC!Next, RC!Return
    <3>3. CASE /\ Ok(r, Present[r])
               /\ ret' = [ret EXCEPT ![r] = IF exists[r] THEN "ok" ELSE "notFound"]
      <4>1. Returned(q)' = "ok"
        BY <2>2, <3>3 DEF Returned, Typed
      <4>2. RC(q)!Ok(Present[q])
        BY <2>2, <3>3 DEF RC!Ok, Ok, Hooks, Status
      <4>3. QED
        BY <3>1, <4>1, <4>2 DEF RC!Next, RC!Return
    <3>4. QED
      BY <1>4, <3>2, <3>3 DEF Answer
  <2>3. QED
    BY <2>1, <2>2
<1>5. ASSUME NEW r \in Reqs, Crash(r) PROVE Done
  BY <1>5 DEF Crash, Running, Returned, Hooks, Typed
\* A hook that is called moves on from "todo".
<1>6. ASSUME NEW r \in Reqs, NEW s \in Services, NEW h \in Hook \ {"todo"},
             Running(r), stage[r][s] = "todo", CanStart(r, s),
             SetStage(r, s, h), ret' = ret
      PROVE  Done
  <2>1. CASE q # r
    BY <1>6, <2>1, HookMoves
  <2>2. CASE q = r
    <3>1. Returned(q) = "none" /\ Returned(q)' = "none"
      BY <1>6, <2>2, RunningReturnedNothing, HookMoves
    <3>2. Hooks(q)' = [Hooks(q) EXCEPT ![s] = Status(h)]
      BY <1>6, <2>2, HookMoves
    <3>. s \in Present[q]
      BY <1>6, <2>2 DEF CanStart
    <3>3. Hooks(q)[s] = "todo" /\ Status(h) \in {"running", "ok", "err"}
      BY <1>6, <2>2 DEF Hooks, Status, Hook
    <3>4. RC(q)!CanStart(s)
      BY <1>6, <2>2 DEF CanStart, Ok, RC!CanStart, RC!Middle, RC!Ok, Hooks,
         Status, First, Last, Services
    <3>5. RC(q)!Start(s)
      BY <3>1, <3>2, <3>3, <3>4 DEF RC!Start
    <3>6. QED
      BY <3>5 DEF RC!Next
  <2>3. QED
    BY <2>1, <2>2
\* A hook that runs returns.
<1>7. ASSUME NEW r \in Reqs, NEW s \in Services, NEW h \in {"ok", "err"},
             stage[r][s] \in {"counting", "resizing", "deleting"},
             SetStage(r, s, h), ret' = ret
      PROVE  Done
  <2>1. h \in Hook /\ Status(h) = h
    BY DEF Hook, Status
  <2>2. CASE q # r
    BY <1>7, <2>1, <2>2, HookMoves
  <2>3. CASE q = r
    <3>1. Hooks(q)' = [Hooks(q) EXCEPT ![s] = h] /\ Returned(q)' = Returned(q)
      BY <1>7, <2>1, <2>3, HookMoves
    <3>. s \in Present[q]
      BY <1>7, <2>3 DEF OnlyPresent
    <3>2. Hooks(q)[s] = "running"
      BY <1>7, <2>3 DEF Hooks, Status
    <3>3. RC(q)!Finish(s)
      BY <3>1, <3>2 DEF RC!Finish
    <3>4. QED
      BY <3>3 DEF RC!Next
  <2>4. QED
    BY <2>2, <2>3
<1>8. ASSUME NEW r \in Reqs, NEW s \in Services, Look(r, s) PROVE Done
  <2>1. PICK h \in {"ok", "counting", "deleting"} : SetStage(r, s, h)
    BY <1>8 DEF Look
  <2>2. h \in Hook \ {"todo"}
    BY DEF Hook
  <2>3. QED
    BY <1>6, <1>8, <2>1, <2>2 DEF Look
<1>9. ASSUME NEW r \in Reqs, NEW s \in Services, DeleteClusterMember(r, s)
      PROVE  Done
  BY <1>7, <1>9 DEF DeleteClusterMember
<1>10. ASSUME NEW r \in Reqs, NEW s \in Services, HookFails(r, s) PROVE Done
  <2>1. "err" \in Hook \ {"todo"}
    BY DEF Hook
  <2>2. QED
    BY <1>6, <1>7, <1>10, <2>1 DEF HookFails
<1>11. ASSUME NEW n \in Names, MonLeaves(n) PROVE Done
  BY <1>11 DEF MonLeaves, Hooks, Returned
<1>12. ASSUME NEW n \in Names, NEW s \in Services, RemoveByHand(n, s) PROVE Done
  BY <1>12 DEF RemoveByHand, Hooks, Returned
<1>13. CASE UNCHANGED vars
  BY <1>13 DEF vars, Hooks, Returned
<1>14. QED
  BY <1>1, <1>2, <1>3, <1>4, <1>5, <1>8, <1>9, <1>10, <1>11, <1>12, <1>13
     DEF Next, Idle, Typed

\* The handler implements RunConcurrent.
THEOREM RunConcurrentImplemented == Spec => ImplementsRunConcurrent
<1>1. IInv /\ [Next]_vars =>
        [\A r \in Reqs : RC(r)!Next \/ UNCHANGED RC(r)!rcVars]_vars
  BY RCStep
<1>2. QED
  BY <1>1, RCInit, Inductive, PTL DEF Spec, ImplementsRunConcurrent
=============================================================================
