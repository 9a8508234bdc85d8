---------------------------- MODULE ManagerProofs ----------------------------
(***************************************************************************)
(* Proofs about Manager, for any requests, members, managers and bounds.   *)
(***************************************************************************)
EXTENDS Manager, TLAPS

\* Rows and entries with ids up to n.
RowsTo(n) == [id : 1..n, addresses : Addresses, fingerprint : Managers]
EntriesTo(n, k) ==
  [id : 1..n, value : IF k = "interval" THEN Periods \cup {Bad} ELSE BOOLEAN]

\* What a process may have in its hands when rows have ids up to n.
Args == Posts \cup Puts \cup Periods \cup {Nil}
Entries == [id : Nat, value : Periods \cup {Bad} \cup BOOLEAN]
Pcs ==
  {"idle", "join", "create", "store", "key", "config", "write", "leave", "remove",
   "deleted", "failed", "done", "interval", "leader", "post", "status"}
States(n) ==
  [pc : Pcs, arg : Args, key : Keys \cup {Nil}, got : RowsTo(n) \cup {Nil},
   had : Entries \cup {Nil}]

\* A request knows what it was asked, and holds the row that it is about to
\* change and the entry that it is about to replace.
RequestOK(x, n, m) ==
  /\ x \in States(n)
  /\ x.pc \in {"idle", "join", "create", "store", "key", "config", "write",
               "leave", "remove", "deleted", "failed", "done"}
  /\ x.pc \in {"join", "create"} => x.arg \in Posts
  /\ x.pc \in {"store", "key", "config", "write"} => x.arg \in Puts
  /\ x.pc \in {"key", "config", "write"} => x.key \in Keys /\ x.arg[x.key] # Nil
  /\ x.pc \in {"store", "config", "write", "leave", "remove", "deleted"} =>
       x.got \in RowsTo(n)
  /\ x.pc # "write" => x.had = Nil
  /\ x.had \in EntriesTo(m, x.key) \cup {Nil}

\* A status task holds an interval that parses, and the row that it stores.
TaskOK(x, n) ==
  /\ x \in States(n)
  /\ x.pc \in {"idle", "interval", "leader", "post", "status", "store"}
  /\ x.pc # "idle" => x.arg \in Periods
  /\ x.pc \in {"interval", "store"} => x.got \in RowsTo(n)
  /\ x.had = Nil

\* The processes.
ProcsOK ==
  /\ DOMAIN proc = Procs
  /\ \A r \in Requests : RequestOK(proc[r], lastId, lastConfigId)
  /\ \A d \in Daemons : TaskOK(proc[d], lastId)

\* The tables.
TablesOK ==
  /\ row \in RowsTo(lastId) \cup {Nil} /\ lastId \in Nat /\ lastConfigId \in Nat
  /\ DOMAIN config = Keys /\ (row = Nil => config = NoConfig)
  /\ \A k \in Keys : config[k] \in EntriesTo(lastConfigId, k) \cup {Nil}

\* The tickers, the leader and the bounds.
TickersOK == period \in [Daemons -> {p \in Periods : p > 0}]
EnvOK == leader \in Members /\ changes \in 0..MaxChanges /\ faults \in 0..MaxFaults

IInv == TablesOK /\ ProcsOK /\ TickersOK /\ EnvOK

-----------------------------------------------------------------------------
(* Ids are given out in order, so what a process holds keeps its type.      *)

\* An idle process, or a request that was answered, holds nothing.
LEMMA IdleOK ==
  ASSUME NEW n \in Nat, NEW m \in Nat
  PROVE  /\ TaskOK(Idle, n)
         /\ \A pc \in {"idle", "failed", "done"} :
              RequestOK([Idle EXCEPT !.pc = pc], n, m)
         /\ RequestOK(Idle, n, m)
<1>0. Nil \in Args
  BY DEF Args
<1>1. ASSUME NEW pc \in {"idle", "failed", "done"}
      PROVE  RequestOK([Idle EXCEPT !.pc = pc], n, m)
  <2> DEFINE x == [Idle EXCEPT !.pc = pc]
  <2>1. /\ x \in States(n) /\ x.pc = pc /\ x.had = Nil
    BY <1>0 DEF Idle, States, Pcs
  <2>2. QED
    BY <2>1 DEF RequestOK
<1>2. /\ Idle \in States(n) /\ Idle.pc = "idle" /\ Idle.had = Nil
  BY <1>0 DEF Idle, States, Pcs
<1>3. TaskOK(Idle, n) /\ RequestOK(Idle, n, m)
  BY <1>2 DEF TaskOK, RequestOK
<1>4. QED
  BY <1>1, <1>3

\* Rows and entries stay rows and entries.
LEMMA RowsGrow ==
  ASSUME NEW n \in Nat, NEW m \in Nat, n <= m
  PROVE  /\ RowsTo(n) \subseteq RowsTo(m)
         /\ \A k : EntriesTo(n, k) \subseteq EntriesTo(m, k)
  BY DEF RowsTo, EntriesTo

\* What a process holds stays right when further ids are given out.
LEMMA StaysOK ==
  ASSUME NEW n \in Nat, NEW m \in Nat, NEW n1 \in Nat, NEW m1 \in Nat,
         n <= n1, m <= m1, NEW x
  PROVE  /\ RequestOK(x, n, m) => RequestOK(x, n1, m1)
         /\ TaskOK(x, n) => TaskOK(x, n1)
<1>1. RowsTo(n) \subseteq RowsTo(n1) /\ EntriesTo(m, x.key) \subseteq EntriesTo(m1, x.key)
  BY RowsGrow
<1>2. x \in States(n) => x \in States(n1)
  BY <1>1 DEF States
<1>3. QED
  BY <1>1, <1>2 DEF RequestOK, TaskOK

\* Ids that were given out.
IdsGrow ==
  /\ lastId \in Nat /\ lastConfigId \in Nat
  /\ lastId' \in Nat /\ lastConfigId' \in Nat
  /\ lastId <= lastId' /\ lastConfigId <= lastConfigId'

\* A step of one request.
LEMMA RequestMoves ==
  ASSUME ProcsOK, IdsGrow, NEW r \in Requests, NEW x, Become(r, x),
         RequestOK(x, lastId', lastConfigId')
  PROVE  ProcsOK'
<1>1. \A p \in Procs : proc'[p] = IF p = r THEN x ELSE proc[p]
  BY DEF Become, ProcsOK, Procs
<1>2. DOMAIN proc' = Procs
  BY DEF Become, ProcsOK
<1>3. ASSUME NEW q \in Requests PROVE RequestOK(proc'[q], lastId', lastConfigId')
  BY <1>1, StaysOK DEF Procs, ProcsOK, IdsGrow
<1>4. ASSUME NEW d \in Daemons PROVE TaskOK(proc'[d], lastId')
  BY <1>1, StaysOK, ManagerAssumption DEF Procs, ProcsOK, IdsGrow
<1>5. QED
  BY <1>2, <1>3, <1>4 DEF ProcsOK

\* A step of one task, which gives out no id.
LEMMA TaskMoves ==
  ASSUME ProcsOK, NEW d \in Daemons, NEW x, Become(d, x), TaskOK(x, lastId),
         lastId' = lastId, lastConfigId' = lastConfigId
  PROVE  ProcsOK'
<1>1. \A p \in Procs : proc'[p] = IF p = d THEN x ELSE proc[p]
  BY DEF Become, ProcsOK, Procs
<1>2. DOMAIN proc' = Procs
  BY DEF Become, ProcsOK
<1>3. QED
  BY <1>1, <1>2, ManagerAssumption DEF ProcsOK, Procs

\* A request is answered.
LEMMA Answered ==
  ASSUME ProcsOK, IdsGrow, NEW r \in Requests, NEW pc \in {"failed", "done"},
         Answer(r, pc)
  PROVE  ProcsOK'
<1>1. RequestOK([Idle EXCEPT !.pc = pc], lastId', lastConfigId')
  BY IdleOK DEF IdsGrow
<1>2. QED
  BY <1>1, RequestMoves DEF Answer

\* The tables that a step leaves alone.
LEMMA TablesKept == TablesOK /\ UNCHANGED dbVars => TablesOK' /\ IdsGrow
  BY DEF TablesOK, dbVars, IdsGrow

\* A request goes on to the next key that it was given a value for.
LEMMA StoreKeyOK ==
  ASSUME ProcsOK, IdsGrow, NEW r \in Requests, NEW x,
         x \in States(lastId'), x.arg \in Puts, x.had = Nil,
         NEW keys \in SUBSET Keys, StoreKey(r, x, keys)
  PROVE  ProcsOK'
<1> DEFINE given == {k \in keys : x.arg[k] # Nil}
           next == IF "interval" \in given THEN "interval" ELSE "tunnel"
           y == [x EXCEPT !.pc = "key", !.key = next]
<1>1. CASE given = {}
  <2>1. Answer(r, "done")
    BY <1>1 DEF StoreKey
  <2>2. QED
    BY <2>1, Answered
<1>2. CASE given # {}
  <2>1. Become(r, y)
    BY <1>2 DEF StoreKey, Become
  <2>2. next \in given /\ next \in Keys
    BY <1>2 DEF Keys
  <2>3. /\ y \in States(lastId') /\ y.pc = "key" /\ y.key = next
        /\ y.arg = x.arg /\ y.had = Nil /\ y.got = x.got
    BY <2>2 DEF States, Pcs
  <2>4. RequestOK(y, lastId', lastConfigId')
    BY <2>2, <2>3 DEF RequestOK
  <2>5. QED
    BY <2>1, <2>4, RequestMoves
<1>3. QED
  BY <1>1, <1>2

-----------------------------------------------------------------------------
(* Every step keeps IInv: the requests.                                     *)

\* clusterManagerPost.
LEMMA PostStep ==
  ASSUME IInv, NEW r \in Requests, PostCheck(r) \/ PostJoin(r) \/ PostCreate(r)
  PROVE  TablesOK' /\ ProcsOK'
<1> USE DEF IInv
<1>1. RequestOK(proc[r], lastId, lastConfigId) /\ Posts \subseteq Args
  BY DEF ProcsOK, Args
<1>2. CASE PostCheck(r)
  <2>1. TablesOK' /\ IdsGrow /\ lastId' = lastId /\ lastConfigId' = lastConfigId
    BY <1>2, TablesKept DEF PostCheck, dbVars
  <2>2. ASSUME NEW t \in Posts, Become(r, [Idle EXCEPT !.pc = "join", !.arg = t])
        PROVE  ProcsOK'
    <3> DEFINE x == [Idle EXCEPT !.pc = "join", !.arg = t]
    <3>1. x \in States(lastId) /\ x.pc = "join" /\ x.arg = t /\ x.had = Nil
      BY <1>1 DEF Idle, States, Pcs
    <3>2. RequestOK(x, lastId, lastConfigId)
      BY <3>1 DEF RequestOK
    <3>3. QED
      BY <2>1, <2>2, <3>2, RequestMoves
  <2>3. QED
    BY <1>2, <2>1, <2>2, Answered DEF PostCheck
<1>3. CASE PostJoin(r)
  <2> DEFINE x == [proc[r] EXCEPT !.pc = "create"]
  <2>1. TablesOK' /\ IdsGrow /\ lastId' = lastId /\ lastConfigId' = lastConfigId
    BY <1>3, TablesKept DEF PostJoin, dbVars
  <2>2. Become(r, x) /\ proc[r].pc = "join"
    BY <1>3 DEF PostJoin, Go, At
  <2>3. /\ x \in States(lastId) /\ x.pc = "create" /\ x.arg = proc[r].arg
        /\ x.had = proc[r].had
    BY <1>1 DEF RequestOK, States, Pcs
  <2>4. RequestOK(x, lastId, lastConfigId)
    BY <1>1, <2>2, <2>3 DEF RequestOK
  <2>5. QED
    BY <2>1, <2>2, <2>4, RequestMoves
<1>4. CASE PostCreate(r)
  <2>1. CASE row # Nil
    <3>1. TablesOK' /\ IdsGrow
      BY <1>4, <2>1, TablesKept DEF PostCreate
    <3>2. QED
      BY <1>4, <2>1, <3>1, Answered DEF PostCreate
  <2>2. CASE row = Nil
    <3>1. /\ row' = NewRow(lastId + 1, proc[r].arg)
          /\ config' = NewConfig(lastConfigId + 1)
          /\ lastId' = lastId + 1 /\ lastConfigId' = lastConfigId + 1
          /\ Answer(r, "done")
      BY <1>4, <2>2 DEF PostCreate
    <3>2. IdsGrow
      BY <3>1 DEF IdsGrow, TablesOK
    <3>3. proc[r].arg \in Posts
      BY <1>1, <1>4 DEF RequestOK, PostCreate, At
    <3>4. row' \in RowsTo(lastId')
      BY <3>1, <3>2, <3>3, ManagerAssumption DEF NewRow, RowsTo, IdsGrow
    <3>5. row' # Nil
      BY <3>4, <3>2, ManagerAssumption DEF RowsTo, IdsGrow
    <3>6. /\ DOMAIN config' = Keys
          /\ \A k \in Keys : config'[k] \in EntriesTo(lastConfigId', k) \cup {Nil}
      BY <3>1, <3>2, ManagerAssumption DEF NewConfig, NoConfig, Keys, EntriesTo, IdsGrow
    <3>7. TablesOK'
      BY <3>2, <3>4, <3>5, <3>6 DEF TablesOK, IdsGrow
    <3>8. QED
      BY <3>1, <3>2, <3>7, Answered
  <2>3. QED
    BY <2>1, <2>2
<1>5. QED
  BY <1>2, <1>3, <1>4

\* A row that is updated is the one that is there, under its id.
LEMMA UpdateOK ==
  ASSUME TablesOK, NEW p, NEW q \in RowsTo(lastId), q.id = proc[p].got.id,
         UpdateClusterManager(p, q), UNCHANGED <<config, lastId, lastConfigId>>
  PROVE  TablesOK' /\ IdsGrow
<1>1. row' = q /\ row # Nil
  BY DEF UpdateClusterManager, Present
<1>2. q # Nil
  BY ManagerAssumption DEF RowsTo, TablesOK
<1>3. QED
  BY <1>1, <1>2 DEF TablesOK, IdsGrow

\* clusterManagerPut up to the keys.
LEMMA PutStep ==
  ASSUME IInv, NEW r \in Requests, PutLoad(r) \/ PutStore(r)
  PROVE  TablesOK' /\ ProcsOK'
<1> USE DEF IInv
<1>1. RequestOK(proc[r], lastId, lastConfigId) /\ Puts \subseteq Args
  BY DEF ProcsOK, Args
<1>2. CASE PutLoad(r)
  <2>1. TablesOK' /\ IdsGrow /\ lastId' = lastId /\ lastConfigId' = lastConfigId
    BY <1>2, TablesKept DEF PutLoad, dbVars
  <2>2. CASE row = Nil
    BY <1>2, <2>1, <2>2, Answered DEF PutLoad
  <2>3. CASE row # Nil
    <3>1. PICK a \in Puts :
            LET state == [Idle EXCEPT !.pc = "store", !.arg = a, !.got = row]
            IN IF {a.addresses, a.fingerprint} = {Nil} THEN StoreKey(r, state, Keys)
                                                       ELSE Become(r, state)
      BY <1>2, <2>3 DEF PutLoad
    <3> DEFINE x == [Idle EXCEPT !.pc = "store", !.arg = a, !.got = row]
    <3>2. StoreKey(r, x, Keys) \/ Become(r, x)
      BY <3>1
    <3>3. row \in RowsTo(lastId)
      BY <2>3 DEF TablesOK
    <3>4. /\ x \in States(lastId) /\ x.pc = "store" /\ x.arg = a /\ x.got = row
          /\ x.had = Nil
      BY <1>1, <3>3 DEF Idle, States, Pcs
    <3>5. RequestOK(x, lastId, lastConfigId)
      BY <3>3, <3>4 DEF RequestOK
    <3> HIDE DEF x
    <3>6. QED
      BY <2>1, <3>2, <3>4, <3>5, StoreKeyOK, RequestMoves
  <2>4. QED
    BY <2>2, <2>3
<1>3. CASE PutStore(r)
  <2> DEFINE a == proc[r].arg
             q == [proc[r].got EXCEPT !.addresses = Given(a.addresses, @),
                                      !.fingerprint = Given(a.fingerprint, @)]
  <2>1. proc[r].pc = "store"
    BY <1>3 DEF PutStore, At
  <2>2. /\ proc[r] \in States(lastId) /\ a \in Puts /\ proc[r].had = Nil
        /\ proc[r].got \in RowsTo(lastId)
    BY <1>1, <2>1 DEF RequestOK
  <2>3. q \in RowsTo(lastId) /\ q.id = proc[r].got.id
    BY <2>2, ManagerAssumption DEF RowsTo, Given
  <2>4. UNCHANGED <<config, lastId, lastConfigId>>
    BY <1>3 DEF PutStore
  <2>5. CASE UpdateClusterManager(r, q) /\ StoreKey(r, proc[r], Keys)
    <3>1. TablesOK' /\ IdsGrow
      BY <2>3, <2>4, <2>5, UpdateOK
    <3>2. QED
      BY <2>2, <2>4, <2>5, <3>1, StoreKeyOK
  <2>6. CASE Answer(r, "failed") /\ UNCHANGED row
    <3>1. TablesOK' /\ IdsGrow
      BY <2>4, <2>6, TablesKept DEF dbVars
    <3>2. QED
      BY <2>6, <3>1, Answered
  <2>7. QED
    BY <1>3, <2>5, <2>6 DEF PutStore
<1>4. QED
  BY <1>2, <1>3

\* StoreClusterManagerConfig loads the row and the entry.
LEMMA StoreLoads ==
  ASSUME IInv, NEW r \in Requests, StoreLoad(r) \/ StoreLoadConfig(r)
  PROVE  TablesOK' /\ ProcsOK'
<1> USE DEF IInv
<1>1. RequestOK(proc[r], lastId, lastConfigId)
  BY DEF ProcsOK
<1>2. TablesOK' /\ IdsGrow /\ lastId' = lastId /\ lastConfigId' = lastConfigId
  BY TablesKept DEF StoreLoad, StoreLoadConfig, dbVars
<1>3. CASE StoreLoad(r)
  <2>1. CASE row = Nil
    BY <1>2, <1>3, <2>1, Answered DEF StoreLoad
  <2>2. CASE row # Nil
    <3> DEFINE x == [proc[r] EXCEPT !.pc = "config", !.got = row]
    <3>1. Become(r, x) /\ proc[r].pc = "key"
      BY <1>3, <2>2 DEF StoreLoad, At
    <3>2. row \in RowsTo(lastId)
      BY <2>2 DEF TablesOK
    <3>3. /\ x \in States(lastId) /\ x.pc = "config" /\ x.got = row
          /\ x.arg = proc[r].arg /\ x.key = proc[r].key /\ x.had = proc[r].had
      BY <1>1, <3>2 DEF RequestOK, States, Pcs
    <3>4. RequestOK(x, lastId, lastConfigId)
      BY <1>1, <3>1, <3>2, <3>3 DEF RequestOK
    <3>5. QED
      BY <1>2, <3>1, <3>4, RequestMoves
  <2>3. QED
    BY <2>1, <2>2
<1>4. CASE StoreLoadConfig(r)
  <2> DEFINE h == IF Present(r) THEN config[proc[r].key] ELSE Nil
             x == [proc[r] EXCEPT !.pc = "write", !.had = h]
  <2>1. Become(r, x) /\ proc[r].pc = "config"
    BY <1>4 DEF StoreLoadConfig, At
  <2>2. proc[r].key \in Keys
    BY <1>1, <2>1 DEF RequestOK
  <2>3. h \in EntriesTo(lastConfigId, proc[r].key) \cup {Nil}
    BY <2>2 DEF TablesOK
  <2>4. h \in Entries \cup {Nil}
    BY <2>3 DEF EntriesTo, Entries, TablesOK
  <2> HIDE DEF h
  <2>5. /\ x \in States(lastId) /\ x.pc = "write" /\ x.got = proc[r].got
        /\ x.arg = proc[r].arg /\ x.key = proc[r].key /\ x.had = h
    BY <1>1, <2>4 DEF RequestOK, States, Pcs
  <2>6. RequestOK(x, lastId, lastConfigId)
    BY <1>1, <2>1, <2>3, <2>5 DEF RequestOK
  <2>7. QED
    BY <1>2, <2>1, <2>6, RequestMoves
<1>5. QED
  BY <1>3, <1>4

\* An entry is stored while its row is there, or the entries stay as they are.
LEMMA EntryOK ==
  ASSUME TablesOK, NEW k \in Keys, NEW c, NEW n \in {0, 1},
         config' = [config EXCEPT ![k] = c], lastConfigId' = lastConfigId + n,
         UNCHANGED <<row, lastId>>,
         c \in EntriesTo(lastConfigId + n, k) \cup {Nil},
         row # Nil \/ c = config[k]
  PROVE  TablesOK' /\ IdsGrow
<1>1. IdsGrow
  BY DEF TablesOK, IdsGrow
<1>2. \A j : EntriesTo(lastConfigId, j) \subseteq EntriesTo(lastConfigId', j)
  BY <1>1, RowsGrow DEF IdsGrow
<1>3. DOMAIN config' = Keys /\ \A j \in Keys : config'[j] = IF j = k THEN c ELSE config[j]
  BY DEF TablesOK
<1>4. \A j \in Keys : config'[j] \in EntriesTo(lastConfigId', j) \cup {Nil}
  BY <1>2, <1>3 DEF TablesOK
<1>5. row' = Nil => config' = NoConfig
  BY DEF TablesOK, NoConfig
<1>6. QED
  BY <1>1, <1>3, <1>4, <1>5 DEF TablesOK, IdsGrow

\* StoreClusterManagerConfig writes the entry, by the id that it has loaded.
LEMMA StoreWrites ==
  ASSUME IInv, NEW r \in Requests, StoreWrite(r)
  PROVE  TablesOK' /\ ProcsOK'
<1> USE DEF IInv
<1> DEFINE p == proc[r]
           value == p.arg[p.key]
           x == [p EXCEPT !.had = Nil]
           Stores(c, n) == /\ config' = [config EXCEPT ![p.key] = c]
                           /\ lastConfigId' = lastConfigId + n
                           /\ StoreKey(r, x, Keys \ {"interval", p.key})
<1>1. RequestOK(p, lastId, lastConfigId) /\ p.pc = "write"
  BY DEF ProcsOK, StoreWrite, At
<1>2. /\ p \in States(lastId) /\ p.arg \in Puts /\ p.key \in Keys /\ value # Nil
      /\ p.got \in RowsTo(lastId) /\ p.had \in EntriesTo(lastConfigId, p.key) \cup {Nil}
  BY <1>1 DEF RequestOK
<1>3. UNCHANGED <<row, lastId>>
  BY DEF StoreWrite
<1>4. /\ x \in States(lastId) /\ x.arg \in Puts /\ x.had = Nil
  BY <1>2 DEF States
<1>5. value # Unset => value \in IF p.key = "interval" THEN Periods \cup {Bad} ELSE BOOLEAN
  BY <1>2, ManagerAssumption DEF Keys
<1>6. \/ Answer(r, "failed") /\ UNCHANGED <<config, lastConfigId>>
      \/ Stores(config[p.key], 0)
      \/ row # Nil /\ Stores(Nil, 0)
      \/ value # Unset /\ row # Nil /\ Stores([id |-> lastConfigId + 1, value |-> value], 1)
      \/ value # Unset /\ row # Nil /\ p.had # Nil /\ Stores([p.had EXCEPT !.value = value], 0)
  BY DEF StoreWrite, Present
<1>7. ASSUME NEW c, NEW n \in {0, 1}, Stores(c, n), row # Nil \/ c = config[p.key],
             c \in EntriesTo(lastConfigId + n, p.key) \cup {Nil}
      PROVE  TablesOK' /\ ProcsOK'
  <2>1. TablesOK' /\ IdsGrow
    BY <1>2, <1>3, <1>7, EntryOK
  <2>2. StoreKey(r, x, Keys \ {"interval", p.key}) /\ x \in States(lastId')
    BY <1>3, <1>4, <1>7
  <2> HIDE DEF x
  <2>3. QED
    BY <1>4, <2>1, <2>2, StoreKeyOK
<1>8. CASE Answer(r, "failed") /\ UNCHANGED <<config, lastConfigId>>
  <2>1. TablesOK' /\ IdsGrow
    BY <1>3, <1>8, TablesKept DEF dbVars
  <2>2. QED
    BY <1>8, <2>1, Answered
<1>9. CASE Stores(config[p.key], 0)
  <2>1. config[p.key] \in EntriesTo(lastConfigId + 0, p.key) \cup {Nil}
    BY <1>2 DEF TablesOK
  <2> HIDE DEF Stores
  <2>2. QED
    BY <1>7, <1>9, <2>1
<1>10. CASE row # Nil /\ Stores(Nil, 0)
  <2> HIDE DEF Stores
  <2>1. QED
    BY <1>7, <1>10
<1>11. CASE value # Unset /\ row # Nil /\ Stores([id |-> lastConfigId + 1, value |-> value], 1)
  <2>1. [id |-> lastConfigId + 1, value |-> value] \in EntriesTo(lastConfigId + 1, p.key)
    <3> HIDE DEF value
    <3>1. QED
      BY <1>5, <1>11 DEF EntriesTo, TablesOK
  <2> HIDE DEF Stores
  <2>2. QED
    BY <1>7, <1>11, <2>1
<1>12. CASE /\ value # Unset /\ row # Nil /\ p.had # Nil
            /\ Stores([p.had EXCEPT !.value = value], 0)
  <2>1. p.had \in EntriesTo(lastConfigId, p.key)
    BY <1>2, <1>12
  <2>2. [p.had EXCEPT !.value = value] \in EntriesTo(lastConfigId + 0, p.key)
    <3> HIDE DEF value
    <3>1. QED
      BY <1>5, <1>12, <2>1 DEF EntriesTo, TablesOK
  <2> HIDE DEF Stores
  <2>3. QED
    BY <1>7, <1>12, <2>2
<1>13. QED
  BY <1>6, <1>8, <1>9, <1>10, <1>11, <1>12

\* clusterManagerDelete.
LEMMA DeleteStep ==
  ASSUME IInv, NEW r \in Requests, DeleteLoad(r) \/ DeleteRemote(r) \/ DeleteRow(r)
  PROVE  TablesOK' /\ ProcsOK'
<1> USE DEF IInv
<1>1. RequestOK(proc[r], lastId, lastConfigId) /\ Nil \in Args
  BY DEF ProcsOK, Args
<1>2. UNCHANGED <<lastId, lastConfigId>> /\ IdsGrow
  <2>1. UNCHANGED <<lastId, lastConfigId>>
    BY DEF DeleteLoad, DeleteRemote, DeleteRow, dbVars
  <2>2. QED
    BY <2>1 DEF IdsGrow, TablesOK
\* The request goes on and keeps the row in hand.
<1>3. ASSUME NEW pc \in {"remove", "deleted"}, Go(r, pc),
             proc[r].pc \in {"leave", "remove"}
      PROVE  ProcsOK'
  <2> DEFINE x == [proc[r] EXCEPT !.pc = pc]
  <2>1. /\ x \in States(lastId) /\ x.pc = pc /\ x.got = proc[r].got
        /\ x.had = proc[r].had /\ x.key = proc[r].key
    BY <1>1 DEF RequestOK, States, Pcs
  <2>2. RequestOK(x, lastId, lastConfigId)
    BY <1>1, <1>3, <2>1 DEF RequestOK
  <2>3. QED
    BY <1>2, <1>3, <2>2, RequestMoves DEF Go
<1>4. CASE DeleteLoad(r)
  <2>1. TablesOK'
    BY <1>4, TablesKept DEF DeleteLoad
  <2>2. CASE row = Nil
    BY <1>2, <1>4, <2>1, <2>2, Answered DEF DeleteLoad
  <2>3. CASE row # Nil
    <3>1. PICK pc \in {"remove", "leave"} : Become(r, [Idle EXCEPT !.pc = pc, !.got = row])
      BY <1>4, <2>3 DEF DeleteLoad
    <3> DEFINE x == [Idle EXCEPT !.pc = pc, !.got = row]
    <3>2. row \in RowsTo(lastId)
      BY <2>3 DEF TablesOK
    <3>3. x \in States(lastId) /\ x.pc = pc /\ x.got = row /\ x.had = Nil
      BY <1>1, <3>2 DEF Idle, States, Pcs
    <3>4. RequestOK(x, lastId, lastConfigId)
      BY <3>2, <3>3 DEF RequestOK
    <3>5. QED
      BY <1>2, <2>1, <3>1, <3>4, RequestMoves
  <2>4. QED
    BY <2>2, <2>3
<1>5. CASE DeleteRemote(r)
  <2>1. TablesOK'
    BY <1>5, TablesKept DEF DeleteRemote
  <2>2. QED
    BY <1>3, <1>5, <2>1 DEF DeleteRemote, At
<1>6. CASE DeleteRow(r)
  <2>1. CASE Present(r) /\ row' = Nil /\ config' = NoConfig /\ Go(r, "deleted")
    <3>1. TablesOK'
      BY <1>2, <2>1 DEF TablesOK, NoConfig
    <3>2. QED
      BY <1>3, <1>6, <2>1, <3>1 DEF DeleteRow, At
  <2>2. CASE Answer(r, "failed") /\ UNCHANGED <<row, config>>
    BY <1>2, <2>2, Answered, TablesKept DEF dbVars
  <2>3. QED
    BY <1>6, <2>1, <2>2 DEF DeleteRow
<1>7. QED
  BY <1>4, <1>5, <1>6

\* The requests.
LEMMA RequestStep ==
  ASSUME IInv, NEW r \in Requests, Request(r) PROVE IInv'
<1>1. TablesOK' /\ ProcsOK'
  <2>1. CASE RequestFails(r)
    BY <2>1, TablesKept, Answered DEF RequestFails, IInv
  <2>2. QED
    BY <2>1, PostStep, PutStep, StoreLoads, StoreWrites, DeleteStep DEF Request
<1>2. UNCHANGED <<period, envVars, faults>>
  BY DEF Request, PostCheck, PostJoin, PostCreate, PutLoad, PutStore, StoreLoad,
     StoreLoadConfig, StoreWrite, DeleteLoad, DeleteRemote, DeleteRow, RequestFails
<1>3. QED
  BY <1>1, <1>2 DEF IInv, TickersOK, EnvOK, envVars

-----------------------------------------------------------------------------
(* The status tasks.                                                        *)

\* A task returns with an interval that parses.
LEMMA Returns ==
  ASSUME IInv, NEW d \in Daemons, NEW n \in Periods, Return(d, n),
         UNCHANGED <<lastId, lastConfigId>>
  PROVE  ProcsOK' /\ TickersOK'
<1>1. TaskOK(Idle, lastId)
  BY IdleOK DEF IInv, TablesOK
<1>2. ProcsOK'
  BY <1>1, TaskMoves DEF Return, IInv
<1>3. n \in Int
  BY ManagerAssumption
<1>4. TickersOK'
  BY <1>3 DEF Return, TickersOK, IInv
<1>5. QED
  BY <1>2, <1>4

\* A task goes on with what it holds.
LEMMA TaskGoes ==
  ASSUME IInv, NEW d \in Daemons, NEW pc \in {"post", "status"}, Go(d, pc),
         proc[d].pc # "idle", UNCHANGED <<lastId, lastConfigId>>
  PROVE  ProcsOK'
<1> DEFINE x == [proc[d] EXCEPT !.pc = pc]
<1>1. TaskOK(proc[d], lastId)
  BY DEF IInv, ProcsOK
<1>2. x \in States(lastId) /\ x.pc = pc /\ x.arg = proc[d].arg /\ x.had = proc[d].had
  BY <1>1 DEF TaskOK, States, Pcs
<1>3. TaskOK(x, lastId)
  BY <1>1, <1>2 DEF TaskOK
<1>4. QED
  BY <1>3, TaskMoves DEF Go, IInv

\* The steps of a task that leave the tables alone.
LEMMA TaskReads ==
  ASSUME IInv, NEW d \in Daemons,
         \/ Tick(d) \/ LoadInterval(d) \/ CheckLeader(d) \/ PostStatus(d)
         \/ StatusLoad(d) \/ QueryFails(d)
  PROVE  ProcsOK' /\ TickersOK'
<1> USE DEF IInv
<1>1. TaskOK(proc[d], lastId) /\ Periods \subseteq Args /\ Default \in Periods
  BY ManagerAssumption DEF ProcsOK, Args
<1>2. UNCHANGED <<lastId, lastConfigId>>
  BY DEF Tick, LoadInterval, CheckLeader, PostStatus, StatusLoad, QueryFails, dbVars
<1>3. proc[d].pc # "idle" => proc[d].arg \in Periods
  BY <1>1 DEF TaskOK
<1>4. period' = period => TickersOK'
  BY DEF TickersOK
<1>5. CASE Tick(d)
  <2>1. CASE row = Nil
    BY <1>1, <1>2, <1>5, <2>1, Returns DEF Tick
  <2>2. CASE row # Nil
    <3> DEFINE x == [Idle EXCEPT !.pc = "interval", !.arg = Default, !.got = row]
    <3>1. Become(d, x) /\ period' = period
      BY <1>5, <2>2 DEF Tick
    <3>2. row \in RowsTo(lastId) /\ Default \in Args
      BY <1>1, <2>2 DEF TablesOK
    <3>3. /\ x \in States(lastId) /\ x.pc = "interval" /\ x.arg = Default
          /\ x.got = row /\ x.had = Nil
      BY <3>2 DEF Idle, States, Pcs
    <3>4. TaskOK(x, lastId)
      BY <1>1, <3>2, <3>3 DEF TaskOK
    <3>5. QED
      BY <1>2, <1>4, <3>1, <3>4, TaskMoves
  <2>3. QED
    BY <2>1, <2>2
<1>6. CASE LoadInterval(d)
  <2>1. CASE Interval(d) \notin Periods
    BY <1>1, <1>2, <1>6, <2>1, Returns DEF LoadInterval
  <2>2. CASE Interval(d) \in Periods
    <3> DEFINE x == [proc[d] EXCEPT !.pc = "leader", !.arg = Interval(d), !.got = Nil]
    <3>1. Become(d, x) /\ period' = period
      BY <1>6, <2>2 DEF LoadInterval
    <3>2. /\ x \in States(lastId) /\ x.pc = "leader" /\ x.arg = Interval(d)
          /\ x.had = proc[d].had
      BY <1>1, <2>2 DEF TaskOK, States, Pcs
    <3>3. TaskOK(x, lastId)
      BY <1>1, <2>2, <3>2 DEF TaskOK
    <3>4. QED
      BY <1>2, <1>4, <3>1, <3>3, TaskMoves
  <2>3. QED
    BY <2>1, <2>2
<1>7. CASE CheckLeader(d)
  <2>1. proc[d].pc = "leader"
    BY <1>7 DEF CheckLeader, At
  <2>2. QED
    BY <1>2, <1>3, <1>4, <1>7, <2>1, Returns, TaskGoes DEF CheckLeader
<1>8. CASE PostStatus(d)
  BY <1>2, <1>4, <1>8, TaskGoes DEF PostStatus, At
<1>9. CASE StatusLoad(d)
  <2>1. proc[d].pc = "status"
    BY <1>9 DEF StatusLoad, At
  <2>2. CASE row = Nil
    BY <1>2, <1>3, <1>9, <2>1, <2>2, Returns DEF StatusLoad
  <2>3. CASE row # Nil
    <3> DEFINE x == [proc[d] EXCEPT !.pc = "store", !.got = row]
    <3>1. Become(d, x) /\ period' = period
      BY <1>9, <2>3 DEF StatusLoad
    <3>2. row \in RowsTo(lastId)
      BY <2>3 DEF TablesOK
    <3>3. /\ x \in States(lastId) /\ x.pc = "store" /\ x.arg = proc[d].arg
          /\ x.got = row /\ x.had = proc[d].had
      BY <1>1, <3>2 DEF TaskOK, States, Pcs
    <3>4. TaskOK(x, lastId)
      BY <1>1, <2>1, <3>2, <3>3 DEF TaskOK
    <3>5. QED
      BY <1>2, <1>4, <3>1, <3>4, TaskMoves
  <2>4. QED
    BY <2>2, <2>3
<1>10. CASE QueryFails(d)
  BY <1>2, <1>3, <1>10, Returns DEF QueryFails
<1>11. QED
  BY <1>5, <1>6, <1>7, <1>8, <1>9, <1>10

\* The status tasks.
LEMMA TaskStep ==
  ASSUME IInv, NEW d \in Daemons, Task(d) PROVE IInv'
<1>1. CASE StatusStore(d)
  <2>1. TaskOK(proc[d], lastId) /\ proc[d].pc = "store"
    BY <1>1 DEF IInv, ProcsOK, StatusStore, At
  <2>2. proc[d].got \in RowsTo(lastId) /\ proc[d].arg \in Periods
    BY <2>1 DEF TaskOK
  <2>3. UNCHANGED <<config, lastId, lastConfigId, envVars, faults>>
    BY <1>1 DEF StatusStore
  <2>4. TablesOK'
    <3>1. CASE UpdateClusterManager(d, proc[d].got)
      BY <2>2, <2>3, <3>1, UpdateOK DEF IInv
    <3>2. CASE UNCHANGED row
      BY <2>3, <3>2, TablesKept DEF dbVars, IInv
    <3>3. QED
      BY <1>1, <3>1, <3>2 DEF StatusStore
  <2>5. ProcsOK' /\ TickersOK'
    BY <1>1, <2>2, <2>3, Returns DEF StatusStore
  <2>6. QED
    BY <2>3, <2>4, <2>5 DEF IInv, EnvOK, envVars
<1>2. CASE \/ Tick(d) \/ LoadInterval(d) \/ CheckLeader(d) \/ PostStatus(d)
           \/ StatusLoad(d) \/ QueryFails(d)
  <2>1. ProcsOK' /\ TickersOK'
    BY <1>2, TaskReads
  <2>2. UNCHANGED <<dbVars, envVars>>
    BY <1>2 DEF Tick, LoadInterval, CheckLeader, PostStatus, StatusLoad, QueryFails
  <2>3. faults' \in 0..MaxFaults
    BY <1>2, ManagerAssumption
       DEF Tick, LoadInterval, CheckLeader, PostStatus, StatusLoad, QueryFails, IInv, EnvOK
  <2>4. TablesOK'
    BY <2>2, TablesKept DEF IInv
  <2>5. QED
    BY <2>1, <2>2, <2>3, <2>4 DEF IInv, EnvOK, envVars
<1>3. QED
  BY <1>1, <1>2 DEF Task

\* Every step.
LEMMA StepOK == IInv /\ [Next]_vars => IInv'
<1> SUFFICES ASSUME IInv, [Next]_vars PROVE IInv'
  OBVIOUS
<1>1. CASE Change
  <2>1. TablesOK' /\ IdsGrow
    BY <1>1, TablesKept DEF Change, IInv
  <2>2. EnvOK'
    BY <1>1, ManagerAssumption DEF Change, IInv, EnvOK
  <2>3. ProcsOK' /\ TickersOK'
    BY <1>1 DEF Change, IInv, ProcsOK, TickersOK, dbVars
  <2>4. QED
    BY <2>1, <2>2, <2>3 DEF IInv
<1>2. CASE UNCHANGED vars
  <2>1. TablesOK'
    BY <1>2, TablesKept DEF vars, IInv
  <2>2. QED
    BY <1>2, <2>1 DEF vars, dbVars, envVars, IInv, ProcsOK, TickersOK, EnvOK
<1>3. QED
  BY <1>1, <1>2, RequestStep, TaskStep DEF Next

\* Initially no process runs, and the tables are empty or as a token leaves them.
LEMMA InitOK == Init => IInv
<1> SUFFICES ASSUME Init PROVE IInv
  OBVIOUS
<1>1. TablesOK
  <2>1. CASE row = Nil /\ config = NoConfig /\ lastId = 0 /\ lastConfigId = 0
    BY <2>1 DEF TablesOK, NoConfig
  <2>2. CASE \E t \in Posts : /\ row = NewRow(1, t) /\ config = NewConfig(1)
                              /\ lastId = 1 /\ lastConfigId = 1
    <3>1. PICK t \in Posts : /\ row = NewRow(1, t) /\ config = NewConfig(1)
                             /\ lastId = 1 /\ lastConfigId = 1
      BY <2>2
    <3>2. row \in RowsTo(lastId)
      BY <3>1, ManagerAssumption DEF NewRow, RowsTo
    <3>3. row # Nil
      BY <3>1, <3>2, ManagerAssumption DEF RowsTo
    <3>4. /\ DOMAIN config = Keys
          /\ \A k \in Keys : config[k] \in EntriesTo(lastConfigId, k) \cup {Nil}
      BY <3>1, ManagerAssumption DEF NewConfig, NoConfig, Keys, EntriesTo
    <3>5. QED
      BY <3>1, <3>2, <3>3, <3>4 DEF TablesOK
  <2>3. QED
    BY <2>1, <2>2 DEF Init
<1>2. ProcsOK
  BY <1>1, IdleOK DEF Init, ProcsOK, Procs, TablesOK
<1>3. TickersOK /\ EnvOK
  BY ManagerAssumption DEF Init, TickersOK, EnvOK
<1>4. QED
  BY <1>1, <1>2, <1>3 DEF IInv

\* IInv is inductive.
THEOREM Inductive == Spec => []IInv
  BY InitOK, StepOK, PTL DEF Spec

\* The state keeps its type: ids that were given out, a configuration that goes
\* with its row, and tickers whose period is positive.
THEOREM TypeOKHolds == Spec => []TypeOK
<1>1. IInv => TypeOK
  <2> SUFFICES ASSUME IInv PROVE TypeOK
    OBVIOUS
  <2>1. Rows = RowsTo(lastId) /\ \A k : ConfigRows(k) = EntriesTo(lastConfigId, k)
    BY DEF Rows, RowsTo, ConfigRows, EntriesTo
  <2>2. ASSUME NEW p \in Procs
        PROVE  proc[p].got \in Rows \cup {Nil} /\ proc[p].had \in ConfigRows(proc[p].key) \cup {Nil}
    BY <2>1, <2>2 DEF IInv, ProcsOK, Procs, RequestOK, TaskOK, States
  <2>3. QED
    BY <2>1, <2>2 DEF IInv, TablesOK, TickersOK, EnvOK, TypeOK
<1>2. QED
  BY <1>1, Inductive, PTL

-----------------------------------------------------------------------------
(* What was deleted stays deleted.                                          *)

\* The row of the next state is the one of this state under the same id, or none,
\* or a new one.
LEMMA RowMoves ==
  ASSUME IInv, [Next]_vars, row' # Nil
  PROVE  (row # Nil /\ row'.id = row.id) \/ row'.id = lastId + 1
<1>1. ASSUME NEW r \in Requests, PutStore(r)
      PROVE  row # Nil /\ row'.id = row.id
  <2>1. RequestOK(proc[r], lastId, lastConfigId) /\ proc[r].pc = "store"
    BY <1>1 DEF IInv, ProcsOK, PutStore, At
  <2>2. proc[r].got \in RowsTo(lastId)
    BY <2>1 DEF RequestOK
  <2> DEFINE q == [proc[r].got EXCEPT !.addresses = Given(proc[r].arg.addresses, @),
                                      !.fingerprint = Given(proc[r].arg.fingerprint, @)]
  <2>3. q.id = proc[r].got.id
    BY <2>2 DEF RowsTo
  <2>4. UpdateClusterManager(r, q) \/ row' = row
    BY <1>1 DEF PutStore
  <2>5. QED
    BY <2>3, <2>4 DEF UpdateClusterManager, Present
<1>2. ASSUME NEW d \in Daemons, StatusStore(d)
      PROVE  row # Nil /\ row'.id = row.id
  BY <1>2 DEF StatusStore, UpdateClusterManager, Present
<1>3. ASSUME NEW r \in Requests, PostCreate(r) PROVE row' = row \/ row'.id = lastId + 1
  BY <1>3 DEF PostCreate, dbVars, NewRow
<1>4. ASSUME NEW r \in Requests, DeleteRow(r) PROVE row' = row
  BY <1>4 DEF DeleteRow
<1>5. ASSUME NEW r \in Requests,
             \/ PostCheck(r) \/ PostJoin(r) \/ PutLoad(r) \/ StoreLoad(r)
             \/ StoreLoadConfig(r) \/ StoreWrite(r) \/ DeleteLoad(r) \/ DeleteRemote(r)
             \/ RequestFails(r)
      PROVE  row' = row
  BY <1>5 DEF PostCheck, PostJoin, PutLoad, StoreLoad, StoreLoadConfig, StoreWrite,
     DeleteLoad, DeleteRemote, RequestFails, dbVars
<1>6. ASSUME NEW d \in Daemons,
             \/ Tick(d) \/ LoadInterval(d) \/ CheckLeader(d) \/ PostStatus(d)
             \/ StatusLoad(d) \/ QueryFails(d)
      PROVE  row' = row
  BY <1>6 DEF Tick, LoadInterval, CheckLeader, PostStatus, StatusLoad, QueryFails, dbVars
<1>7. CASE Change \/ UNCHANGED vars
  BY <1>7 DEF Change, vars, dbVars
<1>8. QED
  BY <1>1, <1>2, <1>3, <1>4, <1>5, <1>6, <1>7 DEF Next, Request, Task

\* A request is "deleted" because it was, or because it has just deleted the row.
LEMMA DeletedMoves ==
  ASSUME IInv, [Next]_vars, NEW r \in Requests, At(r, "deleted")'
  PROVE  (At(r, "deleted") /\ proc'[r].got = proc[r].got) \/ row' = Nil
<1> USE DEF At
<1>1. r \in DOMAIN proc /\ \A p : p \in Procs => p \in DOMAIN proc
  BY DEF IInv, ProcsOK, Procs
<1>2. ASSUME NEW p \in Procs, NEW x, Become(p, x), p # r PROVE proc'[r] = proc[r]
  BY <1>1, <1>2 DEF Become
<1>3. ASSUME NEW x, Become(r, x) PROVE proc'[r] = x
  BY <1>1, <1>3 DEF Become
<1>4. ASSUME NEW d \in Daemons, Task(d) PROVE proc'[r] = proc[r]
  <2>1. d # r /\ d \in Procs
    BY ManagerAssumption DEF Procs
  <2>2. QED
    BY <1>2, <1>4, <2>1 DEF Task, Tick, LoadInterval, CheckLeader, PostStatus,
       StatusLoad, StatusStore, QueryFails, Return, Go
<1>5. ASSUME NEW q \in Requests, q # r, Request(q) PROVE proc'[r] = proc[r]
  <2>1. q \in Procs
    BY DEF Procs
  <2>2. ASSUME NEW x, NEW keys, StoreKey(q, x, keys) PROVE proc'[r] = proc[r]
    BY <1>2, <1>5, <2>1, <2>2 DEF StoreKey, Answer
  <2>3. CASE PutLoad(q) \/ PutStore(q) \/ StoreWrite(q)
    BY <1>2, <1>5, <2>1, <2>2, <2>3 DEF PutLoad, PutStore, StoreWrite, Answer
  <2>4. QED
    BY <1>2, <1>5, <2>1, <2>3 DEF Request, PostCheck, PostJoin, PostCreate, StoreLoad,
       StoreLoadConfig, DeleteLoad, DeleteRemote, DeleteRow, RequestFails, Answer, Go
<1>6. ASSUME Request(r) PROVE row' = Nil
  <2>1. \A pc : Idle.pc = "idle" /\ [Idle EXCEPT !.pc = pc].pc = pc
    BY DEF Idle
  <2>2. ASSUME NEW pc, Answer(r, pc), pc # "deleted" PROVE FALSE
    BY <1>3, <2>1, <2>2 DEF Answer
  <2>3. proc[r] \in States(lastId)
    BY DEF IInv, ProcsOK, RequestOK
  <2>4. ASSUME NEW pc, Go(r, pc), pc # "deleted" PROVE FALSE
    BY <1>3, <2>3, <2>4 DEF Go, States
  <2>5. ASSUME NEW x \in States(lastId), NEW keys, StoreKey(r, x, keys) PROVE FALSE
    BY <1>3, <2>2, <2>5 DEF StoreKey, States
  <2>6. ASSUME NEW a, NEW g, NEW pc, Become(r, [Idle EXCEPT !.pc = pc, !.arg = a, !.got = g]),
               pc # "deleted"
        PROVE  FALSE
    BY <1>3, <2>6 DEF Idle
  <2>7. CASE PostCheck(r)
    <3>1. ASSUME NEW t, Become(r, [Idle EXCEPT !.pc = "join", !.arg = t]) PROVE FALSE
      BY <1>3, <3>1 DEF Idle
    <3>2. QED
      BY <2>2, <2>7, <3>1 DEF PostCheck
  <2>8. CASE PutLoad(r)
    <3>1. row \in RowsTo(lastId) \cup {Nil} /\ Puts \subseteq Args /\ Nil \in Args
      BY DEF IInv, TablesOK, Args
    <3>2. \A a \in Puts : [Idle EXCEPT !.pc = "store", !.arg = a, !.got = row] \in States(lastId)
      BY <3>1 DEF Idle, States, Pcs
    <3>3. QED
      BY <2>2, <2>5, <2>6, <2>8, <3>2 DEF PutLoad
  <2>9. CASE PutStore(r)
    BY <2>2, <2>3, <2>5, <2>9 DEF PutStore
  <2>10. CASE StoreWrite(r)
    <3>1. [proc[r] EXCEPT !.had = Nil] \in States(lastId)
      BY <2>3 DEF States
    <3>2. Answer(r, "failed") \/ \E keys : StoreKey(r, [proc[r] EXCEPT !.had = Nil], keys)
      BY <2>10 DEF StoreWrite
    <3>3. QED
      BY <2>2, <2>5, <3>1, <3>2
  <2>11. CASE StoreLoad(r) \/ StoreLoadConfig(r)
    <3>1. /\ \A g : [proc[r] EXCEPT !.pc = "config", !.got = g].pc = "config"
          /\ \A g : [proc[r] EXCEPT !.pc = "write", !.had = g].pc = "write"
      BY <2>3 DEF States
    <3>2. \/ Answer(r, "failed")
          \/ \E g : Become(r, [proc[r] EXCEPT !.pc = "config", !.got = g])
          \/ \E g : Become(r, [proc[r] EXCEPT !.pc = "write", !.had = g])
      BY <2>11 DEF StoreLoad, StoreLoadConfig
    <3>3. ASSUME NEW g, Become(r, [proc[r] EXCEPT !.pc = "config", !.got = g]) PROVE FALSE
      <4>1. proc'[r] = [proc[r] EXCEPT !.pc = "config", !.got = g]
        BY <1>3, <3>3
      <4>2. QED
        BY <3>1, <4>1
    <3>4. ASSUME NEW g, Become(r, [proc[r] EXCEPT !.pc = "write", !.had = g]) PROVE FALSE
      <4>1. proc'[r] = [proc[r] EXCEPT !.pc = "write", !.had = g]
        BY <1>3, <3>4
      <4>2. QED
        BY <3>1, <4>1
    <3>5. QED
      BY <2>2, <3>2, <3>3, <3>4
  <2>12. CASE DeleteLoad(r)
    <3>1. \A pc, g : [Idle EXCEPT !.pc = pc, !.got = g].pc = pc
      BY DEF Idle
    <3>2. QED
      BY <1>3, <2>2, <2>12, <3>1 DEF DeleteLoad
  <2>13. CASE PostJoin(r) \/ PostCreate(r) \/ DeleteRemote(r) \/ RequestFails(r)
    BY <2>2, <2>4, <2>13 DEF PostJoin, PostCreate, DeleteRemote, RequestFails
  <2>14. CASE DeleteRow(r)
    BY <2>2, <2>14 DEF DeleteRow
  <2>15. QED
    BY <1>6, <2>7, <2>8, <2>9, <2>10, <2>11, <2>12, <2>13, <2>14 DEF Request
<1>7. QED
  BY <1>4, <1>5, <1>6 DEF Next, Change, vars

\* A cluster manager whose deletion was answered OK stays deleted, whatever the
\* requests and the status tasks that had loaded it still store: an update needs
\* the row with the same id, and no id is given out twice.
THEOREM DeletedStaysHolds == Spec => []DeletedStays
<1>1. Init => DeletedStays
  BY DEF Init, DeletedStays, At, Idle, Procs
<1>2. IInv /\ DeletedStays /\ [Next]_vars => DeletedStays'
  <2> SUFFICES ASSUME IInv, DeletedStays, [Next]_vars, NEW r \in Requests,
                      At(r, "deleted")', row' # Nil
               PROVE  row'.id > proc'[r].got.id
    BY DEF DeletedStays
  <2>1. At(r, "deleted") /\ proc'[r].got = proc[r].got
    BY DeletedMoves
  <2>2. proc[r].got \in RowsTo(lastId) /\ lastId \in Nat
    BY <2>1 DEF At, IInv, ProcsOK, RequestOK, TablesOK
  <2>3. CASE row'.id = lastId + 1
    BY <2>1, <2>2, <2>3 DEF RowsTo
  <2>4. CASE row # Nil /\ row'.id = row.id
    BY <2>1, <2>4 DEF DeletedStays
  <2>5. QED
    BY <2>3, <2>4, RowMoves
<1>3. QED
  BY <1>1, <1>2, Inductive, PTL DEF Spec
=============================================================================
