------------------------------- MODULE Manager -------------------------------
(* The cluster manager's configuration in MicroCloud's database, the API      *)
(* requests that create, change and delete it, and the task of every daemon   *)
(* that sends the cluster's status.  A database transaction is one step, and  *)
(* so is a request to the cluster manager; everything may happen in between.  *)
(*                                                                            *)
(* api/cluster_manager.go, database/cluster_manager_config.go,                *)
(* client/cluster_manager_client.go, cmd/microcloudd/cluster_manager_task.go. *)
EXTENDS Integers

CONSTANTS Requests,      \* API requests, each one sent once
          Members,       \* of the cluster
          Daemons,       \* the members whose status task is followed
          Managers,      \* remote cluster managers, known by their fingerprint
          Addresses,     \* lists of their addresses
          Posts,         \* tokens: [addresses, fingerprint]
          Puts,          \* [addresses, fingerprint, interval, tunnel], Nil for no change
          Periods,       \* the values of update_interval_seconds that parse
          Default,       \* UpdateIntervalDefaultSeconds
          MaxChanges,    \* changes of leadership
          MaxFaults,     \* failing queries of the status tasks
          Nil, Unset, Bad    \* values: none, "", and one that does not parse

ASSUME ManagerAssumption ==
  /\ Periods \subseteq Int /\ Default \in Periods /\ Default > 0
  /\ Nil \notin Managers /\ Nil \notin Addresses /\ Requests \cap Daemons = {}
  /\ Daemons \subseteq Members
  /\ Posts \subseteq [addresses : Addresses, fingerprint : Managers]
  /\ Puts \subseteq [addresses : Addresses \cup {Nil}, fingerprint : Managers \cup {Nil},
                     interval : Periods \cup {Bad, Unset, Nil}, tunnel : BOOLEAN \cup {Nil}]
  /\ Nil \notin [id : Nat, addresses : Addresses, fingerprint : Managers]
  /\ MaxChanges \in Nat /\ MaxFaults \in Nat

Keys == {"interval", "tunnel"}

VARIABLES
  row,       \* table cluster_manager: UNIQUE (name), and only "default" is allowed;
             \* the columns of the last status, which no step depends on, are left out
  config,    \* table cluster_manager_config: UNIQUE (cluster_manager_id, key)
  lastId, lastConfigId,    \* AUTOINCREMENT
  proc,      \* the requests and the status tasks
  period,    \* the tasks' tickers
  leader,    \* of the database
  changes, faults

dbVars == <<row, config, lastId, lastConfigId>>
envVars == <<leader, changes>>
vars == <<dbVars, proc, period, envVars, faults>>

Procs == Requests \cup Daemons
NoConfig == [k \in Keys |-> Nil]

\* What clusterManagerPost creates from a token: the row and its update interval.
NewRow(id, t) == [id |-> id, addresses |-> t.addresses, fingerprint |-> t.fingerprint]
NewConfig(id) == [NoConfig EXCEPT !["interval"] = [id |-> id, value |-> Default]]

\* A process: what it was asked (a task: nextUpdate), the key that it stores, and the
\* rows that it has loaded.
Idle == [pc |-> "idle", arg |-> Nil, key |-> Nil, got |-> Nil, had |-> Nil]

\* Before the first token, or after it.
Init ==
  /\ \/ row = Nil /\ config = NoConfig /\ lastId = 0 /\ lastConfigId = 0
     \/ \E t \in Posts : row = NewRow(1, t) /\ config = NewConfig(1) /\ lastId = 1 /\ lastConfigId = 1
  /\ proc = [p \in Procs |-> Idle] /\ period = [d \in Daemons |-> Default]
  /\ leader \in Members /\ changes = 0 /\ faults = 0

-----------------------------------------------------------------------------
(* The database and the client *)

At(p, pc) == proc[p].pc = pc
Become(p, state) == proc' = [proc EXCEPT ![p] = state]
Go(p, pc) == Become(p, [proc[p] EXCEPT !.pc = pc])
Answer(r, pc) == Become(r, [Idle EXCEPT !.pc = pc])

\* The row that p has loaded is still there.
Present(p) == row # Nil /\ row.id = proc[p].got.id

\* Mutant: a row that is gone is inserted again.
InsertOrReplace(p, r) == row' = r

\* UpdateClusterManager: every column, of the row with the id.
UpdateClusterManager(p, r) == Present(p) /\ row' = r

\* A transaction or the request to the cluster manager fails, which may have done what
\* it was asked: what the request stored before stays.
RequestFails(r) ==
  /\ proc[r].pc \notin {"idle", "failed", "done", "deleted"}
  /\ Answer(r, "failed")
  /\ UNCHANGED <<dbVars, period, envVars, faults>>

-----------------------------------------------------------------------------
(* clusterManagerPost *)

PostCheck(r) ==
  /\ At(r, "idle")
  /\ IF row # Nil THEN Answer(r, "failed")
     ELSE \E t \in Posts : Become(r, [Idle EXCEPT !.pc = "join", !.arg = t])
  /\ UNCHANGED <<dbVars, period, envVars, faults>>

PostJoin(r) ==
  /\ At(r, "join")
  /\ Go(r, "create")
  /\ UNCHANGED <<dbVars, period, envVars, faults>>

PostCreate(r) ==
  /\ At(r, "create")
  /\ IF row # Nil
     THEN Answer(r, "failed") /\ UNCHANGED dbVars
     ELSE /\ row' = NewRow(lastId + 1, proc[r].arg) /\ config' = NewConfig(lastConfigId + 1)
          /\ lastId' = lastId + 1 /\ lastConfigId' = lastConfigId + 1
          /\ Answer(r, "done")
  /\ UNCHANGED <<period, envVars, faults>>

-----------------------------------------------------------------------------
(* clusterManagerPut *)

\* The keys are stored one after the other; without another one the request is done.
StoreKey(r, state, keys) ==
  LET set == {k \in keys : state.arg[k] # Nil}
  IN IF set = {} THEN Answer(r, "done")
     ELSE Become(r, [state EXCEPT !.pc = "key", !.key = IF "interval" \in set THEN "interval" ELSE "tunnel"])

PutLoad(r) ==
  /\ At(r, "idle")
  /\ IF row = Nil THEN Answer(r, "failed")
     ELSE \E a \in Puts :
            LET state == [Idle EXCEPT !.pc = "store", !.arg = a, !.got = row]
            IN IF {a.addresses, a.fingerprint} = {Nil} THEN StoreKey(r, state, Keys) ELSE Become(r, state)
  /\ UNCHANGED <<dbVars, period, envVars, faults>>

Given(new, old) == IF new = Nil THEN old ELSE new

PutStore(r) ==
  /\ r \in Requests /\ At(r, "store")
  /\ LET a == proc[r].arg
     IN \/ /\ UpdateClusterManager(r, [proc[r].got EXCEPT !.addresses = Given(a.addresses, @),
                                                         !.fingerprint = Given(a.fingerprint, @)])
           /\ StoreKey(r, proc[r], Keys)
        \/ ~Present(r) /\ Answer(r, "failed") /\ UNCHANGED row
  /\ UNCHANGED <<config, lastId, lastConfigId, period, envVars, faults>>

\* StoreClusterManagerConfig loads the row by its name again, then its configuration.
StoreLoad(r) ==
  /\ At(r, "key")
  /\ IF row = Nil THEN Answer(r, "failed") ELSE Become(r, [proc[r] EXCEPT !.pc = "config", !.got = row])
  /\ UNCHANGED <<dbVars, period, envVars, faults>>

StoreLoadConfig(r) ==
  /\ At(r, "config")
  /\ Become(r, [proc[r] EXCEPT !.pc = "write", !.had = IF Present(r) THEN config[proc[r].key] ELSE Nil])
  /\ UNCHANGED <<dbVars, period, envVars, faults>>

\* Deletes and updates by the id, creates under the foreign key and the unique key.
StoreWrite(r) ==
  /\ At(r, "write")
  /\ LET p == proc[r]
         value == p.arg[p.key]
         kept == Present(r) /\ config[p.key] # Nil /\ config[p.key].id = p.had.id
         Stores(c, n) == /\ config' = [config EXCEPT ![p.key] = c]
                         /\ lastConfigId' = lastConfigId + n
                         /\ StoreKey(r, [p EXCEPT !.had = Nil], Keys \ {"interval", p.key})
         Fails == Answer(r, "failed") /\ UNCHANGED <<config, lastConfigId>>
     IN CASE value = Unset /\ p.had = Nil -> Stores(config[p.key], 0)
          [] value = Unset /\ p.had # Nil -> IF kept THEN Stores(Nil, 0) ELSE Fails
          [] value # Unset /\ p.had = Nil ->
               IF Present(r) /\ config[p.key] = Nil
               THEN Stores([id |-> lastConfigId + 1, value |-> value], 1) ELSE Fails
          [] value # Unset /\ p.had # Nil -> IF kept THEN Stores([p.had EXCEPT !.value = value], 0) ELSE Fails
  /\ UNCHANGED <<row, lastId, period, envVars, faults>>

-----------------------------------------------------------------------------
(* clusterManagerDelete *)

DeleteLoad(r) ==
  /\ At(r, "idle")
  /\ IF row = Nil THEN Answer(r, "failed")
     ELSE \E force \in BOOLEAN :
            Become(r, [Idle EXCEPT !.pc = IF force THEN "remove" ELSE "leave", !.got = row])
  /\ UNCHANGED <<dbVars, period, envVars, faults>>

DeleteRemote(r) ==
  /\ At(r, "leave")
  /\ Go(r, "remove")
  /\ UNCHANGED <<dbVars, period, envVars, faults>>

\* The configuration goes with the row (ON DELETE CASCADE).
DeleteRow(r) ==
  /\ At(r, "remove")
  /\ \/ Present(r) /\ row' = Nil /\ config' = NoConfig /\ Go(r, "deleted")
     \/ ~Present(r) /\ Answer(r, "failed") /\ UNCHANGED <<row, config>>
  /\ UNCHANGED <<lastId, lastConfigId, period, envVars, faults>>

-----------------------------------------------------------------------------
(* sendClusterManagerStatusMessage *)

\* Mutant: the ticker is reset to every interval.
ReturnResets(d, nextUpdate) == Become(d, Idle) /\ period' = [period EXCEPT ![d] = nextUpdate]

\* The task returns, and its ticker takes the interval if that is positive.
Return(d, nextUpdate) ==
  /\ Become(d, Idle)
  /\ period' = [period EXCEPT ![d] = IF nextUpdate > 0 THEN nextUpdate ELSE @]

Tick(d) ==
  /\ At(d, "idle")
  /\ IF row = Nil THEN Return(d, Default)
     ELSE Become(d, [Idle EXCEPT !.pc = "interval", !.arg = Default, !.got = row]) /\ UNCHANGED period
  /\ UNCHANGED <<dbVars, envVars, faults>>

\* Mutant: an interval that is not set is an error.
IntervalRequired(d) == IF Present(d) /\ config["interval"] # Nil THEN config["interval"].value ELSE Bad

\* LoadClusterManagerUpdateIntervalSeconds: the default when it is not set.
Interval(d) == IF Present(d) /\ config["interval"] # Nil THEN config["interval"].value ELSE Default

LoadInterval(d) ==
  /\ At(d, "interval")
  /\ IF Interval(d) \in Periods
     THEN Become(d, [proc[d] EXCEPT !.pc = "leader", !.arg = Interval(d), !.got = Nil]) /\ UNCHANGED period
     ELSE Return(d, Default)
  /\ UNCHANGED <<dbVars, envVars, faults>>

CheckLeader(d) ==
  /\ At(d, "leader")
  /\ IF leader = d THEN Go(d, "post") /\ UNCHANGED period ELSE Return(d, proc[d].arg)
  /\ UNCHANGED <<dbVars, envVars, faults>>

\* A query of the database, its leader or LXD fails, and the task returns.
QueryFails(d) ==
  /\ proc[d].pc \in {"interval", "leader", "post", "status", "store"}
  /\ faults < MaxFaults /\ faults' = faults + 1
  /\ Return(d, proc[d].arg)
  /\ UNCHANGED <<dbVars, envVars>>

\* The metrics are collected and sent; either outcome is recorded.
PostStatus(d) ==
  /\ At(d, "post")
  /\ Go(d, "status")
  /\ UNCHANGED <<dbVars, period, envVars, faults>>

\* SetClusterManagerStatusLastSuccess and LastError load the row by its name again.
StatusLoad(d) ==
  /\ At(d, "status")
  /\ IF row = Nil THEN Return(d, proc[d].arg)
     ELSE Become(d, [proc[d] EXCEPT !.pc = "store", !.got = row]) /\ UNCHANGED period
  /\ UNCHANGED <<dbVars, envVars, faults>>

StatusStore(d) ==
  /\ d \in Daemons /\ At(d, "store")
  /\ \/ UpdateClusterManager(d, proc[d].got)
     \/ ~Present(d) /\ UNCHANGED row
  /\ Return(d, proc[d].arg)
  /\ UNCHANGED <<config, lastId, lastConfigId, envVars, faults>>

-----------------------------------------------------------------------------
\* Another member leads the database.
Change ==
  /\ changes < MaxChanges /\ changes' = changes + 1
  /\ leader' \in Members \ {leader}
  /\ UNCHANGED <<dbVars, proc, period, faults>>

Request(r) ==
  \/ PostCheck(r) \/ PostJoin(r) \/ PostCreate(r)
  \/ PutLoad(r) \/ PutStore(r) \/ StoreLoad(r) \/ StoreLoadConfig(r) \/ StoreWrite(r)
  \/ DeleteLoad(r) \/ DeleteRemote(r) \/ DeleteRow(r) \/ RequestFails(r)

Task(d) ==
  \/ Tick(d) \/ LoadInterval(d) \/ CheckLeader(d) \/ PostStatus(d)
  \/ StatusLoad(d) \/ StatusStore(d) \/ QueryFails(d)

Next == (\E r \in Requests : Request(r)) \/ (\E d \in Daemons : Task(d)) \/ Change

\* Every ticker fires again and again, and a task that has begun goes on.
Fairness == \A d \in Daemons : WF_vars(Task(d))

Spec == Init /\ [][Next]_vars /\ Fairness

-----------------------------------------------------------------------------
Rows == [id : 1..lastId, addresses : Addresses, fingerprint : Managers]
ConfigRows(k) == [id : 1..lastConfigId, value : IF k = "interval" THEN Periods \cup {Bad} ELSE BOOLEAN]

(* The type invariant: rows carry ids that were given out, the configuration  *)
(* belongs to the row that is there, a task has a row in hand while it runs,  *)
(* and a ticker's period is positive: time.Ticker.Reset panics otherwise.     *)
TypeOK ==
  /\ row \in Rows \cup {Nil} /\ lastId \in Nat /\ lastConfigId \in Nat
  /\ DOMAIN config = Keys /\ (row = Nil => config = NoConfig)
  /\ \A k \in Keys : config[k] \in ConfigRows(k) \cup {Nil}
  /\ \A p \in Procs :
       /\ proc[p].got \in Rows \cup {Nil} /\ proc[p].had \in ConfigRows(proc[p].key) \cup {Nil}
  /\ period \in [Daemons -> {p \in Periods : p > 0}]
  /\ leader \in Members /\ changes \in 0..MaxChanges /\ faults \in 0..MaxFaults

(* A cluster manager whose deletion was answered OK stays deleted, whatever   *)
(* the requests and the status tasks that had loaded it still store.          *)
DeletedStays == \A r \in Requests : At(r, "deleted") /\ row # Nil => row.id > proc[r].got.id

(* Heartbeats go on: as long as a cluster manager is configured with an       *)
(* interval that parses, the leader's task comes to sending the status again  *)
(* and again, and every ticker takes the interval over if it is positive.     *)
IntervalParses == config["interval"] = Nil \/ config["interval"].value \in Periods
HeartbeatsGoOn ==
  /\ <>[](row # Nil /\ IntervalParses /\ leader \in Daemons) => []<>(\E d \in Daemons : At(d, "post"))
  /\ \A p \in {q \in Periods : q > 0} :
       <>[](config["interval"] # Nil /\ config["interval"].value = p) => <>[](\A d \in Daemons : period[d] = p)

(* Recording the outcome of a heartbeat changes nothing but the outcome.      *)
StatusOnly ==
  [][\A d \in Daemons : At(d, "store") /\ proc'[d] = Idle /\ row # Nil =>
       row'.addresses = row.addresses /\ row'.fingerprint = row.fingerprint]_vars
==============================================================================
