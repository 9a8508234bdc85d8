------------------------------- MODULE Session -------------------------------
(***************************************************************************)
(* The trust establishment session of one microcloudd daemon.              *)
(*                                                                         *)
(* A daemon has one service.Handler with a pointer to "the" Session and a  *)
(* sessionLock (sync.RWMutex).  Four kinds of goroutines use it at once:   *)
(*   - Conns:  GET /session/{role} websocket handlers (api/session.go);    *)
(*             each of them creates at most one Session, so a connection   *)
(*             also names the Session object it created;                   *)
(*   - Joins:  POST /session/join requests (api/session_join.go), which    *)
(*             pass authHandlerHMAC first (api/services_auth.go);          *)
(*   - Stops:  PUT /session/stop requests (api/session_stop.go);           *)
(*   - Hooks:  PUT /services requests that end in microcluster's PostJoin  *)
(*             hook (cmd/microcloudd/main.go).                             *)
(* A Session holds two unbuffered Go channels, joinIntents and exit.  An   *)
(* unbuffered send completes together with a receive, panics on a closed   *)
(* channel, and Stop both receives from and closes those channels.         *)
(***************************************************************************)
EXTENDS Integers, FiniteSets

CONSTANTS
  Conns, Joins, Stops, Hooks,  \* the requests a behaviour may contain
  Prints,                      \* certificate fingerprints
  PrintOf,                     \* the fingerprint each join request carries
  Nil,
  AllowedFailedJoinAttempts,   \* service/session.go:19 (50 in the code)
  CloseFails   \* may closing the multicast responder's socket fail?

Threads == Conns \cup Joins \cup Stops \cup Hooks

ASSUME SessionAssumption ==
  /\ AllowedFailedJoinAttempts \in Nat
  /\ PrintOf \in [Joins -> Prints]
  /\ CloseFails \in BOOLEAN
  /\ Nil \notin Threads
  /\ Conns \cap Joins = {} /\ Conns \cap Stops = {} /\ Conns \cap Hooks = {}
  /\ Joins \cap Stops = {} /\ Joins \cap Hooks = {} /\ Stops \cap Hooks = {}

VARIABLES
  pc,       \* where each goroutine is
  ptr,      \* the *Session a request captured inside its transaction
  rd,       \* goroutines holding sessionLock.RLock
  wr,       \* the goroutine holding sessionLock.Lock, or Nil
  want,     \* goroutines blocked in sessionLock.Lock: they bar new readers
  cur,      \* Handler.Session
  on,       \* the Session whose channel a handler waits on
  role, pass, disc, trust, prints, failed, intents, exit,  \* Session fields
  mu,       \* the goroutine inside Stop holding Session.lock, or Nil
  gw,       \* the websocket gateway's context of each connection
  todo,     \* certificates an initiating handler has still to Allow
  hmac,     \* the session whose passphrase a join request was signed with
  joined,   \* has this daemon joined a MicroCloud cluster?
  fwd,      \* history: join requests forwarded to each client
  told,     \* history: the final answer each client got
  guesses,  \* history: wrong HMACs evaluated against each session
  agreed,   \* history: certificates each client confirmed, or a joiner's got
  replaced, \* history: sessions that were replaced before their handler ended
  late      \* history: requests between their transactions when one started

lockVars == <<rd, wr, want>>
sessVars == <<role, pass, disc, trust, prints, failed, intents, exit>>
histVars == <<fwd, told, guesses, agreed, replaced, late>>
vars == <<pc, ptr, lockVars, cur, on, sessVars, mu, gw, todo, hmac, joined,
          histVars>>

PCs == {"idle", "opened", "startWait", "started", "waiting", "allowing",
        "confirming", "exitWait", "final", "stopping", "stopWait", "ending",
        "ended", "authWait", "authStop", "delay", "inTx", "sending",
        "accepted", "swallowed", "rejected", "panicked", "joining"}

ThreadsOK ==
  /\ pc \in [Threads -> PCs]
  /\ ptr \in [Threads -> Conns \cup {Nil}]
  /\ rd \subseteq Threads /\ want \subseteq Threads
  /\ wr \in Threads \cup {Nil}
  /\ cur \in Conns \cup {Nil}
  /\ on \in [Conns -> Conns \cup {Nil}]
  /\ mu \in [Conns -> Threads \cup {Nil}]

SessionsOK ==
  /\ role \in [Conns -> {"none", "initiating", "joining"}]
  /\ pass \in [Conns -> BOOLEAN] /\ disc \in [Conns -> BOOLEAN]
  /\ trust \in [Conns -> SUBSET Prints] /\ prints \in [Conns -> SUBSET Prints]
  /\ failed \in [Conns -> 0..AllowedFailedJoinAttempts]
  /\ intents \in [Conns -> {"open", "closed"}]
  /\ exit \in [Conns -> {"open", "closed"}]

RequestsOK ==
  /\ gw \in [Conns -> {"none", "open", "done"}]
  /\ todo \in [Conns -> SUBSET Prints]
  /\ hmac \in [Joins -> Conns \cup {Nil}]
  /\ joined \in BOOLEAN
  /\ fwd \in [Conns -> SUBSET Joins]
  /\ told \in [Conns -> {"none", "accepted", "joined"}]
  /\ guesses \in [Conns -> Nat]
  /\ agreed \in [Conns -> SUBSET Prints]
  /\ replaced \subseteq Conns
  /\ late \subseteq Joins

(***************************************************************************)
(* The type invariant: sync.RWMutex state, Session fields and the program  *)
(* counters of the goroutines stay in range; in particular the counter of  *)
(* failed attempts never passes its limit.                                 *)
(***************************************************************************)
TypeOK == ThreadsOK /\ SessionsOK /\ RequestsOK

Init ==
  /\ pc = [t \in Threads |-> "idle"]
  /\ ptr = [t \in Threads |-> Nil]
  /\ rd = {} /\ wr = Nil /\ want = {}
  /\ cur = Nil /\ on = [c \in Conns |-> Nil]
  /\ role = [c \in Conns |-> "none"]
  /\ pass = [c \in Conns |-> FALSE] /\ disc = [c \in Conns |-> FALSE]
  /\ trust = [c \in Conns |-> {}] /\ prints = [c \in Conns |-> {}]
  /\ failed = [c \in Conns |-> 0]
  /\ intents = [c \in Conns |-> "open"] /\ exit = [c \in Conns |-> "open"]
  /\ mu = [c \in Conns |-> Nil]
  /\ gw = [c \in Conns |-> "none"]
  /\ todo = [c \in Conns |-> {}]
  /\ hmac = [j \in Joins |-> Nil]
  /\ joined = FALSE
  /\ fwd = [c \in Conns |-> {}] /\ told = [c \in Conns |-> "none"]
  /\ guesses = [c \in Conns |-> 0]
  /\ agreed = [c \in Conns |-> {}] /\ replaced = {} /\ late = {}

-----------------------------------------------------------------------------
(* Locks and channels.                                                      *)

Go(t, from, to) == pc[t] = from /\ pc' = [pc EXCEPT ![t] = to]

\* sessionLock.RLock: Go's RWMutex lets no reader pass a waiting writer.
CanRLock == wr = Nil /\ want = {}

\* sessionLock.Lock, once the goroutine has queued itself in want.
CanLock(t) == t \in want /\ wr = Nil /\ rd = {}

\* Session.lock is free: no Stop is waiting in WriteClose on this session.
Unlocked(s) == s # Nil => mu[s] = Nil

\* SessionTransaction's test before it calls f.
Active == cur # Nil /\ pass[cur]

\* Mutant: Write does not look at the gateway's context.
WriteAlways(c) == TRUE

\* WebsocketGateway.Write succeeds while the gateway's context lives.
WriteOK(c) == gw[c] = "open"

\* Mutant: off by one at the limit.
AttemptsLeftPlusOne(s) == failed[s] <= AllowedFailedJoinAttempts

\* RegisterFailedAttempt: another wrong HMAC is tolerated.
AttemptsLeft(s) == failed[s] < AllowedFailedJoinAttempts

\* Handler.TemporaryTrustStore, as authHandlerMTLS sees it.
TemporaryTrustStore == IF Active THEN trust[cur] ELSE {}

SendersOn(s, T) == {t \in T : pc[t] = "sending" /\ ptr[t] = s}

\* "select { case <-ch: default: close(ch) }" takes the value of one sender
\* that is already blocked, or closes the channel when none is blocked yet.
Drained(ch, senders) ==
  {{}} \cup (IF ch = "open" THEN {{t} : t \in senders} ELSE {})

\* Session.Stop past WriteClose: everything is reset and both channels are
\* drained of a sender (J, K) or closed; t releases its locks, goes to `to'.
Reset(s, t, to, J, K) ==
  /\ pc' = [x \in Threads |-> IF x = t THEN to
                              ELSE IF x \in J THEN "swallowed"
                              ELSE IF x \in K THEN "ended" ELSE pc[x]]
  /\ pass' = [pass EXCEPT ![s] = FALSE]
  /\ trust' = [trust EXCEPT ![s] = {}]
  /\ prints' = [prints EXCEPT ![s] = {}]
  /\ failed' = [failed EXCEPT ![s] = 0]
  /\ intents' = [intents EXCEPT ![s] = IF J = {} THEN "closed" ELSE @]
  /\ exit' = [exit EXCEPT ![s] = IF K = {} THEN "closed" ELSE @]
  /\ rd' = rd \ (J \cup {t})
  /\ UNCHANGED <<role, disc>>

\* The same, or StopResponder fails first and leaves everything as it was.
Stopped(s, t, to) ==
  \/ \E J \in Drained(intents[s], SendersOn(s, Joins)),
        K \in Drained(exit[s], SendersOn(s, Hooks)) : Reset(s, t, to, J, K)
  \/ /\ CloseFails /\ disc[s]
     /\ pc' = [pc EXCEPT ![t] = to]
     /\ rd' = rd \ {t}
     /\ UNCHANGED sessVars

-----------------------------------------------------------------------------
(* GET /session/{role}: sessionGet, handleInitiatingSession and             *)
(* handleJoiningSession.                                                    *)

Running(c) == pc[c] \notin {"idle", "ended"}

\* A handler past StartSession and before the end of its deferred StopSession.
InSession(c) == pc[c] \in {"started", "waiting", "allowing", "confirming",
                           "exitWait", "final", "stopping", "stopWait"}

\* sessionGet: the ActiveSession check, then the websocket is upgraded.
SessionGet(c, r) ==
  /\ CanRLock /\ Unlocked(cur)
  /\ IF Active
     THEN Go(c, "idle", "ended") /\ UNCHANGED <<role, gw>>
     ELSE /\ Go(c, "idle", "opened")
          /\ role' = [role EXCEPT ![c] = r]
          /\ gw' = [gw EXCEPT ![c] = "open"]
  /\ UNCHANGED <<ptr, lockVars, cur, on, pass, disc, trust, prints, failed,
                 intents, exit, mu, todo, hmac, joined, histVars>>

\* The session timeout fires, or the client hangs up.
GatewayDone(c) ==
  /\ gw[c] = "open"
  /\ gw' = [gw EXCEPT ![c] = "done"]
  /\ UNCHANGED <<pc, ptr, lockVars, cur, on, sessVars, mu, todo, hmac, joined,
                 histVars>>

\* The client's start message arrives; StartSession queues for the lock.
ReceiveStart(c) ==
  /\ gw[c] = "open"
  /\ Go(c, "opened", "startWait")
  /\ want' = want \cup {c}
  /\ UNCHANGED <<ptr, rd, wr, cur, on, sessVars, mu, gw, todo, hmac, joined,
                 histVars>>

\* Mutant: an existing Session object is kept.
StartSessionKeepsOld(c) ==
  /\ CanLock(c)
  /\ Go(c, "startWait", "started")
  /\ cur' = IF cur = Nil THEN c ELSE cur
  /\ pass' = [pass EXCEPT ![cur'] = TRUE]
  /\ want' = want \ {c}
  /\ UNCHANGED <<ptr, rd, wr, on, role, disc, trust, prints, failed, intents,
                 exit, mu, gw, todo, hmac, joined, histVars>>

\* StartSession: whatever Handler.Session was, it is replaced.
StartSession(c) ==
  /\ CanLock(c)
  /\ Go(c, "startWait", "started")
  /\ cur' = c
  /\ pass' = [pass EXCEPT ![c] = TRUE]
  /\ want' = want \ {c}
  /\ replaced' = replaced \cup {d \in Conns : d = cur /\ InSession(d)}
  /\ late' = late \cup {j \in Joins : pc[j] = "delay"}
  /\ UNCHANGED <<ptr, rd, wr, on, role, disc, trust, prints, failed, intents,
                 exit, mu, gw, todo, hmac, joined, fwd, told, guesses, agreed>>

\* Everything between StartSession and the wait for intents: multicast
\* responder and passphrase (under Session.lock) on the initiator, lookup, the
\* join intent to the initiator and its answer on the joiner.  The reply needs
\* a live gateway.  The wait that follows is on sh.Session's channel of then.
Prepare(c) ==
  /\ pc[c] = "started"
  /\ disc' = [disc EXCEPT ![cur] = @ \/ role[c] = "initiating"]
  /\ \/ /\ WriteOK(c) /\ (role[c] = "initiating" => Unlocked(cur))
        /\ Go(c, "started", "waiting")
        /\ on' = [on EXCEPT ![c] = cur]
     \/ Go(c, "started", "stopping") /\ UNCHANGED on
  /\ UNCHANGED <<ptr, lockVars, cur, role, pass, trust, prints, failed,
                 intents, exit, mu, gw, todo, hmac, joined, histVars>>

\* A receive on the channel of joinIntents meets the send of request j: the
\* intent is forwarded to the client, unless the gateway is already done.  The
\* initiator then looks at sh.Session again.
RecvIntent(c, j) ==
  /\ pc[c] = "waiting"
  /\ j \in SendersOn(on[c], Joins) /\ intents[on[c]] = "open"
  /\ LET next == IF ~WriteOK(c) THEN "stopping"
                 ELSE IF role[c] = "initiating" THEN "waiting" ELSE "allowing"
         shown == IF WriteOK(c) /\ role[c] = "joining"
                  THEN {PrintOf[j]} ELSE {}
     IN /\ pc' = [pc EXCEPT ![c] = next, ![j] = "accepted"]
        /\ todo' = [todo EXCEPT ![c] = @ \cup shown]
        /\ agreed' = [agreed EXCEPT ![c] = @ \cup shown]
  /\ rd' = rd \ {j}
  /\ on' = [on EXCEPT ![c] = cur]
  /\ fwd' = [fwd EXCEPT ![c] = IF WriteOK(c) THEN @ \cup {j} ELSE @]
  /\ UNCHANGED <<ptr, wr, want, cur, sessVars, mu, gw, hmac, joined, told,
                 guesses, replaced, late>>

\* The initiator ignores a closed channel and looks at sh.Session again.
IntentsClosed(c) ==
  /\ pc[c] = "waiting" /\ role[c] = "initiating" /\ intents[on[c]] = "closed"
  /\ on' = [on EXCEPT ![c] = cur]
  /\ UNCHANGED <<pc, ptr, lockVars, cur, sessVars, mu, gw, todo, hmac, joined,
                 histVars>>

\* confirmedIntents returns what the client has sent, shown before or not.
RecvConfirmed(c) ==
  /\ gw[c] = "open" /\ role[c] = "initiating"
  /\ Go(c, "waiting", "allowing")
  /\ \E C \in SUBSET Prints :
       /\ todo' = [todo EXCEPT ![c] = C]
       /\ agreed' = [agreed EXCEPT ![c] = @ \cup C]
  /\ UNCHANGED <<ptr, lockVars, cur, on, sessVars, mu, gw, hmac, joined, fwd,
                 told, guesses, replaced, late>>

\* A message of the client cannot be parsed.
BadMessage(c) ==
  /\ gw[c] = "open"
  /\ \/ Go(c, "opened", "ending")
     \/ role[c] = "initiating" /\ Go(c, "waiting", "stopping")
  /\ UNCHANGED <<ptr, lockVars, cur, on, sessVars, mu, gw, todo, hmac, joined,
                 histVars>>

\* Mutant: the wait for intents goes on when the gateway's context is done.
HandlerFailsNoContext(c) ==
  /\ gw[c] = "done"
  /\ Go(c, "opened", "ending") \/ (pc[c] = "waiting" /\ UNCHANGED pc)
  /\ UNCHANGED <<ptr, lockVars, cur, on, sessVars, mu, gw, todo, hmac, joined,
                 histVars>>

\* Error returns: the gateway is done before the client's message came, or
\* the joiner finds the intent channel closed.
HandlerFails(c) ==
  /\ \/ /\ gw[c] = "done"
        /\ \/ Go(c, "opened", "ending")
           \/ Go(c, "waiting", "stopping")
     \/ /\ Go(c, "waiting", "stopping")
        /\ role[c] = "joining" /\ intents[on[c]] = "closed"
  /\ UNCHANGED <<ptr, lockVars, cur, on, sessVars, mu, gw, todo, hmac, joined,
                 histVars>>

\* Session.Allow, one certificate at a time, on sh.Session.
Allow(c, f) ==
  /\ pc[c] = "allowing" /\ f \in todo[c]
  /\ Unlocked(cur)
  /\ trust' = [trust EXCEPT ![cur] = @ \cup {f}]
  /\ todo' = [todo EXCEPT ![c] = @ \ {f}]
  /\ UNCHANGED <<pc, ptr, lockVars, cur, on, role, pass, disc, prints, failed,
                 intents, exit, mu, gw, hmac, joined, histVars>>

\* A certificate cannot be parsed, or all of them are in the trust store; the
\* joiner then waits on sh.Session's exit channel.
AllowEnds(c) ==
  /\ \/ todo[c] # {} /\ Go(c, "allowing", "stopping")
     \/ /\ todo[c] = {}
        /\ \/ role[c] = "initiating" /\ Go(c, "allowing", "confirming")
           \/ role[c] = "joining" /\ Go(c, "allowing", "exitWait")
  /\ on' = [on EXCEPT ![c] = cur]
  /\ UNCHANGED <<ptr, lockVars, cur, sessVars, mu, gw, todo, hmac, joined,
                 histVars>>

\* The initiator's g.Wait: all joiners confirmed and the client is told so,
\* or one request or the final write failed.
Confirm(c) ==
  /\ Go(c, "confirming", "stopping")
  /\ \/ WriteOK(c) /\ told' = [told EXCEPT ![c] = "accepted"]
     \/ UNCHANGED told
  /\ UNCHANGED <<ptr, lockVars, cur, on, sessVars, mu, gw, todo, hmac, joined,
                 fwd, guesses, agreed, replaced, late>>

\* The joiner waits for its exit channel (a value or the close) or the end of
\* the gateway's context, whose error can then no longer be written.
RecvExit(c) ==
  /\ pc[c] = "exitWait"
  /\ \/ \E k \in SendersOn(on[c], Hooks) :
          /\ exit[on[c]] = "open"
          /\ pc' = [pc EXCEPT ![c] = "final", ![k] = "ended"]
     \/ exit[on[c]] = "closed" /\ Go(c, "exitWait", "final")
     \/ gw[c] = "done" /\ Go(c, "exitWait", "stopping")
  /\ UNCHANGED <<ptr, lockVars, cur, on, sessVars, mu, gw, todo, hmac, joined,
                 histVars>>

\* The final message with an empty Error tells the client it has joined.
WriteFinal(c) ==
  /\ Go(c, "final", "stopping")
  /\ told' = [told EXCEPT ![c] = IF WriteOK(c) THEN "joined" ELSE @]
  /\ UNCHANGED <<ptr, lockVars, cur, on, sessVars, mu, gw, todo, hmac, joined,
                 fwd, guesses, agreed, replaced, late>>

\* The deferred sh.StopSession(nil) of both handlers queues for the lock ...
WantStop(c) ==
  /\ Go(c, "stopping", "stopWait")
  /\ want' = want \cup {c}
  /\ UNCHANGED <<ptr, rd, wr, cur, on, sessVars, mu, gw, todo, hmac, joined,
                 histVars>>

\* ... and stops whatever session the Handler has by then.
StopSession(c) ==
  /\ pc[c] = "stopWait" /\ CanLock(c) /\ Unlocked(cur)
  /\ Stopped(cur, c, "ending")
  /\ want' = want \ {c}
  /\ UNCHANGED <<ptr, wr, cur, on, mu, gw, todo, hmac, joined, histVars>>

\* sessionGet's end: an error is written and waits for the client to hang up;
\* the deferred conn.Close and cancel end the gateway's context.
HandlerReturns(c) ==
  /\ told[c] # "none" \/ gw[c] = "done"
  /\ Go(c, "ending", "ended")
  /\ gw' = [gw EXCEPT ![c] = "done"]
  /\ UNCHANGED <<ptr, lockVars, cur, on, sessVars, mu, todo, hmac, joined,
                 histVars>>

-----------------------------------------------------------------------------
(* POST /session/join: authHandlerHMAC around sessionJoinPost.              *)

\* The request arrives, signed with the passphrase of a session it knows of
\* or with a wrong one (Nil), and queues for the write lock.
JoinArrives(j) ==
  /\ Go(j, "idle", "authWait")
  /\ \E h \in {c \in Conns : role[c] # "none"} \cup {Nil} :
       hmac' = [hmac EXCEPT ![j] = h]
  /\ want' = want \cup {j}
  /\ UNCHANGED <<ptr, rd, wr, cur, on, sessVars, mu, gw, todo, joined,
                 histVars>>

\* Mutant: a wrong HMAC is counted, but the request is let through.
AuthenticateLenient(j) ==
  /\ CanLock(j) /\ Unlocked(cur)
  /\ Go(j, "authWait", IF Active THEN "delay" ELSE "rejected")
  /\ failed' = IF Active /\ hmac[j] # cur /\ AttemptsLeft(cur)
               THEN [failed EXCEPT ![cur] = @ + 1] ELSE failed
  /\ want' = want \ {j}
  /\ UNCHANGED <<ptr, rd, wr, cur, on, role, pass, disc, trust, prints,
                 intents, exit, mu, gw, todo, hmac, joined, histVars>>

\* authHandlerHMAC's transaction up to its return, or up to the wait for the
\* client to hang up when the last allowed attempt was spent.
Authenticate(j) ==
  /\ pc[j] = "authWait" /\ CanLock(j) /\ Unlocked(cur)
  /\ want' = want \ {j}
  /\ guesses' = IF Active /\ hmac[j] # cur
                THEN [guesses EXCEPT ![cur] = @ + 1] ELSE guesses
  /\ \/ /\ ~Active
        /\ Go(j, "authWait", "rejected")
        /\ UNCHANGED <<wr, mu, ptr, failed>>
     \/ /\ Active /\ hmac[j] = cur
        /\ Go(j, "authWait", "delay")
        /\ UNCHANGED <<wr, mu, ptr, failed>>
     \/ /\ Active /\ hmac[j] # cur
        /\ AttemptsLeft(cur)
        /\ failed' = [failed EXCEPT ![cur] = @ + 1]
        /\ Go(j, "authWait", "rejected")
        /\ UNCHANGED <<wr, mu, ptr>>
     \/ /\ Active /\ hmac[j] # cur
        /\ ~AttemptsLeft(cur)
        /\ IF WriteOK(cur)
           THEN /\ Go(j, "authWait", "authStop")
                /\ wr' = j
                /\ mu' = [mu EXCEPT ![cur] = j]
                /\ ptr' = [ptr EXCEPT ![j] = cur]
           ELSE Go(j, "authWait", "rejected") /\ UNCHANGED <<wr, mu, ptr>>
        /\ UNCHANGED failed
  /\ UNCHANGED <<rd, cur, on, role, pass, disc, trust, prints, intents, exit,
                 gw, todo, hmac, joined, fwd, told, agreed, replaced, late>>

\* WriteClose returned: the session is stopped after too many attempts.
AuthStop(j) ==
  /\ pc[j] = "authStop" /\ gw[ptr[j]] = "done"
  /\ Stopped(ptr[j], j, "rejected")
  /\ wr' = Nil
  /\ mu' = [mu EXCEPT ![ptr[j]] = Nil]
  /\ UNCHANGED <<ptr, want, cur, on, gw, todo, hmac, joined, histVars>>

\* sessionJoinPost, after its 100ms delay, enters the read transaction.
JoinBegin(j) ==
  /\ CanRLock /\ Unlocked(cur)
  /\ IF Active
     THEN /\ Go(j, "delay", "inTx")
          /\ rd' = rd \cup {j}
          /\ ptr' = [ptr EXCEPT ![j] = cur]
     ELSE Go(j, "delay", "rejected") /\ UNCHANGED <<rd, ptr>>
  /\ UNCHANGED <<wr, want, cur, on, sessVars, mu, gw, todo, hmac, joined,
                 histVars>>

\* validateIntent on an initiator, or the certificate's fingerprint, fails.
RejectIntent(j) ==
  /\ Go(j, "inTx", "rejected")
  /\ rd' = rd \ {j}
  /\ UNCHANGED <<ptr, wr, want, cur, on, sessVars, mu, gw, todo, hmac, joined,
                 histVars>>

\* Mutant: the fingerprint is not looked up.
RegisterIntentUnchecked(j) ==
  /\ pc[j] = "inTx" /\ Unlocked(ptr[j])
  /\ Go(j, "inTx", "sending")
  /\ prints' = [prints EXCEPT ![ptr[j]] = @ \cup {PrintOf[j]}]
  /\ UNCHANGED <<ptr, lockVars, cur, on, role, pass, disc, trust, failed,
                 intents, exit, mu, gw, todo, hmac, joined, histVars>>

\* Session.RegisterIntent.
RegisterIntent(j) ==
  /\ pc[j] = "inTx" /\ Unlocked(ptr[j])
  /\ IF PrintOf[j] \in prints[ptr[j]]
     THEN Go(j, "inTx", "rejected") /\ rd' = rd \ {j} /\ UNCHANGED prints
     ELSE /\ Go(j, "inTx", "sending")
          /\ prints' = [prints EXCEPT ![ptr[j]] = @ \cup {PrintOf[j]}]
          /\ UNCHANGED rd
  /\ UNCHANGED <<ptr, wr, want, cur, on, role, pass, disc, trust, failed,
                 intents, exit, mu, gw, todo, hmac, joined, histVars>>

\* Mutant: after its timeout the send is tried again.
SendEndsRetries(j) ==
  /\ pc[j] = "sending"
  /\ \/ intents[ptr[j]] = "open" /\ UNCHANGED <<pc, rd>>
     \/ intents[ptr[j]] = "closed" /\ Go(j, "sending", "panicked") /\ rd' = rd \ {j}
  /\ UNCHANGED <<ptr, wr, want, cur, on, sessVars, mu, gw, todo, hmac, joined,
                 histVars>>

\* No consumer took the intent within 10 seconds, or the caller gave up; on a
\* closed channel the send panics, which net/http turns into a lost answer.
\* Deferred unlocks run in both cases.
SendEnds(j) ==
  /\ pc[j] = "sending"
  /\ \/ intents[ptr[j]] = "open" /\ Go(j, "sending", "rejected")
     \/ intents[ptr[j]] = "closed" /\ Go(j, "sending", "panicked")
  /\ rd' = rd \ {j}
  /\ UNCHANGED <<ptr, wr, want, cur, on, sessVars, mu, gw, todo, hmac, joined,
                 histVars>>

-----------------------------------------------------------------------------
(* PUT /session/stop and the PostJoin hook.                                 *)

\* sessionStopPut: a read transaction, inside of it Stop(cause) up to the
\* wait of WriteClose.  A done gateway makes WriteClose, and so Stop, fail.
StopPut(p) ==
  /\ CanRLock /\ Unlocked(cur)
  /\ IF Active /\ WriteOK(cur)
     THEN /\ Go(p, "idle", "stopping")
          /\ rd' = rd \cup {p}
          /\ mu' = [mu EXCEPT ![cur] = p]
          /\ ptr' = [ptr EXCEPT ![p] = cur]
     ELSE Go(p, "idle", "ended") /\ UNCHANGED <<rd, mu, ptr>>
  /\ UNCHANGED <<wr, want, cur, on, sessVars, gw, todo, hmac, joined,
                 histVars>>

\* The client hung up: the rest of Stop.
StopPutEnds(p) ==
  /\ pc[p] = "stopping" /\ gw[ptr[p]] = "done"
  /\ Stopped(ptr[p], p, "ended")
  /\ mu' = [mu EXCEPT ![ptr[p]] = Nil]
  /\ UNCHANGED <<ptr, wr, want, cur, on, gw, todo, hmac, joined, histVars>>

\* PUT /services from a system in the temporary trust store: authHandlerMTLS
\* lets it pass and servicesPut starts to join the cluster.
JoinServices(k) ==
  /\ CanRLock /\ Unlocked(cur)
  /\ TemporaryTrustStore # {}
  /\ Go(k, "idle", "joining")
  /\ UNCHANGED <<ptr, lockVars, cur, on, sessVars, mu, gw, todo, hmac, joined,
                 histVars>>

\* PostJoin reads s.Session, without a lock, and sends on its exit channel.
PostJoin(k) ==
  /\ Go(k, "joining", "sending")
  /\ joined' = TRUE
  /\ ptr' = [ptr EXCEPT ![k] = cur]
  /\ UNCHANGED <<lockVars, cur, on, sessVars, mu, gw, todo, hmac, histVars>>

\* The join failed before the hook ran; or the hook's context ends before a
\* receiver comes, or the exit channel is closed already.
PostJoinEnds(k) ==
  /\ \/ Go(k, "joining", "ended")
     \/ Go(k, "sending", "ended") /\ exit[ptr[k]] = "open"
     \/ Go(k, "sending", "panicked") /\ exit[ptr[k]] = "closed"
  /\ UNCHANGED <<ptr, lockVars, cur, on, sessVars, mu, gw, todo, hmac, joined,
                 histVars>>

-----------------------------------------------------------------------------
\* Every request of the instance has been answered: the daemon is idle.
Idle ==
  /\ \A t \in Threads : pc[t] \in {"idle", "ended", "accepted", "swallowed",
                                 "rejected", "panicked"}
  /\ UNCHANGED vars

\* What the client sends.
ClientStep(c) == ReceiveStart(c) \/ RecvConfirmed(c) \/ BadMessage(c)

ConnStep(c) ==
  \/ StartSession(c) \/ Prepare(c)
  \/ \E j \in Joins : RecvIntent(c, j)
  \/ IntentsClosed(c) \/ HandlerFails(c)
  \/ \E f \in Prints : Allow(c, f)
  \/ AllowEnds(c) \/ Confirm(c) \/ RecvExit(c) \/ WriteFinal(c)
  \/ WantStop(c) \/ StopSession(c) \/ HandlerReturns(c)

JoinStep(j) ==
  \/ Authenticate(j) \/ AuthStop(j) \/ JoinBegin(j) \/ RejectIntent(j)
  \/ RegisterIntent(j) \/ SendEnds(j)

Next ==
  \/ \E c \in Conns, r \in {"initiating", "joining"} : SessionGet(c, r)
  \/ \E c \in Conns : GatewayDone(c) \/ ClientStep(c) \/ ConnStep(c)
  \/ \E j \in Joins : JoinArrives(j) \/ JoinStep(j)
  \/ \E p \in Stops : StopPut(p) \/ StopPutEnds(p)
  \/ \E k \in Hooks : JoinServices(k) \/ PostJoin(k) \/ PostJoinEnds(k)
  \/ Idle

Spec == Init /\ [][Next]_vars

(***************************************************************************)
(* Fairness: goroutines that can run do run, a session's timeout (at most  *)
(* one hour) fires if the client does not hang up first, and a join of the *)
(* services ends within its five minutes.  Neither new requests nor what   *)
(* clients send need arrive.                                               *)
(***************************************************************************)
Fairness ==
  /\ \A c \in Conns : WF_vars(ConnStep(c)) /\ WF_vars(GatewayDone(c))
  /\ \A j \in Joins : WF_vars(JoinStep(j))
  /\ \A p \in Stops : WF_vars(StopPutEnds(p))
  /\ \A k \in Hooks : WF_vars(PostJoin(k) \/ PostJoinEnds(k))

FairSpec == Spec /\ Fairness

-----------------------------------------------------------------------------
(* Properties.                                                              *)

\* A client is shown each certificate at most once, however often and however
\* concurrently the same system sends its intent (RegisterIntent), also when a
\* Stop empties the list of fingerprints in between.  Only a handler whose own
\* session was replaced, and which goes on with the other's channel, may show
\* one again.
ForwardedOnce ==
  \A c \in Conns \ replaced :
    \A i, j \in fwd[c] : i # j => PrintOf[i] # PrintOf[j]

\* The temporary trust store of a session (Allow) has what its own client has
\* confirmed or, on a joiner, was shown, and nothing of the sessions before and
\* after it: but for the certificates of clients whose session was replaced
\* while its handler ran, which go to the session that replaced it.
TrustedWasAgreed ==
  \A c \in Conns :
    trust[c] \subseteq agreed[c] \cup UNION {agreed[d] : d \in replaced}

\* A joining client is told that its system joined only if the PostJoin hook
\* ran: the close of the exit channel by Stop never reads as success, unless
\* handlers stop each other's sessions.
SuccessMeansJoined ==
  \A c \in Conns : told[c] = "joined" => joined \/ replaced # {}

\* No more than AllowedFailedJoinAttempts + 1 wrong passphrases are tried on a
\* session while its websocket is open.
GuessBound ==
  \A c \in Conns : gw[c] = "open" => guesses[c] <= AllowedFailedJoinAttempts + 1

\* A new session never replaces one that is still active: what sessionGet
\* promises by answering "There already is an active session".
ActiveSessionKept ==
  [][cur' # cur => (cur = Nil \/ ~pass[cur])]_vars

\* Requests inside SessionTransaction work on a session that is alive: no join
\* request sends on a channel that Stop closed (a panic), and none is answered
\* as accepted because Stop, not the session's client, took its intent.
TransactionSeesLiveSession ==
  \A j \in Joins : pc[j] \notin {"panicked", "swallowed"}

\* The PostJoin hook signals the end of the join on the session's exit channel
\* and returns, whenever the session ended in the meantime.
PostJoinReturns ==
  \A k \in Hooks : pc[k] # "panicked"

\* An intent that a client is shown was signed with the passphrase of its own
\* session.  The check and the delivery are different transactions: requests
\* that were between the two when a session started are the exception.
ShownIsSigned ==
  \A c \in Conns \ replaced : \A j \in fwd[c] : hmac[j] = c \/ j \in late

\* Once the client is gone its session is stopped: the passphrase and the
\* temporary trust store do not outlive the websocket.
SessionEnds ==
  \A c \in Conns : gw[c] = "done" ~> ~pass[c]

\* Every accepted websocket and every join or stop request gets an answer: no
\* cycle of sessionLock, Session.lock, channels and hang-ups blocks for ever.
RequestsAnswered ==
  /\ \A c \in Conns : Running(c) ~> ~Running(c)
  /\ \A j \in Joins : (pc[j] # "idle") ~>
       (pc[j] \in {"accepted", "swallowed", "rejected", "panicked"})
  /\ \A p \in Stops : (pc[p] # "idle") ~> (pc[p] = "ended")
=============================================================================
