---------------------------- MODULE SessionProofs ----------------------------
(***************************************************************************)
(* Proofs about Session, for any sets of requests and any limit of failed  *)
(* attempts.                                                               *)
(***************************************************************************)
EXTENDS Session, TLAPS

\* Goroutines that dereference a *Session have one.
PtrOK ==
  /\ \A c \in Conns : InSession(c) => cur \in Conns
  /\ \A c \in Conns : pc[c] \in {"waiting", "exitWait"} => on[c] \in Conns
  /\ \A j \in Joins : pc[j] \in {"authStop", "inTx", "sending"} => ptr[j] \in Conns
  /\ \A p \in Stops : pc[p] = "stopping" => ptr[p] \in Conns
  /\ \A k \in Hooks : /\ pc[k] = "joining" => cur \in Conns
                      /\ pc[k] = "sending" => ptr[k] \in Conns

TypeInv == TypeOK /\ PtrOK

\* A goroutine serves one kind of request.
LEMMA Distinct ==
  /\ \A c \in Conns : c \notin Joins /\ c \notin Stops /\ c \notin Hooks
  /\ \A j \in Joins : j \notin Stops /\ j \notin Hooks
  /\ \A p \in Stops : p \notin Hooks
  BY SessionAssumption

\* What Session.Stop does, whichever goroutine t calls it: it resets session s
\* or leaves it as it was, touches no other session, and moves no goroutine
\* but t and senders on the channels of s.
LEMMA StoppedEffect ==
  ASSUME TypeOK, NEW s \in Conns, NEW t \in Threads, NEW to \in PCs,
         Stopped(s, t, to)
  PROVE  /\ pc' \in [Threads -> PCs] /\ pc'[t] = to
         /\ rd' \subseteq Threads
         /\ SessionsOK'
         /\ UNCHANGED <<role, disc>>
         /\ \A c \in Conns : c # s => /\ pass'[c] = pass[c] /\ trust'[c] = trust[c]
                                     /\ prints'[c] = prints[c]
                                     /\ failed'[c] = failed[c]
                                     /\ exit'[c] = exit[c]
         /\ \A c \in Conns : trust'[c] \subseteq trust[c] /\ (pass'[c] => pass[c])
         /\ pass'[s] => failed'[s] = failed[s] /\ exit'[s] = exit[s]
         /\ failed'[s] \in {0, failed[s]}
         /\ \A x \in Conns : x # t => pc'[x] = pc[x]
         /\ \A x \in Stops : x # t => pc'[x] = pc[x]
         /\ \A x \in Joins : x # t => \/ pc'[x] = pc[x]
                                      \/ pc[x] = "sending" /\ pc'[x] = "swallowed"
         /\ \A x \in Hooks : x # t => \/ pc'[x] = pc[x]
                                      \/ pc[x] = "sending" /\ pc'[x] = "ended"
<1> USE DEF PCs, Threads
<1>1. ASSUME NEW J \in Drained(intents[s], SendersOn(s, Joins)),
             NEW K \in Drained(exit[s], SendersOn(s, Hooks)),
             Reset(s, t, to, J, K)
      PROVE  /\ pc' \in [Threads -> PCs] /\ pc'[t] = to
             /\ rd' \subseteq Threads
             /\ SessionsOK'
             /\ UNCHANGED <<role, disc>>
             /\ \A c \in Conns : c # s => /\ pass'[c] = pass[c]
                                         /\ trust'[c] = trust[c]
                                         /\ prints'[c] = prints[c]
                                         /\ failed'[c] = failed[c]
                                         /\ exit'[c] = exit[c]
             /\ \A c \in Conns : trust'[c] \subseteq trust[c] /\ (pass'[c] => pass[c])
             /\ ~pass'[s] /\ failed'[s] = 0
             /\ \A x \in Conns : x # t => pc'[x] = pc[x]
             /\ \A x \in Stops : x # t => pc'[x] = pc[x]
             /\ \A x \in Joins : x # t => \/ pc'[x] = pc[x]
                                          \/ pc[x] = "sending" /\ pc'[x] = "swallowed"
             /\ \A x \in Hooks : x # t => \/ pc'[x] = pc[x]
                                          \/ pc[x] = "sending" /\ pc'[x] = "ended"
  <2>1. /\ \A x \in J : x \in Joins /\ pc[x] = "sending"
        /\ \A x \in K : x \in Hooks /\ pc[x] = "sending"
    BY DEF Drained, SendersOn
  <2>2. /\ pc' \in [Threads -> PCs] /\ pc'[t] = to
        /\ rd' \subseteq Threads
        /\ \A x \in Threads : x = t \/ pc'[x] = pc[x]
             \/ (x \in Joins /\ pc[x] = "sending" /\ pc'[x] = "swallowed")
             \/ (x \in Hooks /\ pc[x] = "sending" /\ pc'[x] = "ended")
    BY <1>1, <2>1 DEF TypeOK, ThreadsOK, Reset
  <2>3. SessionsOK'
    <3>1. /\ role' \in [Conns -> {"none", "initiating", "joining"}]
          /\ pass' \in [Conns -> BOOLEAN] /\ disc' \in [Conns -> BOOLEAN]
      BY <1>1 DEF TypeOK, SessionsOK, Reset
    <3>2. /\ trust' \in [Conns -> SUBSET Prints]
          /\ prints' \in [Conns -> SUBSET Prints]
      BY <1>1 DEF TypeOK, SessionsOK, Reset
    <3>3. failed' \in [Conns -> 0..AllowedFailedJoinAttempts]
      BY <1>1, SessionAssumption DEF TypeOK, SessionsOK, Reset
    <3>4. /\ intents' \in [Conns -> {"open", "closed"}]
          /\ exit' \in [Conns -> {"open", "closed"}]
      BY <1>1 DEF TypeOK, SessionsOK, Reset
    <3>5. QED  BY <3>1, <3>2, <3>3, <3>4 DEF SessionsOK
  <2>4. \A c \in Conns : c # s => /\ pass'[c] = pass[c] /\ trust'[c] = trust[c]
                                  /\ prints'[c] = prints[c]
                                  /\ failed'[c] = failed[c]
                                  /\ exit'[c] = exit[c]
    BY <1>1 DEF TypeOK, SessionsOK, Reset
  <2>5. ~pass'[s] /\ trust'[s] = {} /\ failed'[s] = 0
    BY <1>1 DEF TypeOK, SessionsOK, Reset
  <2>6. UNCHANGED <<role, disc>>
    BY <1>1 DEF Reset
  <2>7. \A c \in Conns : trust'[c] \subseteq trust[c] /\ (pass'[c] => pass[c])
    BY <2>4, <2>5
  <2>8. /\ \A x \in Conns : x # t => pc'[x] = pc[x]
        /\ \A x \in Stops : x # t => pc'[x] = pc[x]
        /\ \A x \in Joins : x # t => \/ pc'[x] = pc[x]
                                     \/ pc[x] = "sending" /\ pc'[x] = "swallowed"
        /\ \A x \in Hooks : x # t => \/ pc'[x] = pc[x]
                                     \/ pc[x] = "sending" /\ pc'[x] = "ended"
    BY <2>2, Distinct
  <2>9. QED
    BY <2>2, <2>3, <2>4, <2>5, <2>6, <2>7, <2>8
<1>2. CASE /\ CloseFails /\ disc[s]
           /\ pc' = [pc EXCEPT ![t] = to]
           /\ rd' = rd \ {t}
           /\ UNCHANGED sessVars
  <2>1. /\ pc' \in [Threads -> PCs] /\ rd' \subseteq Threads
        /\ \A x \in Threads : pc'[x] = IF x = t THEN to ELSE pc[x]
    BY <1>2 DEF TypeOK, ThreadsOK
  <2>2. SessionsOK' /\ UNCHANGED <<role, disc>> /\ UNCHANGED <<failed, exit, trust, pass, prints>>
    BY <1>2 DEF TypeOK, SessionsOK, sessVars
  <2>3. QED
    BY <2>1, <2>2
<1>3. QED
  BY <1>1, <1>2 DEF Stopped

\* What Stop does to the intent channel: it is not opened again, a request
\* leaves the read transaction only if its intent was taken, and when no send
\* is pending a reset closes the channel.
LEMMA StopDrains ==
  ASSUME TypeOK, NEW s \in Conns, NEW t \in Threads, NEW to \in PCs,
         Stopped(s, t, to)
  PROVE  /\ \A c \in Conns : intents'[c] = "open" => intents[c] = "open"
         /\ \A x \in Joins : x # t /\ x \in rd => x \in rd' \/ pc'[x] = "swallowed"
         /\ SendersOn(s, Joins) = {} =>
              prints'[s] = prints[s] \/ intents'[s] = "closed"
<1> USE DEF TypeOK, ThreadsOK, SessionsOK, Threads
<1>1. ASSUME NEW J \in Drained(intents[s], SendersOn(s, Joins)),
             NEW K \in Drained(exit[s], SendersOn(s, Hooks)),
             Reset(s, t, to, J, K)
      PROVE  /\ \A c \in Conns : intents'[c] = "open" => intents[c] = "open"
             /\ \A x \in Joins : x # t /\ x \in rd => x \in rd' \/ pc'[x] = "swallowed"
             /\ SendersOn(s, Joins) = {} => intents'[s] = "closed"
  <2>1. \A c \in Conns : intents'[c] = "open" => intents[c] = "open"
    BY <1>1 DEF Reset
  <2>2. \A x \in Joins : x # t /\ x \in rd => x \in rd' \/ pc'[x] = "swallowed"
    BY <1>1 DEF Reset
  <2>3. ASSUME SendersOn(s, Joins) = {} PROVE intents'[s] = "closed"
    <3>1. J = {}
      BY <2>3 DEF Drained
    <3>2. QED
      BY <1>1, <3>1 DEF Reset
  <2>4. QED
    BY <2>1, <2>2, <2>3
<1>2. CASE /\ CloseFails /\ disc[s]
           /\ pc' = [pc EXCEPT ![t] = to]
           /\ rd' = rd \ {t}
           /\ UNCHANGED sessVars
  BY <1>2 DEF sessVars
<1>3. QED
  BY <1>1, <1>2 DEF Stopped

\* Each step of a goroutine keeps the types: in particular the counter of
\* failed attempts stays within its limit, because Authenticate counts only
\* while attempts are left.
LEMMA TypeStep == TypeInv /\ [Next]_vars => TypeOK'
<1> SUFFICES ASSUME TypeInv, [Next]_vars PROVE TypeOK'
  OBVIOUS
<1> USE SessionAssumption DEF TypeInv, Threads, Go, lockVars, sessVars, histVars
<1> DEFINE T == ThreadsOK'
           S == SessionsOK'
           R == RequestsOK'
<1>0. SUFFICES T /\ S /\ R
  BY DEF TypeOK
<1>1. ASSUME NEW c \in Conns, NEW r \in {"initiating", "joining"},
             SessionGet(c, r)
      PROVE  T /\ S /\ R
  <2>1. T  BY <1>1 DEF SessionGet, TypeOK, ThreadsOK, PCs
  <2>2. S  BY <1>1 DEF SessionGet, TypeOK, SessionsOK
  <2>3. R  BY <1>1 DEF SessionGet, TypeOK, RequestsOK
  <2>4. QED  BY <2>1, <2>2, <2>3
<1>2. ASSUME NEW c \in Conns, GatewayDone(c) PROVE T /\ S /\ R
  BY <1>2 DEF GatewayDone, TypeOK, ThreadsOK, SessionsOK, RequestsOK
<1>3. ASSUME NEW c \in Conns, ClientStep(c) \/ ConnStep(c)
      PROVE  T /\ S /\ R
  <2>1. CASE ReceiveStart(c)
    <3>1. T  BY <2>1 DEF ReceiveStart, TypeOK, ThreadsOK, PCs
    <3>2. S  BY <2>1 DEF ReceiveStart, TypeOK, SessionsOK
    <3>3. R  BY <2>1 DEF ReceiveStart, TypeOK, RequestsOK
    <3>4. QED  BY <3>1, <3>2, <3>3
  <2>2. CASE StartSession(c)
    <3>1. T  BY <2>2 DEF StartSession, TypeOK, ThreadsOK, PCs
    <3>2. S  BY <2>2 DEF StartSession, TypeOK, SessionsOK
    <3>3. R  BY <2>2 DEF StartSession, TypeOK, RequestsOK
    <3>4. QED  BY <3>1, <3>2, <3>3
  <2>3. CASE Prepare(c)
    <3>1. T  BY <2>3 DEF Prepare, TypeOK, ThreadsOK, PCs
    <3>2. S  BY <2>3 DEF Prepare, TypeOK, SessionsOK
    <3>3. R  BY <2>3 DEF Prepare, TypeOK, RequestsOK
    <3>4. QED  BY <3>1, <3>2, <3>3
  <2>4. ASSUME NEW j \in Joins, RecvIntent(c, j) PROVE T /\ S /\ R
    <3>1. T  BY <2>4 DEF RecvIntent, WriteOK, TypeOK, ThreadsOK, PCs
    <3>2. S  BY <2>4 DEF RecvIntent, WriteOK, TypeOK, SessionsOK
    <3>3. R  BY <2>4 DEF RecvIntent, WriteOK, TypeOK, RequestsOK
    <3>4. QED  BY <3>1, <3>2, <3>3
  <2>5. CASE RecvConfirmed(c)
    <3>1. T  BY <2>5 DEF RecvConfirmed, TypeOK, ThreadsOK, PCs
    <3>2. S  BY <2>5 DEF RecvConfirmed, TypeOK, SessionsOK
    <3>3. R  BY <2>5 DEF RecvConfirmed, TypeOK, RequestsOK
    <3>4. QED  BY <3>1, <3>2, <3>3
  <2>6. CASE HandlerFails(c)
    <3>1. T  BY <2>6 DEF HandlerFails, TypeOK, ThreadsOK, PCs
    <3>2. S  BY <2>6 DEF HandlerFails, TypeOK, SessionsOK
    <3>3. R  BY <2>6 DEF HandlerFails, TypeOK, RequestsOK
    <3>4. QED  BY <3>1, <3>2, <3>3
  <2>7. ASSUME NEW f \in Prints, Allow(c, f) PROVE T /\ S /\ R
    <3>1. T  BY <2>7 DEF Allow, TypeOK, ThreadsOK
    <3>2. cur \in Conns /\ trust[cur] \cup {f} \in SUBSET Prints
      BY <2>7 DEF Allow, PtrOK, InSession, TypeOK, SessionsOK
    <3>3. S  BY <2>7, <3>2 DEF Allow, TypeOK, SessionsOK
    <3>4. R  BY <2>7 DEF Allow, TypeOK, RequestsOK
    <3>5. QED  BY <3>1, <3>3, <3>4
  <2>8. CASE AllowEnds(c)
    <3>1. T  BY <2>8 DEF AllowEnds, TypeOK, ThreadsOK, PCs
    <3>2. S  BY <2>8 DEF AllowEnds, TypeOK, SessionsOK
    <3>3. R  BY <2>8 DEF AllowEnds, TypeOK, RequestsOK
    <3>4. QED  BY <3>1, <3>2, <3>3
  <2>9. CASE Confirm(c)
    <3>1. T  BY <2>9 DEF Confirm, TypeOK, ThreadsOK, PCs
    <3>2. S  BY <2>9 DEF Confirm, TypeOK, SessionsOK
    <3>3. R  BY <2>9 DEF Confirm, TypeOK, RequestsOK
    <3>4. QED  BY <3>1, <3>2, <3>3
  <2>10. CASE RecvExit(c)
    <3>1. T  BY <2>10 DEF RecvExit, SendersOn, TypeOK, ThreadsOK, PCs
    <3>2. S  BY <2>10 DEF RecvExit, SendersOn, TypeOK, SessionsOK
    <3>3. R  BY <2>10 DEF RecvExit, SendersOn, TypeOK, RequestsOK
    <3>4. QED  BY <3>1, <3>2, <3>3
  <2>11. CASE WriteFinal(c)
    <3>1. T  BY <2>11 DEF WriteFinal, TypeOK, ThreadsOK, PCs
    <3>2. S  BY <2>11 DEF WriteFinal, TypeOK, SessionsOK
    <3>3. R  BY <2>11 DEF WriteFinal, TypeOK, RequestsOK
    <3>4. QED  BY <3>1, <3>2, <3>3
  <2>12. CASE WantStop(c)
    <3>1. T  BY <2>12 DEF WantStop, TypeOK, ThreadsOK, PCs
    <3>2. S  BY <2>12 DEF WantStop, TypeOK, SessionsOK
    <3>3. R  BY <2>12 DEF WantStop, TypeOK, RequestsOK
    <3>4. QED  BY <3>1, <3>2, <3>3
  <2>13. CASE StopSession(c)
    <3>1. cur \in Conns /\ c \in Threads /\ "ending" \in PCs /\ Stopped(cur, c, "ending")
      BY <2>13 DEF StopSession, PtrOK, InSession, PCs
    <3>2. /\ pc' \in [Threads -> PCs] /\ rd' \subseteq Threads /\ S
      BY <3>1, StoppedEffect
    <3>3. T  BY <2>13, <3>2 DEF StopSession, TypeOK, ThreadsOK
    <3>4. R  BY <2>13 DEF StopSession, TypeOK, RequestsOK
    <3>5. QED  BY <3>2, <3>3, <3>4
  <2>14. CASE HandlerReturns(c)
    <3>1. T  BY <2>14 DEF HandlerReturns, TypeOK, ThreadsOK, PCs
    <3>2. S  BY <2>14 DEF HandlerReturns, TypeOK, SessionsOK
    <3>3. R  BY <2>14 DEF HandlerReturns, TypeOK, RequestsOK
    <3>4. QED  BY <3>1, <3>2, <3>3
  <2>15. CASE BadMessage(c)
    <3>1. T  BY <2>15 DEF BadMessage, TypeOK, ThreadsOK, PCs
    <3>2. S  BY <2>15 DEF BadMessage, TypeOK, SessionsOK
    <3>3. R  BY <2>15 DEF BadMessage, TypeOK, RequestsOK
    <3>4. QED  BY <3>1, <3>2, <3>3
  <2>16. CASE IntentsClosed(c)
    <3>1. T  BY <2>16 DEF IntentsClosed, TypeOK, ThreadsOK, PCs
    <3>2. S  BY <2>16 DEF IntentsClosed, TypeOK, SessionsOK
    <3>3. R  BY <2>16 DEF IntentsClosed, TypeOK, RequestsOK
    <3>4. QED  BY <3>1, <3>2, <3>3
  <2>17. QED
    BY <1>3, <2>1, <2>2, <2>3, <2>4, <2>5, <2>6, <2>7, <2>8, <2>9, <2>10,
       <2>11, <2>12, <2>13, <2>14, <2>15, <2>16 DEF ClientStep, ConnStep
<1>4. ASSUME NEW j \in Joins, JoinArrives(j) PROVE T /\ S /\ R
  <2>1. T  BY <1>4 DEF JoinArrives, TypeOK, ThreadsOK, PCs
  <2>2. S  BY <1>4 DEF JoinArrives, TypeOK, SessionsOK
  <2>3. R  BY <1>4 DEF JoinArrives, TypeOK, RequestsOK
  <2>4. QED  BY <2>1, <2>2, <2>3
<1>5. ASSUME NEW j \in Joins, JoinStep(j) PROVE T /\ S /\ R
  <2>1. CASE Authenticate(j)
    <3>1. T  BY <2>1 DEF Authenticate, Active, TypeOK, ThreadsOK, PCs
    <3>2. failed' \in [Conns -> 0..AllowedFailedJoinAttempts]
      BY <2>1
         DEF Authenticate, Active, AttemptsLeft, TypeOK, ThreadsOK, SessionsOK
    <3>3. S  BY <2>1, <3>2 DEF Authenticate, TypeOK, SessionsOK
    <3>4. guesses' \in [Conns -> Nat]
      BY <2>1 DEF Authenticate, Active, TypeOK, ThreadsOK, RequestsOK
    <3>5. R  BY <2>1, <3>4 DEF Authenticate, TypeOK, RequestsOK
    <3>6. QED  BY <3>1, <3>3, <3>5
  <2>2. CASE AuthStop(j)
    <3>1. ptr[j] \in Conns /\ j \in Threads /\ "rejected" \in PCs /\ Stopped(ptr[j], j, "rejected")
      BY <2>2 DEF AuthStop, PtrOK, InSession, PCs
    <3>2. /\ pc' \in [Threads -> PCs] /\ rd' \subseteq Threads /\ S
      BY <3>1, StoppedEffect
    <3>3. T  BY <2>2, <3>2 DEF AuthStop, TypeOK, ThreadsOK
    <3>4. R  BY <2>2 DEF AuthStop, TypeOK, RequestsOK
    <3>5. QED  BY <3>2, <3>3, <3>4
  <2>3. CASE JoinBegin(j)
    <3>1. T  BY <2>3 DEF JoinBegin, TypeOK, ThreadsOK, PCs
    <3>2. S  BY <2>3 DEF JoinBegin, TypeOK, SessionsOK
    <3>3. R  BY <2>3 DEF JoinBegin, TypeOK, RequestsOK
    <3>4. QED  BY <3>1, <3>2, <3>3
  <2>4. CASE RejectIntent(j)
    <3>1. T  BY <2>4 DEF RejectIntent, TypeOK, ThreadsOK, PCs
    <3>2. S  BY <2>4 DEF RejectIntent, TypeOK, SessionsOK
    <3>3. R  BY <2>4 DEF RejectIntent, TypeOK, RequestsOK
    <3>4. QED  BY <3>1, <3>2, <3>3
  <2>5. CASE RegisterIntent(j)
    <3>1. T  BY <2>5 DEF RegisterIntent, PtrOK, TypeOK, ThreadsOK, PCs
    <3>2. S  BY <2>5 DEF RegisterIntent, PtrOK, TypeOK, SessionsOK
    <3>3. R  BY <2>5 DEF RegisterIntent, PtrOK, TypeOK, RequestsOK
    <3>4. QED  BY <3>1, <3>2, <3>3
  <2>6. CASE SendEnds(j)
    <3>1. T  BY <2>6 DEF SendEnds, TypeOK, ThreadsOK, PCs
    <3>2. S  BY <2>6 DEF SendEnds, TypeOK, SessionsOK
    <3>3. R  BY <2>6 DEF SendEnds, TypeOK, RequestsOK
    <3>4. QED  BY <3>1, <3>2, <3>3
  <2>7. QED  BY <1>5, <2>1, <2>2, <2>3, <2>4, <2>5, <2>6 DEF JoinStep
<1>6. ASSUME NEW p \in Stops, StopPut(p) PROVE T /\ S /\ R
  <2>1. T  BY <1>6 DEF StopPut, TypeOK, ThreadsOK, PCs
  <2>2. S  BY <1>6 DEF StopPut, TypeOK, SessionsOK
  <2>3. R  BY <1>6 DEF StopPut, TypeOK, RequestsOK
  <2>4. QED  BY <2>1, <2>2, <2>3
<1>7. ASSUME NEW p \in Stops, StopPutEnds(p) PROVE T /\ S /\ R
  <2>1. ptr[p] \in Conns /\ p \in Threads /\ "ended" \in PCs /\ Stopped(ptr[p], p, "ended")
    BY <1>7 DEF StopPutEnds, PtrOK, InSession, PCs
  <2>2. /\ pc' \in [Threads -> PCs] /\ rd' \subseteq Threads /\ S
    BY <2>1, StoppedEffect
  <2>3. T  BY <1>7, <2>2 DEF StopPutEnds, TypeOK, ThreadsOK
  <2>4. R  BY <1>7 DEF StopPutEnds, TypeOK, RequestsOK
  <2>5. QED  BY <2>2, <2>3, <2>4
<1>8. ASSUME NEW k \in Hooks, JoinServices(k) PROVE T /\ S /\ R
  <2>1. T  BY <1>8 DEF JoinServices, TypeOK, ThreadsOK, PCs
  <2>2. S  BY <1>8 DEF JoinServices, TypeOK, SessionsOK
  <2>3. R  BY <1>8 DEF JoinServices, TypeOK, RequestsOK
  <2>4. QED  BY <2>1, <2>2, <2>3
<1>9. ASSUME NEW k \in Hooks, PostJoin(k) PROVE T /\ S /\ R
  <2>1. T  BY <1>9 DEF PostJoin, TypeOK, ThreadsOK, PCs
  <2>2. S  BY <1>9 DEF PostJoin, TypeOK, SessionsOK
  <2>3. R  BY <1>9 DEF PostJoin, TypeOK, RequestsOK
  <2>4. QED  BY <2>1, <2>2, <2>3
<1>10. ASSUME NEW k \in Hooks, PostJoinEnds(k) PROVE T /\ S /\ R
  <2>1. T  BY <1>10 DEF PostJoinEnds, TypeOK, ThreadsOK, PCs
  <2>2. S  BY <1>10 DEF PostJoinEnds, TypeOK, SessionsOK
  <2>3. R  BY <1>10 DEF PostJoinEnds, TypeOK, RequestsOK
  <2>4. QED  BY <2>1, <2>2, <2>3
<1>11. CASE UNCHANGED vars
  BY <1>11 DEF TypeOK, ThreadsOK, SessionsOK, RequestsOK, vars
<1>12. QED
  BY <1>1, <1>2, <1>3, <1>4, <1>5, <1>6, <1>7, <1>8, <1>9, <1>10, <1>11
     DEF Next, Idle
\* No step loses a *Session that a goroutine still works on: Handler.Session is
\* replaced but never cleared, and a request captures it inside a transaction.
LEMMA PtrStep == TypeInv /\ [Next]_vars => PtrOK'
<1> SUFFICES ASSUME TypeInv, [Next]_vars PROVE PtrOK'
  OBVIOUS
<1> USE Distinct, SessionAssumption DEF Threads, Go, lockVars, sessVars, histVars
<1>1. ASSUME NEW c \in Conns, NEW r \in {"initiating", "joining"},
             SessionGet(c, r)
      PROVE  PtrOK'
  BY <1>1 DEF SessionGet, Active, PtrOK, InSession, TypeInv, TypeOK, ThreadsOK
<1>2. ASSUME NEW c \in Conns, GatewayDone(c) PROVE PtrOK'
  BY <1>2 DEF GatewayDone, PtrOK, InSession, TypeInv, TypeOK, ThreadsOK
<1>3. ASSUME NEW c \in Conns, ClientStep(c) \/ ConnStep(c)
      PROVE  PtrOK'
  <2>1. CASE ReceiveStart(c)
    BY <2>1 DEF ReceiveStart, PtrOK, InSession, TypeInv, TypeOK, ThreadsOK
  <2>2. CASE StartSession(c)
    BY <2>2 DEF StartSession, PtrOK, InSession, TypeInv, TypeOK, ThreadsOK
  <2>3. CASE Prepare(c)
    BY <2>3 DEF Prepare, WriteOK, PtrOK, InSession, TypeInv, TypeOK, ThreadsOK
  <2>4. ASSUME NEW j \in Joins, RecvIntent(c, j) PROVE PtrOK'
    BY <2>4
       DEF RecvIntent, WriteOK, SendersOn, PtrOK, InSession, TypeInv, TypeOK,
           ThreadsOK
  <2>5. CASE RecvConfirmed(c)
    BY <2>5 DEF RecvConfirmed, PtrOK, InSession, TypeInv, TypeOK, ThreadsOK
  <2>6. CASE HandlerFails(c)
    BY <2>6 DEF HandlerFails, PtrOK, InSession, TypeInv, TypeOK, ThreadsOK
  <2>7. ASSUME NEW f \in Prints, Allow(c, f) PROVE PtrOK'
    BY <2>7 DEF Allow, PtrOK, InSession, TypeInv, TypeOK, ThreadsOK
  <2>8. CASE AllowEnds(c)
    BY <2>8 DEF AllowEnds, PtrOK, InSession, TypeInv, TypeOK, ThreadsOK
  <2>9. CASE Confirm(c)
    BY <2>9 DEF Confirm, WriteOK, PtrOK, InSession, TypeInv, TypeOK, ThreadsOK
  <2>10. CASE RecvExit(c)
    BY <2>10
       DEF RecvExit, SendersOn, PtrOK, InSession, TypeInv, TypeOK, ThreadsOK
  <2>11. CASE WriteFinal(c)
    BY <2>11
       DEF WriteFinal, WriteOK, PtrOK, InSession, TypeInv, TypeOK, ThreadsOK
  <2>12. CASE WantStop(c)
    BY <2>12 DEF WantStop, PtrOK, InSession, TypeInv, TypeOK, ThreadsOK
  <2>13. CASE StopSession(c)
    <3>1. cur \in Conns /\ c \in Threads /\ "ending" \in PCs /\ Stopped(cur, c, "ending")
      BY <2>13 DEF StopSession, TypeInv, PtrOK, InSession, PCs
    <3>2. /\ pc'[c] = "ending"
          /\ \A x \in Conns : x # c => pc'[x] = pc[x]
          /\ \A x \in Stops : x # c => pc'[x] = pc[x]
          /\ \A x \in Joins : x # c => \/ pc'[x] = pc[x]
                                       \/ pc[x] = "sending" /\ pc'[x] = "swallowed"
          /\ \A x \in Hooks : x # c => \/ pc'[x] = pc[x]
                                       \/ pc[x] = "sending" /\ pc'[x] = "ended"
      BY <3>1, StoppedEffect DEF TypeInv, SessionsOK
    <3>3. QED
      BY <2>13, <3>1, <3>2
         DEF StopSession, PtrOK, InSession, TypeInv, TypeOK, ThreadsOK
  <2>14. CASE HandlerReturns(c)
    BY <2>14 DEF HandlerReturns, PtrOK, InSession, TypeInv, TypeOK, ThreadsOK
  <2>15. CASE BadMessage(c)
    BY <2>15 DEF BadMessage, PtrOK, InSession, TypeInv, TypeOK, ThreadsOK
  <2>16. CASE IntentsClosed(c)
    BY <2>16 DEF IntentsClosed, PtrOK, InSession, TypeInv, TypeOK, ThreadsOK
  <2>17. QED
    BY <1>3, <2>1, <2>2, <2>3, <2>4, <2>5, <2>6, <2>7, <2>8, <2>9, <2>10,
       <2>11, <2>12, <2>13, <2>14, <2>15, <2>16 DEF ClientStep, ConnStep
<1>4. ASSUME NEW j \in Joins, JoinArrives(j) PROVE PtrOK'
  BY <1>4 DEF JoinArrives, PtrOK, InSession, TypeInv, TypeOK, ThreadsOK
<1>5. ASSUME NEW j \in Joins, JoinStep(j) PROVE PtrOK'
  <2>1. CASE Authenticate(j)
    BY <2>1
       DEF Authenticate, Active, AttemptsLeft, CanLock, Unlocked, WriteOK,
           PtrOK, InSession, TypeInv, TypeOK, ThreadsOK
  <2>2. CASE AuthStop(j)
    <3>1. ptr[j] \in Conns /\ j \in Threads /\ "rejected" \in PCs /\ Stopped(ptr[j], j, "rejected")
      BY <2>2 DEF AuthStop, TypeInv, PtrOK, InSession, PCs
    <3>2. /\ pc'[j] = "rejected"
          /\ \A x \in Conns : x # j => pc'[x] = pc[x]
          /\ \A x \in Stops : x # j => pc'[x] = pc[x]
          /\ \A x \in Joins : x # j => \/ pc'[x] = pc[x]
                                       \/ pc[x] = "sending" /\ pc'[x] = "swallowed"
          /\ \A x \in Hooks : x # j => \/ pc'[x] = pc[x]
                                       \/ pc[x] = "sending" /\ pc'[x] = "ended"
      BY <3>1, StoppedEffect DEF TypeInv, SessionsOK
    <3>3. QED
      BY <2>2, <3>1, <3>2
         DEF AuthStop, PtrOK, InSession, TypeInv, TypeOK, ThreadsOK
  <2>3. CASE JoinBegin(j)
    BY <2>3 DEF JoinBegin, Active, PtrOK, InSession, TypeInv, TypeOK, ThreadsOK
  <2>4. CASE RejectIntent(j)
    BY <2>4 DEF RejectIntent, PtrOK, InSession, TypeInv, TypeOK, ThreadsOK
  <2>5. CASE RegisterIntent(j)
    BY <2>5 DEF RegisterIntent, PtrOK, InSession, TypeInv, TypeOK, ThreadsOK
  <2>6. CASE SendEnds(j)
    BY <2>6 DEF SendEnds, PtrOK, InSession, TypeInv, TypeOK, ThreadsOK
  <2>7. QED  BY <1>5, <2>1, <2>2, <2>3, <2>4, <2>5, <2>6 DEF JoinStep
<1>6. ASSUME NEW p \in Stops, StopPut(p) PROVE PtrOK'
  BY <1>6
     DEF StopPut, Active, Unlocked, WriteOK, PtrOK, InSession, TypeInv, TypeOK,
         ThreadsOK
<1>7. ASSUME NEW p \in Stops, StopPutEnds(p) PROVE PtrOK'
  <2>1. ptr[p] \in Conns /\ p \in Threads /\ "ended" \in PCs /\ Stopped(ptr[p], p, "ended")
    BY <1>7 DEF StopPutEnds, TypeInv, PtrOK, InSession, PCs
  <2>2. /\ pc'[p] = "ended"
        /\ \A x \in Conns : x # p => pc'[x] = pc[x]
        /\ \A x \in Stops : x # p => pc'[x] = pc[x]
        /\ \A x \in Joins : x # p => \/ pc'[x] = pc[x]
                                     \/ pc[x] = "sending" /\ pc'[x] = "swallowed"
        /\ \A x \in Hooks : x # p => \/ pc'[x] = pc[x]
                                     \/ pc[x] = "sending" /\ pc'[x] = "ended"
    BY <2>1, StoppedEffect DEF TypeInv, SessionsOK
  <2>3. QED
    BY <1>7, <2>1, <2>2
       DEF StopPutEnds, PtrOK, InSession, TypeInv, TypeOK, ThreadsOK
<1>8. ASSUME NEW k \in Hooks, JoinServices(k) PROVE PtrOK'
  BY <1>8
     DEF JoinServices, Active, TemporaryTrustStore, PtrOK, InSession, TypeInv,
         TypeOK, ThreadsOK
<1>9. ASSUME NEW k \in Hooks, PostJoin(k) PROVE PtrOK'
  BY <1>9 DEF PostJoin, PtrOK, InSession, TypeInv, TypeOK, ThreadsOK
<1>10. ASSUME NEW k \in Hooks, PostJoinEnds(k) PROVE PtrOK'
  BY <1>10 DEF PostJoinEnds, PtrOK, InSession, TypeInv, TypeOK, ThreadsOK
<1>11. CASE UNCHANGED vars
  BY <1>11 DEF PtrOK, InSession, TypeInv, TypeOK, ThreadsOK, vars
<1>12. QED
  BY <1>1, <1>2, <1>3, <1>4, <1>5, <1>6, <1>7, <1>8, <1>9, <1>10, <1>11
     DEF Next, Idle

\* Spec keeps its types and never dereferences a nil *Session.
THEOREM TypeCorrect == Spec => []TypeInv
<1>1. Init => TypeInv
  <2> SUFFICES ASSUME Init PROVE TypeInv
    OBVIOUS
  <2>1. ThreadsOK  BY DEF Init, ThreadsOK, PCs
  <2>2. SessionsOK  BY SessionAssumption DEF Init, SessionsOK
  <2>3. RequestsOK  BY DEF Init, RequestsOK
  <2>4. PtrOK  BY DEF Init, PtrOK, InSession, Threads
  <2>5. QED  BY <2>1, <2>2, <2>3, <2>4 DEF TypeInv, TypeOK
<1>2. TypeInv /\ [Next]_vars => TypeInv'
  BY TypeStep, PtrStep DEF TypeInv
<1>3. QED
  BY <1>1, <1>2, PTL DEF Spec
\* The type invariant that the runs check.
THEOREM TypeOKHolds == Spec => []TypeOK
  BY TypeCorrect, PTL DEF TypeInv

-----------------------------------------------------------------------------
(***************************************************************************)
(* Whose session a handler works on.  sessionGet does not keep clients     *)
(* apart, so that a handler may find another's session in Handler.Session; *)
(* the history variable replaced names the handlers that this happened to. *)
(***************************************************************************)
Waits == {"waiting", "exitWait"}

Own == \A c \in Conns : InSession(c) => cur = c \/ c \in replaced
OwnChannel == \A c \in Conns : pc[c] \in Waits => on[c] = c \/ c \in replaced
TodoAgreed == \A c \in Conns : todo[c] \subseteq agreed[c]

OwnInv == Own /\ OwnChannel /\ TodoAgreed /\ TrustedWasAgreed

\* Most steps start no wait and no session, and trust nothing.
OwnFrame ==
  /\ \A c \in Conns : /\ InSession(c)' => InSession(c)
                      /\ pc'[c] \in Waits => pc[c] \in Waits /\ on'[c] = on[c]
                      /\ trust'[c] \subseteq trust[c]
  /\ UNCHANGED <<cur, todo, agreed, replaced>>

LEMMA OwnFramed == OwnInv /\ OwnFrame => OwnInv'
  BY DEF OwnInv, Own, OwnChannel, TodoAgreed, TrustedWasAgreed, OwnFrame

\* Nor does Session.Stop.
LEMMA OwnStop ==
  ASSUME TypeInv, OwnInv, NEW s \in Conns, NEW t \in Threads,
         NEW to \in {"ending", "rejected", "ended"}, Stopped(s, t, to),
         UNCHANGED <<cur, on, todo, agreed, replaced>>
  PROVE  OwnInv'
<1>1. to \in PCs
  BY DEF PCs
<1>2. /\ pc'[t] = to
      /\ \A x \in Conns : x # t => pc'[x] = pc[x]
      /\ \A c \in Conns : trust'[c] \subseteq trust[c]
  BY <1>1, StoppedEffect DEF TypeInv
<1>3. OwnFrame
  BY <1>2 DEF OwnFrame, InSession, Waits
<1>4. QED
  BY <1>3, OwnFramed

LEMMA OwnStep == TypeInv /\ OwnInv /\ [Next]_vars => OwnInv'
<1> SUFFICES ASSUME TypeInv, OwnInv, [Next]_vars PROVE OwnInv'
  OBVIOUS
<1> USE Distinct, SessionAssumption
       DEF Threads, Go, lockVars, sessVars, histVars, TypeInv, TypeOK,
           ThreadsOK, SessionsOK, RequestsOK, PtrOK
<1>1. ASSUME NEW c \in Conns, NEW r \in {"initiating", "joining"},
             SessionGet(c, r)
      PROVE  OwnInv'
  <2>1. OwnFrame  BY <1>1 DEF OwnFrame, InSession, Waits, SessionGet
  <2>2. QED  BY <2>1, OwnFramed
<1>2. ASSUME NEW c \in Conns, GatewayDone(c) PROVE OwnInv'
  <2>1. OwnFrame  BY <1>2 DEF OwnFrame, InSession, Waits, GatewayDone
  <2>2. QED  BY <2>1, OwnFramed
<1>3. ASSUME NEW c \in Conns, ClientStep(c) \/ ConnStep(c)
      PROVE  OwnInv'
  <2>1. CASE ReceiveStart(c)
    <3>1. OwnFrame  BY <2>1 DEF OwnFrame, InSession, Waits, ReceiveStart
    <3>2. QED  BY <3>1, OwnFramed
  <2>2. CASE RecvConfirmed(c)
    <3>1. /\ \A d \in Conns : pc'[d] \in Waits => pc[d] \in Waits
          /\ \A d \in Conns : InSession(d)' => InSession(d)
          /\ UNCHANGED <<cur, on, replaced, trust>>
      BY <2>2 DEF RecvConfirmed, InSession, Waits
    <3>2. /\ \A d \in Conns : agreed[d] \subseteq agreed'[d]
          /\ \A d \in Conns \ {c} : todo'[d] = todo[d]
          /\ todo'[c] \subseteq agreed'[c]
      BY <2>2 DEF RecvConfirmed
    <3>3. Own' /\ OwnChannel'  BY <3>1 DEF OwnInv, Own, OwnChannel
    <3>4. TodoAgreed'  BY <3>2 DEF OwnInv, TodoAgreed
    <3>5. TrustedWasAgreed'  BY <3>1, <3>2 DEF OwnInv, TrustedWasAgreed
    <3>6. QED  BY <3>3, <3>4, <3>5 DEF OwnInv
  <2>3. CASE BadMessage(c)
    <3>1. OwnFrame  BY <2>3 DEF OwnFrame, InSession, Waits, BadMessage
    <3>2. QED  BY <3>1, OwnFramed
  <2>4. CASE StartSession(c)
    <3>1. /\ pc'[c] = "started" /\ cur' = c /\ replaced \subseteq replaced'
          /\ \A d \in Conns \ {c} : pc'[d] = pc[d]
          /\ \A d \in Conns : d = cur /\ InSession(d) => d \in replaced'
          /\ UNCHANGED <<on, todo, agreed, trust>>
      BY <2>4 DEF StartSession
    <3>2. Own'  BY <3>1 DEF OwnInv, Own, InSession
    <3>3. OwnChannel'  BY <3>1 DEF OwnInv, OwnChannel, Waits
    <3>4. TodoAgreed'  BY <3>1 DEF OwnInv, TodoAgreed
    <3>5. TrustedWasAgreed'  BY <3>1 DEF OwnInv, TrustedWasAgreed
    <3>6. QED  BY <3>2, <3>3, <3>4, <3>5 DEF OwnInv
  <2>5. CASE Prepare(c)
    <3>1. /\ InSession(c) /\ \A d \in Conns \ {c} : pc'[d] = pc[d] /\ on'[d] = on[d]
          /\ pc'[c] \in Waits => on'[c] = cur
          /\ UNCHANGED <<cur, todo, agreed, replaced, trust>>
      BY <2>5 DEF Prepare, InSession, Waits
    <3>2. Own' /\ OwnChannel'  BY <3>1 DEF OwnInv, Own, OwnChannel, InSession
    <3>3. TodoAgreed' /\ TrustedWasAgreed'
      BY <3>1 DEF OwnInv, TodoAgreed, TrustedWasAgreed
    <3>4. QED  BY <3>2, <3>3 DEF OwnInv
  <2>6. ASSUME NEW j \in Joins, RecvIntent(c, j) PROVE OwnInv'
    <3>1. /\ InSession(c) /\ \A d \in Conns \ {c} : pc'[d] = pc[d] /\ on'[d] = on[d]
          /\ on'[c] = cur /\ UNCHANGED <<cur, replaced, trust>>
      BY <2>6 DEF RecvIntent, InSession
    <3>2. /\ \A d \in Conns : agreed[d] \subseteq agreed'[d]
          /\ \A d \in Conns \ {c} : todo'[d] = todo[d]
          /\ todo'[c] \subseteq todo[c] \cup (agreed'[c] \ agreed[c]) \cup agreed'[c]
      BY <2>6 DEF RecvIntent
    <3>3. Own' /\ OwnChannel'  BY <3>1 DEF OwnInv, Own, OwnChannel, InSession
    <3>4. TodoAgreed'  BY <3>2 DEF OwnInv, TodoAgreed
    <3>5. TrustedWasAgreed'  BY <3>1, <3>2 DEF OwnInv, TrustedWasAgreed
    <3>6. QED  BY <3>3, <3>4, <3>5 DEF OwnInv
  <2>7. CASE IntentsClosed(c)
    <3>1. /\ InSession(c) /\ \A d \in Conns \ {c} : on'[d] = on[d]
          /\ on'[c] = cur /\ UNCHANGED <<pc, cur, todo, agreed, replaced, trust>>
      BY <2>7 DEF IntentsClosed, InSession
    <3>2. QED
      BY <3>1 DEF OwnInv, Own, OwnChannel, TodoAgreed, TrustedWasAgreed, InSession
  <2>8. CASE HandlerFails(c)
    <3>1. OwnFrame  BY <2>8 DEF OwnFrame, InSession, Waits, HandlerFails
    <3>2. QED  BY <3>1, OwnFramed
  <2>9. ASSUME NEW f \in Prints, Allow(c, f) PROVE OwnInv'
    <3>1. /\ InSession(c) /\ f \in todo[c]
          /\ UNCHANGED <<pc, on, cur, agreed, replaced>>
          /\ \A d \in Conns : todo'[d] \subseteq todo[d]
          /\ \A d \in Conns : trust'[d] \subseteq
                                trust[d] \cup (IF d = cur THEN {f} ELSE {})
      BY <2>9 DEF Allow, InSession
    <3>2. f \in agreed[c] /\ (cur = c \/ c \in replaced)
      BY <3>1 DEF OwnInv, Own, TodoAgreed
    <3>3. TrustedWasAgreed'
      BY <3>1, <3>2 DEF OwnInv, TrustedWasAgreed
    <3>4. Own' /\ OwnChannel' /\ TodoAgreed'
      BY <3>1 DEF OwnInv, Own, OwnChannel, TodoAgreed, InSession
    <3>5. QED  BY <3>3, <3>4 DEF OwnInv
  <2>10. CASE AllowEnds(c)
    <3>1. /\ InSession(c) /\ \A d \in Conns \ {c} : pc'[d] = pc[d] /\ on'[d] = on[d]
          /\ on'[c] = cur /\ UNCHANGED <<cur, todo, agreed, replaced, trust>>
      BY <2>10 DEF AllowEnds, InSession
    <3>2. Own' /\ OwnChannel'  BY <3>1 DEF OwnInv, Own, OwnChannel, InSession
    <3>3. TodoAgreed' /\ TrustedWasAgreed'
      BY <3>1 DEF OwnInv, TodoAgreed, TrustedWasAgreed
    <3>4. QED  BY <3>2, <3>3 DEF OwnInv
  <2>11. CASE Confirm(c)
    <3>1. OwnFrame  BY <2>11 DEF OwnFrame, InSession, Waits, Confirm
    <3>2. QED  BY <3>1, OwnFramed
  <2>12. CASE RecvExit(c)
    <3>1. OwnFrame  BY <2>12
                       DEF OwnFrame, InSession, Waits, RecvExit, SendersOn
    <3>2. QED  BY <3>1, OwnFramed
  <2>13. CASE WriteFinal(c)
    <3>1. OwnFrame  BY <2>13 DEF OwnFrame, InSession, Waits, WriteFinal
    <3>2. QED  BY <3>1, OwnFramed
  <2>14. CASE WantStop(c)
    <3>1. OwnFrame  BY <2>14 DEF OwnFrame, InSession, Waits, WantStop
    <3>2. QED  BY <3>1, OwnFramed
  <2>15. CASE StopSession(c)
    <3>1. cur \in Conns  BY <2>15 DEF StopSession, InSession
    <3>2. QED  BY <2>15, <3>1, OwnStop DEF StopSession
  <2>16. CASE HandlerReturns(c)
    <3>1. OwnFrame  BY <2>16 DEF OwnFrame, InSession, Waits, HandlerReturns
    <3>2. QED  BY <3>1, OwnFramed
  <2>17. QED
    BY <1>3, <2>1, <2>2, <2>3, <2>4, <2>5, <2>6, <2>7, <2>8, <2>9, <2>10,
       <2>11, <2>12, <2>13, <2>14, <2>15, <2>16
       DEF ClientStep, ConnStep
<1>4. ASSUME NEW j \in Joins, JoinArrives(j) PROVE OwnInv'
  <2>1. OwnFrame  BY <1>4 DEF OwnFrame, InSession, Waits, JoinArrives
  <2>2. QED  BY <2>1, OwnFramed
<1>5. ASSUME NEW j \in Joins, JoinStep(j) PROVE OwnInv'
  <2>1. CASE Authenticate(j)
    <3>1. OwnFrame  BY <2>1 DEF OwnFrame, InSession, Waits, Authenticate
    <3>2. QED  BY <3>1, OwnFramed
  <2>2. CASE AuthStop(j)
    BY <2>2, OwnStop DEF AuthStop
  <2>3. CASE JoinBegin(j)
    <3>1. OwnFrame  BY <2>3 DEF OwnFrame, InSession, Waits, JoinBegin
    <3>2. QED  BY <3>1, OwnFramed
  <2>4. CASE RejectIntent(j)
    <3>1. OwnFrame  BY <2>4 DEF OwnFrame, InSession, Waits, RejectIntent
    <3>2. QED  BY <3>1, OwnFramed
  <2>5. CASE RegisterIntent(j)
    <3>1. OwnFrame  BY <2>5 DEF OwnFrame, InSession, Waits, RegisterIntent
    <3>2. QED  BY <3>1, OwnFramed
  <2>6. CASE SendEnds(j)
    <3>1. OwnFrame  BY <2>6 DEF OwnFrame, InSession, Waits, SendEnds
    <3>2. QED  BY <3>1, OwnFramed
  <2>7. QED  BY <1>5, <2>1, <2>2, <2>3, <2>4, <2>5, <2>6 DEF JoinStep
<1>6. ASSUME NEW p \in Stops, StopPut(p) PROVE OwnInv'
  <2>1. OwnFrame  BY <1>6 DEF OwnFrame, InSession, Waits, StopPut
  <2>2. QED  BY <2>1, OwnFramed
<1>7. ASSUME NEW p \in Stops, StopPutEnds(p) PROVE OwnInv'
  BY <1>7, OwnStop DEF StopPutEnds
<1>8. ASSUME NEW k \in Hooks, JoinServices(k) PROVE OwnInv'
  <2>1. OwnFrame  BY <1>8 DEF OwnFrame, InSession, Waits, JoinServices
  <2>2. QED  BY <2>1, OwnFramed
<1>9. ASSUME NEW k \in Hooks, PostJoin(k) PROVE OwnInv'
  <2>1. OwnFrame  BY <1>9 DEF OwnFrame, InSession, Waits, PostJoin
  <2>2. QED  BY <2>1, OwnFramed
<1>10. ASSUME NEW k \in Hooks, PostJoinEnds(k) PROVE OwnInv'
  <2>1. OwnFrame  BY <1>10 DEF OwnFrame, InSession, Waits, PostJoinEnds
  <2>2. QED  BY <2>1, OwnFramed
<1>11. CASE UNCHANGED vars
  <2>1. OwnFrame  BY <1>11 DEF OwnFrame, InSession, Waits, vars
  <2>2. QED  BY <2>1, OwnFramed
<1>12. QED
  BY <1>1, <1>2, <1>3, <1>4, <1>5, <1>6, <1>7, <1>8, <1>9, <1>10, <1>11
     DEF Next, Idle

LEMMA OwnInit == Init => OwnInv
  BY Distinct DEF Init, OwnInv, Own, OwnChannel, TodoAgreed, TrustedWasAgreed,
     InSession, Waits, Threads

\* A handler works on its own session and channels until it was replaced.
THEOREM Ownership == Spec => [](TypeInv /\ OwnInv)
  BY OwnStep, OwnInit, TypeCorrect, PTL DEF Spec

\* Whatever clients connect at once, the temporary trust store of a session
\* has no certificate that its own client, or the client of a session that was
\* replaced under its handler, did not agree to.
THEOREM TrustedHolds == Spec => []TrustedWasAgreed
<1>1. OwnInv => TrustedWasAgreed
  BY DEF OwnInv
<1>2. QED
  BY <1>1, Ownership, PTL

-----------------------------------------------------------------------------
(***************************************************************************)
(* The final answer.  As long as no session was replaced, an exit channel  *)
(* is closed only after the websocket is gone or the handler has stopped   *)
(* its own session.                                                        *)
(***************************************************************************)
Ended == {"ending", "ended"}

IdleGateway == \A c \in Conns : pc[c] = "idle" => gw[c] = "none"
ExitClosed ==
  \A c \in Conns : exit[c] = "closed" => gw[c] = "done" \/ pc[c] \in Ended
HookJoined == \A k \in Hooks : pc[k] = "sending" => joined
FinalJoined == \A c \in Conns : pc[c] = "final" /\ gw[c] = "open" => joined

ExitInv == /\ IdleGateway /\ HookJoined /\ SuccessMeansJoined
           /\ replaced = {} => ExitClosed /\ FinalJoined

\* Most steps close no exit channel and reach no final answer.
ExitFrame ==
  /\ \A c \in Conns :
       /\ pc'[c] \in {"idle", "final"} => pc'[c] = pc[c]
       /\ pc[c] \in Ended => pc'[c] \in Ended
       /\ exit'[c] = "closed" => exit[c] = "closed"
       /\ gw'[c] = gw[c] \/ (gw[c] = "open" /\ gw'[c] = "done")
  /\ \A k \in Hooks : pc'[k] = "sending" => pc[k] = "sending"
  /\ replaced \subseteq replaced'
  /\ UNCHANGED <<joined, told>>

LEMMA ExitFramed == TypeInv /\ ExitInv /\ ExitFrame => ExitInv'
<1> SUFFICES ASSUME TypeInv, ExitInv, ExitFrame PROVE ExitInv'
  OBVIOUS
<1>1. IdleGateway'
  BY DEF ExitInv, ExitFrame, IdleGateway, TypeInv, TypeOK, RequestsOK
<1>2. HookJoined' /\ SuccessMeansJoined'
  BY DEF ExitInv, ExitFrame, HookJoined, SuccessMeansJoined
<1>3. replaced' = {} => ExitClosed' /\ FinalJoined'
  BY DEF ExitInv, ExitFrame, ExitClosed, FinalJoined
<1>4. QED
  BY <1>1, <1>2, <1>3 DEF ExitInv

\* Stop closes the exit channel of a session whose websocket is gone or that
\* its own handler stops.
LEMMA ExitStop ==
  ASSUME TypeInv, ExitInv, NEW s \in Conns, NEW t \in Threads,
         NEW to \in {"ending", "rejected", "ended"}, Stopped(s, t, to),
         t \in Conns => to \in Ended, t \in Hooks => to # "sending",
         gw[s] = "done" \/ (replaced = {} => t = s),
         UNCHANGED <<gw, joined, told, replaced>>
  PROVE  ExitInv'
<1>1. to \in PCs
  BY DEF PCs
<1>2. /\ pc'[t] = to
      /\ \A x \in Conns : x # t => pc'[x] = pc[x]
      /\ \A x \in Hooks : x # t => \/ pc'[x] = pc[x]
                                   \/ pc[x] = "sending" /\ pc'[x] = "ended"
      /\ \A d \in Conns : d # s => exit'[d] = exit[d]
  BY <1>1, StoppedEffect DEF TypeInv
<1>3. IdleGateway' /\ HookJoined' /\ SuccessMeansJoined'
  BY <1>2 DEF ExitInv, IdleGateway, HookJoined, SuccessMeansJoined, Ended
<1>4. replaced' = {} => ExitClosed' /\ FinalJoined'
  BY <1>2 DEF ExitInv, ExitClosed, FinalJoined, Ended
<1>5. QED
  BY <1>3, <1>4 DEF ExitInv

LEMMA ExitStep == TypeInv /\ OwnInv /\ ExitInv /\ [Next]_vars => ExitInv'
<1> SUFFICES ASSUME TypeInv, OwnInv, ExitInv, [Next]_vars PROVE ExitInv'
  OBVIOUS
<1> USE Distinct, SessionAssumption
       DEF Threads, Go, lockVars, sessVars, histVars, TypeInv, TypeOK,
           ThreadsOK, SessionsOK, RequestsOK, PtrOK
<1>1. ASSUME NEW c \in Conns, NEW r \in {"initiating", "joining"},
             SessionGet(c, r)
      PROVE  ExitInv'
  <2>1. /\ pc[c] = "idle" /\ pc'[c] \in {"opened", "ended"}
        /\ \A d \in Conns \ {c} : pc'[d] = pc[d] /\ gw'[d] = gw[d]
        /\ \A k \in Hooks : pc'[k] = pc[k]
        /\ UNCHANGED <<exit, joined, told, replaced>>
    BY <1>1 DEF SessionGet
  <2>2. IdleGateway' /\ HookJoined' /\ SuccessMeansJoined'
    BY <2>1 DEF ExitInv, IdleGateway, HookJoined, SuccessMeansJoined
  <2>3. replaced' = {} => ExitClosed' /\ FinalJoined'
    BY <2>1 DEF ExitInv, IdleGateway, ExitClosed, FinalJoined, Ended
  <2>4. QED  BY <2>2, <2>3 DEF ExitInv
<1>2. ASSUME NEW c \in Conns, GatewayDone(c) PROVE ExitInv'
  <2>1. ExitFrame  BY <1>2 DEF ExitFrame, Ended, GatewayDone
  <2>2. QED  BY <2>1, ExitFramed
<1>3. ASSUME NEW c \in Conns, ClientStep(c) \/ ConnStep(c)
      PROVE  ExitInv'
  <2>1. CASE ReceiveStart(c)
    <3>1. ExitFrame  BY <2>1 DEF ExitFrame, Ended, ReceiveStart
    <3>2. QED  BY <3>1, ExitFramed
  <2>2. CASE RecvConfirmed(c)
    <3>1. ExitFrame  BY <2>2 DEF ExitFrame, Ended, RecvConfirmed
    <3>2. QED  BY <3>1, ExitFramed
  <2>3. CASE BadMessage(c)
    <3>1. ExitFrame  BY <2>3 DEF ExitFrame, Ended, BadMessage
    <3>2. QED  BY <3>1, ExitFramed
  <2>4. CASE StartSession(c)
    <3>1. ExitFrame  BY <2>4 DEF ExitFrame, Ended, StartSession
    <3>2. QED  BY <3>1, ExitFramed
  <2>5. CASE Prepare(c)
    <3>1. ExitFrame  BY <2>5 DEF ExitFrame, Ended, Prepare
    <3>2. QED  BY <3>1, ExitFramed
  <2>6. ASSUME NEW j \in Joins, RecvIntent(c, j) PROVE ExitInv'
    <3>1. ExitFrame  BY <2>6
                        DEF ExitFrame, Ended, RecvIntent, WriteOK, SendersOn
    <3>2. QED  BY <3>1, ExitFramed
  <2>7. CASE IntentsClosed(c)
    <3>1. ExitFrame  BY <2>7 DEF ExitFrame, Ended, IntentsClosed
    <3>2. QED  BY <3>1, ExitFramed
  <2>8. CASE HandlerFails(c)
    <3>1. ExitFrame  BY <2>8 DEF ExitFrame, Ended, HandlerFails
    <3>2. QED  BY <3>1, ExitFramed
  <2>9. ASSUME NEW f \in Prints, Allow(c, f) PROVE ExitInv'
    <3>1. ExitFrame  BY <2>9 DEF ExitFrame, Ended, Allow
    <3>2. QED  BY <3>1, ExitFramed
  <2>10. CASE AllowEnds(c)
    <3>1. ExitFrame  BY <2>10 DEF ExitFrame, Ended, AllowEnds
    <3>2. QED  BY <3>1, ExitFramed
  <2>11. CASE Confirm(c)
    <3>1. /\ pc[c] = "confirming" /\ pc'[c] = "stopping"
          /\ \A d \in Conns \ {c} : pc'[d] = pc[d] /\ told'[d] = told[d]
          /\ told'[c] \in {told[c], "accepted"}
          /\ \A k \in Hooks : pc'[k] = pc[k]
          /\ UNCHANGED <<exit, gw, joined, replaced>>
      BY <2>11 DEF Confirm, WriteOK
    <3>2. IdleGateway' /\ HookJoined' /\ SuccessMeansJoined'
      BY <3>1 DEF ExitInv, IdleGateway, HookJoined, SuccessMeansJoined
    <3>3. replaced' = {} => ExitClosed' /\ FinalJoined'
      BY <3>1 DEF ExitInv, ExitClosed, FinalJoined, Ended
    <3>4. QED  BY <3>2, <3>3 DEF ExitInv
  <2>12. CASE RecvExit(c)
    <3>1. /\ pc[c] = "exitWait" /\ pc'[c] \in {"final", "stopping"}
          /\ pc'[c] = "final" => \/ \E k \in Hooks : pc[k] = "sending"
                                 \/ exit[on[c]] = "closed"
          /\ \A d \in Conns \ {c} : pc'[d] = pc[d]
          /\ \A k \in Hooks : pc'[k] = "sending" => pc[k] = "sending"
          /\ UNCHANGED <<exit, gw, joined, told, replaced>>
      <4>1. CASE \E k \in SendersOn(on[c], Hooks) :
                    pc' = [pc EXCEPT ![c] = "final", ![k] = "ended"]
        BY <2>12, <4>1 DEF RecvExit, SendersOn
      <4>2. CASE exit[on[c]] = "closed" /\ Go(c, "exitWait", "final")
        BY <2>12, <4>2 DEF RecvExit
      <4>3. CASE Go(c, "exitWait", "stopping")
        BY <2>12, <4>3 DEF RecvExit
      <4>4. QED
        BY <2>12, <4>1, <4>2, <4>3 DEF RecvExit
    <3>2. IdleGateway' /\ HookJoined' /\ SuccessMeansJoined'
      BY <3>1 DEF ExitInv, IdleGateway, HookJoined, SuccessMeansJoined
    <3>3. ASSUME replaced = {} PROVE ExitClosed' /\ FinalJoined'
      <4>1. on[c] = c
        BY <3>1, <3>3 DEF OwnInv, OwnChannel, Waits
      <4>2. pc'[c] = "final" /\ gw[c] = "open" => joined
        BY <3>1, <3>3, <4>1 DEF ExitInv, HookJoined, ExitClosed, Ended
      <4>3. QED
        BY <3>1, <3>3, <4>2 DEF ExitInv, ExitClosed, FinalJoined, Ended
    <3>4. QED  BY <3>1, <3>2, <3>3 DEF ExitInv
  <2>13. CASE WriteFinal(c)
    <3>1. /\ pc[c] = "final" /\ pc'[c] = "stopping"
          /\ \A d \in Conns \ {c} : pc'[d] = pc[d] /\ told'[d] = told[d]
          /\ told'[c] = "joined" => told[c] = "joined" \/ gw[c] = "open"
          /\ \A k \in Hooks : pc'[k] = pc[k]
          /\ UNCHANGED <<exit, gw, joined, replaced>>
      BY <2>13 DEF WriteFinal, WriteOK
    <3>2. IdleGateway' /\ HookJoined'
      BY <3>1 DEF ExitInv, IdleGateway, HookJoined
    <3>3. SuccessMeansJoined'
      BY <3>1 DEF ExitInv, FinalJoined, SuccessMeansJoined
    <3>4. replaced' = {} => ExitClosed' /\ FinalJoined'
      BY <3>1 DEF ExitInv, ExitClosed, FinalJoined, Ended
    <3>5. QED  BY <3>2, <3>3, <3>4 DEF ExitInv
  <2>14. CASE WantStop(c)
    <3>1. ExitFrame  BY <2>14 DEF ExitFrame, Ended, WantStop
    <3>2. QED  BY <3>1, ExitFramed
  <2>15. CASE StopSession(c)
    <3>1. cur \in Conns /\ (replaced = {} => cur = c)
      BY <2>15 DEF StopSession, OwnInv, Own, InSession
    <3>2. QED  BY <2>15, <3>1, ExitStop DEF StopSession, Ended
  <2>16. CASE HandlerReturns(c)
    <3>1. /\ pc[c] = "ending" /\ pc'[c] = "ended" /\ gw'[c] = "done"
          /\ \A d \in Conns \ {c} : pc'[d] = pc[d] /\ gw'[d] = gw[d]
          /\ \A k \in Hooks : pc'[k] = pc[k]
          /\ UNCHANGED <<exit, joined, told, replaced>>
      BY <2>16 DEF HandlerReturns
    <3>2. IdleGateway' /\ HookJoined' /\ SuccessMeansJoined'
      BY <3>1 DEF ExitInv, IdleGateway, HookJoined, SuccessMeansJoined
    <3>3. replaced' = {} => ExitClosed' /\ FinalJoined'
      BY <3>1 DEF ExitInv, ExitClosed, FinalJoined, Ended
    <3>4. QED  BY <3>2, <3>3 DEF ExitInv
  <2>17. QED
    BY <1>3, <2>1, <2>2, <2>3, <2>4, <2>5, <2>6, <2>7, <2>8, <2>9, <2>10,
       <2>11, <2>12, <2>13, <2>14, <2>15, <2>16
       DEF ClientStep, ConnStep
<1>4. ASSUME NEW j \in Joins, JoinArrives(j) PROVE ExitInv'
  <2>1. ExitFrame  BY <1>4 DEF ExitFrame, Ended, JoinArrives
  <2>2. QED  BY <2>1, ExitFramed
<1>5. ASSUME NEW j \in Joins, JoinStep(j) PROVE ExitInv'
  <2>1. CASE Authenticate(j)
    <3>1. ExitFrame  BY <2>1 DEF ExitFrame, Ended, Authenticate
    <3>2. QED  BY <3>1, ExitFramed
  <2>2. CASE AuthStop(j)
    BY <2>2, ExitStop DEF AuthStop, Ended
  <2>3. CASE JoinBegin(j)
    <3>1. ExitFrame  BY <2>3 DEF ExitFrame, Ended, JoinBegin
    <3>2. QED  BY <3>1, ExitFramed
  <2>4. CASE RejectIntent(j)
    <3>1. ExitFrame  BY <2>4 DEF ExitFrame, Ended, RejectIntent
    <3>2. QED  BY <3>1, ExitFramed
  <2>5. CASE RegisterIntent(j)
    <3>1. ExitFrame  BY <2>5 DEF ExitFrame, Ended, RegisterIntent
    <3>2. QED  BY <3>1, ExitFramed
  <2>6. CASE SendEnds(j)
    <3>1. ExitFrame  BY <2>6 DEF ExitFrame, Ended, SendEnds
    <3>2. QED  BY <3>1, ExitFramed
  <2>7. QED  BY <1>5, <2>1, <2>2, <2>3, <2>4, <2>5, <2>6 DEF JoinStep
<1>6. ASSUME NEW p \in Stops, StopPut(p) PROVE ExitInv'
  <2>1. ExitFrame  BY <1>6 DEF ExitFrame, Ended, StopPut
  <2>2. QED  BY <2>1, ExitFramed
<1>7. ASSUME NEW p \in Stops, StopPutEnds(p) PROVE ExitInv'
  BY <1>7, ExitStop DEF StopPutEnds, Ended
<1>8. ASSUME NEW k \in Hooks, JoinServices(k) PROVE ExitInv'
  <2>1. ExitFrame  BY <1>8 DEF ExitFrame, Ended, JoinServices
  <2>2. QED  BY <2>1, ExitFramed
<1>9. ASSUME NEW k \in Hooks, PostJoin(k) PROVE ExitInv'
  <2>1. /\ joined' /\ \A d \in Conns : pc'[d] = pc[d]
        /\ UNCHANGED <<exit, gw, told, replaced>>
    BY <1>9 DEF PostJoin
  <2>2. QED
    BY <2>1 DEF ExitInv, IdleGateway, HookJoined, SuccessMeansJoined,
        ExitClosed, FinalJoined
<1>10. ASSUME NEW k \in Hooks, PostJoinEnds(k) PROVE ExitInv'
  <2>1. ExitFrame  BY <1>10 DEF ExitFrame, Ended, PostJoinEnds
  <2>2. QED  BY <2>1, ExitFramed
<1>11. CASE UNCHANGED vars
  <2>1. ExitFrame  BY <1>11 DEF ExitFrame, Ended, vars
  <2>2. QED  BY <2>1, ExitFramed
<1>12. QED
  BY <1>1, <1>2, <1>3, <1>4, <1>5, <1>6, <1>7, <1>8, <1>9, <1>10, <1>11
     DEF Next, Idle

LEMMA ExitInit == Init => ExitInv
  BY Distinct DEF Init, ExitInv, IdleGateway, HookJoined, ExitClosed,
     FinalJoined, SuccessMeansJoined, Ended, Threads

\* A joining client is told that its system joined only after the PostJoin hook
\* ran, in every execution in which no session was replaced.
THEOREM SuccessHolds == Spec => []SuccessMeansJoined
<1>1. ExitInv => SuccessMeansJoined
  BY DEF ExitInv
<1>2. TypeInv /\ OwnInv /\ ExitInv /\ [Next]_vars => ExitInv'
  BY ExitStep
<1>3. QED
  BY <1>1, <1>2, ExitInit, Ownership, PTL DEF Spec

-----------------------------------------------------------------------------
(***************************************************************************)
(* Wrong passphrases, also with overlapping clients.  While a session is   *)
(* active and its websocket open, its counter has seen every wrong guess,  *)
(* but for the last one, whose request holds Session.lock until the        *)
(* websocket is gone and so keeps further guesses waiting.                 *)
(***************************************************************************)
Fresh == \A c \in Conns : pc[c] \in {"idle", "opened", "startWait"} =>
                           /\ ~pass[c] /\ mu[c] = Nil
                           /\ failed[c] = 0 /\ guesses[c] = 0
Counted ==
  \A c \in Conns : gw[c] = "open" /\ pass[c] =>
    guesses[c] = IF mu[c] \in Joins THEN failed[c] + 1 ELSE failed[c]

GuessInv == Fresh /\ Counted /\ GuessBound

LEMMA GuessStep == TypeInv /\ GuessInv /\ [Next]_vars => GuessInv'
<1> SUFFICES ASSUME TypeInv, GuessInv, [Next]_vars PROVE GuessInv'
  OBVIOUS
<1> USE Distinct, SessionAssumption
       DEF Threads, Go, lockVars, sessVars, histVars, TypeInv, TypeOK,
           ThreadsOK, SessionsOK, RequestsOK, PtrOK, GuessInv
<1>1. ASSUME NEW c \in Conns, NEW r \in {"initiating", "joining"},
             SessionGet(c, r)
      PROVE  GuessInv'
  BY <1>1 DEF SessionGet, Active, Fresh, Counted, GuessBound
<1>2. ASSUME NEW c \in Conns, GatewayDone(c) PROVE GuessInv'
  BY <1>2 DEF GatewayDone, Fresh, Counted, GuessBound
<1>3. ASSUME NEW c \in Conns, ClientStep(c) \/ ConnStep(c)
      PROVE  GuessInv'
  <2>1. CASE ReceiveStart(c)
    BY <2>1 DEF ReceiveStart, Fresh, Counted, GuessBound
  <2>2. CASE StartSession(c)
    <3>1. Fresh'  BY <2>2 DEF StartSession, Fresh, InSession
    <3>2. Counted'  BY <2>2 DEF StartSession, Fresh, Counted, InSession
    <3>3. GuessBound'
      BY <2>2
         DEF StartSession, Fresh, Counted, GuessBound, InSession
    <3>4. QED  BY <3>1, <3>2, <3>3
  <2>3. CASE Prepare(c)
    BY <2>3 DEF Prepare, WriteOK, Fresh, Counted, GuessBound
  <2>4. ASSUME NEW j \in Joins, RecvIntent(c, j) PROVE GuessInv'
    BY <2>4 DEF RecvIntent, WriteOK, SendersOn, Fresh, Counted, GuessBound
  <2>5. CASE RecvConfirmed(c)
    BY <2>5 DEF RecvConfirmed, Fresh, Counted, GuessBound
  <2>6. CASE HandlerFails(c)
    BY <2>6 DEF HandlerFails, Fresh, Counted, GuessBound
  <2>7. ASSUME NEW f \in Prints, Allow(c, f) PROVE GuessInv'
    BY <2>7 DEF Allow, Fresh, Counted, GuessBound
  <2>8. CASE AllowEnds(c)
    BY <2>8 DEF AllowEnds, Fresh, Counted, GuessBound
  <2>9. CASE Confirm(c)
    BY <2>9 DEF Confirm, WriteOK, Fresh, Counted, GuessBound
  <2>10. CASE RecvExit(c)
    BY <2>10 DEF RecvExit, SendersOn, Fresh, Counted, GuessBound
  <2>11. CASE WriteFinal(c)
    BY <2>11 DEF WriteFinal, WriteOK, Fresh, Counted, GuessBound
  <2>12. CASE WantStop(c)
    BY <2>12 DEF WantStop, Fresh, Counted, GuessBound
  <2>13. CASE StopSession(c)
    <3>1. cur \in Conns /\ c \in Threads /\ "ending" \in PCs /\ Stopped(cur, c, "ending")
      BY <2>13 DEF StopSession, InSession, PCs
    <3>2. /\ \A x \in Conns : x # c => pc'[x] = pc[x]
          /\ pc'[c] = "ending"
          /\ \A d \in Conns : d # cur => failed'[d] = failed[d] /\ pass'[d] = pass[d]
          /\ pass'[cur] => failed'[cur] = failed[cur] /\ pass[cur]
          /\ failed'[cur] \in {0, failed[cur]}
      BY <3>1, StoppedEffect
    <3>3. Fresh'
      BY <2>13, <3>1, <3>2 DEF StopSession, Fresh, InSession
    <3>4. Counted'
      BY <2>13, <3>1, <3>2 DEF StopSession, Fresh, Counted, InSession
    <3>5. GuessBound'
      BY <2>13, <3>1, <3>2
         DEF StopSession, Fresh, Counted, GuessBound, InSession
    <3>6. QED  BY <3>3, <3>4, <3>5
  <2>14. CASE HandlerReturns(c)
    BY <2>14 DEF HandlerReturns, Fresh, Counted, GuessBound
  <2>15. CASE BadMessage(c)
    BY <2>15 DEF BadMessage, Fresh, Counted, GuessBound
  <2>16. CASE IntentsClosed(c)
    BY <2>16 DEF IntentsClosed, Fresh, Counted, GuessBound
  <2>17. QED
    BY <1>3, <2>1, <2>2, <2>3, <2>4, <2>5, <2>6, <2>7, <2>8, <2>9, <2>10,
       <2>11, <2>12, <2>13, <2>14, <2>15, <2>16 DEF ClientStep, ConnStep
<1>4. ASSUME NEW j \in Joins, JoinArrives(j) PROVE GuessInv'
  BY <1>4 DEF JoinArrives, Fresh, Counted, GuessBound
<1>5. ASSUME NEW j \in Joins, JoinStep(j) PROVE GuessInv'
  <2>1. CASE Authenticate(j)
    <3>1. Fresh'
      BY <2>1
         DEF Authenticate, Active, AttemptsLeft, CanLock, Unlocked, WriteOK,
             Fresh, InSession
    <3>2. Counted'
      BY <2>1
         DEF Authenticate, Active, AttemptsLeft, CanLock, Unlocked, WriteOK,
             Fresh, Counted, InSession
    <3>3. GuessBound'
      BY <2>1
         DEF Authenticate, Active, AttemptsLeft, CanLock, Unlocked, WriteOK,
             Fresh, Counted, GuessBound, InSession
    <3>4. QED  BY <3>1, <3>2, <3>3
  <2>2. CASE AuthStop(j)
    <3>1. ptr[j] \in Conns /\ j \in Threads /\ "rejected" \in PCs /\ Stopped(ptr[j], j, "rejected")
      BY <2>2 DEF AuthStop, InSession, PCs
    <3>2. /\ \A x \in Conns : x # j => pc'[x] = pc[x]
          /\ pc'[j] = "rejected"
          /\ \A d \in Conns : d # ptr[j] => failed'[d] = failed[d] /\ pass'[d] = pass[d]
          /\ pass'[ptr[j]] => failed'[ptr[j]] = failed[ptr[j]] /\ pass[ptr[j]]
          /\ failed'[ptr[j]] \in {0, failed[ptr[j]]}
      BY <3>1, StoppedEffect
    <3>3. Fresh'
      BY <2>2, <3>1, <3>2 DEF AuthStop, Fresh, InSession
    <3>4. Counted'
      BY <2>2, <3>1, <3>2 DEF AuthStop, Fresh, Counted, InSession
    <3>5. GuessBound'
      BY <2>2, <3>1, <3>2 DEF AuthStop, Fresh, Counted, GuessBound, InSession
    <3>6. QED  BY <3>3, <3>4, <3>5
  <2>3. CASE JoinBegin(j)
    BY <2>3 DEF JoinBegin, Active, Fresh, Counted, GuessBound
  <2>4. CASE RejectIntent(j)
    BY <2>4 DEF RejectIntent, Fresh, Counted, GuessBound
  <2>5. CASE RegisterIntent(j)
    BY <2>5 DEF RegisterIntent, Fresh, Counted, GuessBound
  <2>6. CASE SendEnds(j)
    BY <2>6 DEF SendEnds, Fresh, Counted, GuessBound
  <2>7. QED  BY <1>5, <2>1, <2>2, <2>3, <2>4, <2>5, <2>6 DEF JoinStep
<1>6. ASSUME NEW p \in Stops, StopPut(p) PROVE GuessInv'
  <2>1. Fresh'
    BY <1>6
       DEF StopPut, Active, Unlocked, WriteOK, Fresh, InSession
  <2>2. Counted'
    BY <1>6
       DEF StopPut, Active, Unlocked, WriteOK, Fresh, Counted, InSession
  <2>3. GuessBound'
    BY <1>6
       DEF StopPut, Active, Unlocked, WriteOK, Fresh, Counted, GuessBound,
           InSession
  <2>4. QED  BY <2>1, <2>2, <2>3
<1>7. ASSUME NEW p \in Stops, StopPutEnds(p) PROVE GuessInv'
  <2>1. ptr[p] \in Conns /\ p \in Threads /\ "ended" \in PCs /\ Stopped(ptr[p], p, "ended")
    BY <1>7 DEF StopPutEnds, InSession, PCs
  <2>2. /\ \A x \in Conns : x # p => pc'[x] = pc[x]
        /\ pc'[p] = "ended"
        /\ \A d \in Conns : d # ptr[p] => failed'[d] = failed[d] /\ pass'[d] = pass[d]
        /\ pass'[ptr[p]] => failed'[ptr[p]] = failed[ptr[p]] /\ pass[ptr[p]]
        /\ failed'[ptr[p]] \in {0, failed[ptr[p]]}
    BY <2>1, StoppedEffect
  <2>3. Fresh'
    BY <1>7, <2>1, <2>2 DEF StopPutEnds, Fresh, InSession
  <2>4. Counted'
    BY <1>7, <2>1, <2>2 DEF StopPutEnds, Fresh, Counted, InSession
  <2>5. GuessBound'
    BY <1>7, <2>1, <2>2 DEF StopPutEnds, Fresh, Counted, GuessBound, InSession
  <2>6. QED  BY <2>3, <2>4, <2>5
<1>8. ASSUME NEW k \in Hooks, JoinServices(k) PROVE GuessInv'
  BY <1>8
     DEF JoinServices, Active, TemporaryTrustStore, Fresh, Counted, GuessBound
<1>9. ASSUME NEW k \in Hooks, PostJoin(k) PROVE GuessInv'
  BY <1>9 DEF PostJoin, Fresh, Counted, GuessBound
<1>10. ASSUME NEW k \in Hooks, PostJoinEnds(k) PROVE GuessInv'
  BY <1>10 DEF PostJoinEnds, Fresh, Counted, GuessBound
<1>11. CASE UNCHANGED vars
  BY <1>11 DEF Fresh, Counted, GuessBound, vars
<1>12. QED
  BY <1>1, <1>2, <1>3, <1>4, <1>5, <1>6, <1>7, <1>8, <1>9, <1>10, <1>11
     DEF Next, Idle

LEMMA GuessInit == Init => GuessInv
  BY SessionAssumption DEF Init, GuessInv, Fresh, Counted, GuessBound, Threads

\* However requests interleave, at most AllowedFailedJoinAttempts + 1 wrong
\* passphrases are tried on a session while its websocket is open.
THEOREM GuessBoundHolds == Spec => []GuessBound
<1>1. TypeInv /\ GuessInv /\ [Next]_vars => GuessInv'
  BY GuessStep
<1>2. GuessInv => GuessBound
  BY DEF GuessInv
<1>3. QED
  BY <1>1, <1>2, GuessInit, TypeCorrect, PTL DEF Spec

-----------------------------------------------------------------------------
(***************************************************************************)
(* What a client was shown.  While a session's websocket and its intent    *)
(* channel are open, the session's fingerprints remember every intent that *)
(* was or can still be shown, and those all differ.  Another handler that  *)
(* stops the session holds the write lock, so that no send is pending and  *)
(* the channel closes together with the list's reset.                      *)
(***************************************************************************)
InRead == {"inTx", "sending"}
Early == {"idle", "opened", "startWait"}
Alive(c) == gw[c] = "open" /\ intents[c] = "open" /\ c \notin replaced
Shown(c) == fwd[c] \cup SendersOn(c, Joins)

ReadLocked == \A j \in Joins : pc[j] \in InRead => j \in rd
Unstarted ==
  \A c \in Conns : pc[c] \in Early =>
    cur # c /\ fwd[c] = {} /\ \A j \in Joins : ptr[j] # c
Registered ==
  \A c \in Conns : Alive(c) => \A j \in Shown(c) : PrintOf[j] \in prints[c]
Different ==
  \A c \in Conns : Alive(c) =>
    \A i, j \in Shown(c) : i # j => PrintOf[i] # PrintOf[j]

FwdInv == ReadLocked /\ Unstarted /\ Registered /\ Different /\ ForwardedOnce

\* Most steps neither register nor show anything.
FwdFrame ==
  /\ \A c \in Conns : /\ Alive(c)' => Alive(c)
                      /\ pc'[c] \in Early => pc[c] \in Early
  /\ \A j \in Joins :
       /\ ptr'[j] \in {ptr[j], cur}
       /\ pc'[j] = "sending" => pc[j] = "sending" /\ ptr'[j] = ptr[j]
       /\ pc'[j] \in InRead => j \in rd' \/ (pc[j] \in InRead /\ j \notin rd)
  /\ replaced \subseteq replaced'
  /\ UNCHANGED <<cur, prints, fwd>>

LEMMA FwdFramed == FwdInv /\ FwdFrame => FwdInv'
<1> SUFFICES ASSUME FwdInv, FwdFrame PROVE FwdInv'
  OBVIOUS
<1>1. ReadLocked' /\ ForwardedOnce' /\ Unstarted'
  BY DEF FwdInv, FwdFrame, ReadLocked, ForwardedOnce, Unstarted
<1>2. \A c \in Conns : Shown(c)' \subseteq Shown(c)
  BY DEF FwdFrame, Shown, SendersOn
<1>3. Registered' /\ Different'
  BY <1>2 DEF FwdInv, FwdFrame, Registered, Different
<1>4. QED
  BY <1>1, <1>3 DEF FwdInv

\* Stop empties the list of a session whose websocket is gone or whose channel
\* it closes at the same time.
LEMMA FwdStop ==
  ASSUME TypeInv, FwdInv, NEW s \in Conns, NEW t \in Threads,
         NEW to \in {"ending", "rejected", "ended"}, Stopped(s, t, to),
         gw[s] = "done" \/ SendersOn(s, Joins) = {},
         UNCHANGED <<cur, ptr, gw, fwd, replaced>>
  PROVE  FwdInv'
<1>1. to \in PCs
  BY DEF PCs
<1>2. /\ pc'[t] = to
      /\ \A x \in Conns : x # t => pc'[x] = pc[x]
      /\ \A x \in Joins : x # t => \/ pc'[x] = pc[x]
                                   \/ pc[x] = "sending" /\ pc'[x] = "swallowed"
      /\ \A d \in Conns : d # s => prints'[d] = prints[d]
  BY <1>1, StoppedEffect DEF TypeInv
<1>3. /\ \A c \in Conns : intents'[c] = "open" => intents[c] = "open"
      /\ \A x \in Joins : x # t /\ x \in rd => x \in rd' \/ pc'[x] = "swallowed"
      /\ SendersOn(s, Joins) = {} =>
           prints'[s] = prints[s] \/ intents'[s] = "closed"
  BY <1>1, StopDrains DEF TypeInv
<1>4. ReadLocked' /\ Unstarted' /\ ForwardedOnce'
  BY <1>2, <1>3
     DEF FwdInv, ReadLocked, Unstarted, ForwardedOnce, InRead, Early
<1>5. \A c \in Conns : Shown(c)' \subseteq Shown(c)
  BY <1>2 DEF Shown, SendersOn
<1>6. \A c \in Conns : Alive(c)' => Alive(c) /\ prints'[c] = prints[c]
  BY <1>2, <1>3 DEF Alive
<1>7. Registered' /\ Different'
  BY <1>5, <1>6 DEF FwdInv, Registered, Different
<1>8. QED
  BY <1>4, <1>7 DEF FwdInv

LEMMA FwdStep == TypeInv /\ OwnInv /\ FwdInv /\ [Next]_vars => FwdInv'
<1> SUFFICES ASSUME TypeInv, OwnInv, FwdInv, [Next]_vars PROVE FwdInv'
  OBVIOUS
<1> USE Distinct, SessionAssumption
       DEF Threads, Go, lockVars, sessVars, histVars, TypeInv, TypeOK,
           ThreadsOK, SessionsOK, RequestsOK, PtrOK
<1>1. ASSUME NEW c \in Conns, NEW r \in {"initiating", "joining"},
             SessionGet(c, r)
      PROVE  FwdInv'
  <2>1. /\ pc[c] = "idle"
        /\ \A d \in Conns \ {c} : pc'[d] = pc[d] /\ gw'[d] = gw[d]
        /\ \A j \in Joins : pc'[j] = pc[j]
        /\ UNCHANGED <<cur, ptr, rd, intents, prints, fwd, replaced>>
    BY <1>1 DEF SessionGet
  <2>2. ReadLocked' /\ Unstarted' /\ ForwardedOnce'
    BY <2>1 DEF FwdInv, ReadLocked, Unstarted, ForwardedOnce, Early
  <2>3. \A d \in Conns : Shown(d)' = Shown(d)
    BY <2>1 DEF Shown, SendersOn
  <2>4. Shown(c) = {}
    BY <2>1 DEF FwdInv, Unstarted, Early, Shown, SendersOn
  <2>5. Registered' /\ Different'
    BY <2>1, <2>3, <2>4 DEF FwdInv, Registered, Different, Alive
  <2>6. QED  BY <2>2, <2>5 DEF FwdInv
<1>2. ASSUME NEW c \in Conns, GatewayDone(c) PROVE FwdInv'
  <2>1. FwdFrame  BY <1>2 DEF FwdFrame, Alive, Early, InRead, GatewayDone
  <2>2. QED  BY <2>1, FwdFramed
<1>3. ASSUME NEW c \in Conns, ClientStep(c) \/ ConnStep(c)
      PROVE  FwdInv'
  <2>1. CASE ReceiveStart(c)
    <3>1. FwdFrame  BY <2>1 DEF FwdFrame, Alive, Early, InRead, ReceiveStart
    <3>2. QED  BY <3>1, FwdFramed
  <2>2. CASE RecvConfirmed(c)
    <3>1. FwdFrame  BY <2>2 DEF FwdFrame, Alive, Early, InRead, RecvConfirmed
    <3>2. QED  BY <3>1, FwdFramed
  <2>3. CASE BadMessage(c)
    <3>1. FwdFrame  BY <2>3 DEF FwdFrame, Alive, Early, InRead, BadMessage
    <3>2. QED  BY <3>1, FwdFramed
  <2>4. CASE StartSession(c)
    <3>1. /\ pc'[c] = "started" /\ cur' = c /\ replaced \subseteq replaced'
          /\ \A d \in Conns \ {c} : pc'[d] = pc[d]
          /\ \A j \in Joins : pc'[j] = pc[j]
          /\ UNCHANGED <<ptr, rd, gw, intents, prints, fwd>>
      BY <2>4 DEF StartSession
    <3>2. ReadLocked' /\ Unstarted' /\ ForwardedOnce'
      BY <3>1 DEF FwdInv, ReadLocked, Unstarted, ForwardedOnce, Early
    <3>3. \A d \in Conns : Shown(d)' = Shown(d) /\ (Alive(d)' => Alive(d))
      BY <3>1 DEF Shown, SendersOn, Alive
    <3>4. Registered' /\ Different'
      BY <3>1, <3>3 DEF FwdInv, Registered, Different
    <3>5. QED  BY <3>2, <3>4 DEF FwdInv
  <2>5. CASE Prepare(c)
    <3>1. FwdFrame  BY <2>5 DEF FwdFrame, Alive, Early, InRead, Prepare
    <3>2. QED  BY <3>1, FwdFramed
  <2>6. ASSUME NEW j \in Joins, RecvIntent(c, j) PROVE FwdInv'
    <3>1. /\ pc[c] = "waiting" /\ j \in SendersOn(on[c], Joins)
          /\ intents[on[c]] = "open" /\ pc'[c] \notin Early
          /\ \A d \in Conns \ {c} : pc'[d] = pc[d] /\ fwd'[d] = fwd[d]
          /\ fwd'[c] = fwd[c] \/ (fwd'[c] = fwd[c] \cup {j} /\ gw[c] = "open")
          /\ \A x \in Joins : pc'[x] = IF x = j THEN "accepted" ELSE pc[x]
          /\ rd' = rd \ {j} /\ UNCHANGED <<cur, ptr, gw, intents, prints, replaced>>
      BY <2>6 DEF RecvIntent, WriteOK, Early, SendersOn
    <3>2. c \notin replaced => on[c] = c
      BY <3>1 DEF OwnInv, OwnChannel, Waits
    <3>3. ReadLocked' /\ Unstarted'
      BY <3>1 DEF FwdInv, ReadLocked, Unstarted, InRead, Early
    <3>4. \A d \in Conns : Alive(d)' => Alive(d) /\ Shown(d)' \subseteq Shown(d)
      BY <3>1, <3>2 DEF Shown, SendersOn, Alive
    <3>5. Registered' /\ Different'
      BY <3>1, <3>4 DEF FwdInv, Registered, Different
    <3>6. ForwardedOnce'
      <4>1. c \notin replaced /\ fwd'[c] # fwd[c] => Alive(c) /\ j \in Shown(c)
        BY <3>1, <3>2 DEF Alive, Shown
      <4>2. QED
        BY <3>1, <4>1 DEF FwdInv, ForwardedOnce, Different, Shown
    <3>7. QED  BY <3>3, <3>5, <3>6 DEF FwdInv
  <2>7. CASE IntentsClosed(c)
    <3>1. FwdFrame  BY <2>7 DEF FwdFrame, Alive, Early, InRead, IntentsClosed
    <3>2. QED  BY <3>1, FwdFramed
  <2>8. CASE HandlerFails(c)
    <3>1. FwdFrame  BY <2>8 DEF FwdFrame, Alive, Early, InRead, HandlerFails
    <3>2. QED  BY <3>1, FwdFramed
  <2>9. ASSUME NEW f \in Prints, Allow(c, f) PROVE FwdInv'
    <3>1. FwdFrame  BY <2>9 DEF FwdFrame, Alive, Early, InRead, Allow
    <3>2. QED  BY <3>1, FwdFramed
  <2>10. CASE AllowEnds(c)
    <3>1. FwdFrame  BY <2>10 DEF FwdFrame, Alive, Early, InRead, AllowEnds
    <3>2. QED  BY <3>1, FwdFramed
  <2>11. CASE Confirm(c)
    <3>1. FwdFrame  BY <2>11 DEF FwdFrame, Alive, Early, InRead, Confirm
    <3>2. QED  BY <3>1, FwdFramed
  <2>12. CASE RecvExit(c)
    <3>1. FwdFrame  BY <2>12
                       DEF FwdFrame, Alive, Early, InRead, RecvExit, SendersOn
    <3>2. QED  BY <3>1, FwdFramed
  <2>13. CASE WriteFinal(c)
    <3>1. FwdFrame  BY <2>13 DEF FwdFrame, Alive, Early, InRead, WriteFinal
    <3>2. QED  BY <3>1, FwdFramed
  <2>14. CASE WantStop(c)
    <3>1. FwdFrame  BY <2>14 DEF FwdFrame, Alive, Early, InRead, WantStop
    <3>2. QED  BY <3>1, FwdFramed
  <2>15. CASE StopSession(c)
    <3>1. cur \in Conns /\ rd = {}
      BY <2>15 DEF StopSession, CanLock, InSession
    <3>2. SendersOn(cur, Joins) = {}
      BY <3>1 DEF FwdInv, ReadLocked, InRead, SendersOn
    <3>3. QED  BY <2>15, <3>1, <3>2, FwdStop DEF StopSession
  <2>16. CASE HandlerReturns(c)
    <3>1. FwdFrame  BY <2>16 DEF FwdFrame, Alive, Early, InRead, HandlerReturns
    <3>2. QED  BY <3>1, FwdFramed
  <2>17. QED
    BY <1>3, <2>1, <2>2, <2>3, <2>4, <2>5, <2>6, <2>7, <2>8, <2>9, <2>10,
       <2>11, <2>12, <2>13, <2>14, <2>15, <2>16
       DEF ClientStep, ConnStep
<1>4. ASSUME NEW j \in Joins, JoinArrives(j) PROVE FwdInv'
  <2>1. FwdFrame  BY <1>4 DEF FwdFrame, Alive, Early, InRead, JoinArrives
  <2>2. QED  BY <2>1, FwdFramed
<1>5. ASSUME NEW j \in Joins, JoinStep(j) PROVE FwdInv'
  <2>1. CASE Authenticate(j)
    <3>1. FwdFrame  BY <2>1 DEF FwdFrame, Alive, Early, InRead, Authenticate
    <3>2. QED  BY <3>1, FwdFramed
  <2>2. CASE AuthStop(j)
    BY <2>2, FwdStop DEF AuthStop
  <2>3. CASE JoinBegin(j)
    <3>1. FwdFrame  BY <2>3 DEF FwdFrame, Alive, Early, InRead, JoinBegin
    <3>2. QED  BY <3>1, FwdFramed
  <2>4. CASE RejectIntent(j)
    <3>1. FwdFrame  BY <2>4 DEF FwdFrame, Alive, Early, InRead, RejectIntent
    <3>2. QED  BY <3>1, FwdFramed
  <2>5. CASE RegisterIntent(j)
    <3>1. /\ pc[j] = "inTx" /\ ptr[j] \in Conns
          /\ pc'[j] \in {"rejected", "sending"}
          /\ \A x \in Joins \ {j} : pc'[x] = pc[x] /\ (x \in rd => x \in rd')
          /\ pc'[j] = "sending" => rd' = rd /\ PrintOf[j] \notin prints[ptr[j]]
          /\ \A d \in Conns : pc'[d] = pc[d]
          /\ \A d \in Conns : prints[d] \subseteq prints'[d]
          /\ pc'[j] = "sending" => PrintOf[j] \in prints'[ptr[j]]
          /\ UNCHANGED <<cur, ptr, gw, intents, fwd, replaced>>
      <4>1. CASE PrintOf[j] \in prints[ptr[j]]
        BY <2>5, <4>1 DEF RegisterIntent
      <4>2. CASE PrintOf[j] \notin prints[ptr[j]]
        BY <2>5, <4>2 DEF RegisterIntent
      <4>3. QED
        BY <4>1, <4>2
    <3>2. ReadLocked' /\ Unstarted' /\ ForwardedOnce'
      BY <3>1 DEF FwdInv, ReadLocked, Unstarted, ForwardedOnce, InRead, Early
    <3>3. \A d \in Conns : Alive(d)' => Alive(d)
      BY <3>1 DEF Alive
    <3>4. \A d \in Conns : \A i \in Shown(d)' :
            i \in Shown(d) \/ (i = j /\ pc'[j] = "sending" /\ ptr[j] = d)
      BY <3>1 DEF Shown, SendersOn
    <3>5. Registered'
      <4> SUFFICES ASSUME NEW d \in Conns, Alive(d)', NEW i \in Shown(d)'
                    PROVE  PrintOf[i] \in prints'[d]
        BY DEF Registered
      <4>1. CASE i \in Shown(d)
        BY <4>1, <3>1, <3>3 DEF FwdInv, Registered
      <4>2. CASE i = j /\ pc'[j] = "sending" /\ ptr[j] = d
        BY <4>2, <3>1
      <4>3. QED
        BY <4>1, <4>2, <3>4
    <3>6. Different'
      BY <3>1, <3>3, <3>4 DEF FwdInv, Registered, Different
    <3>7. QED  BY <3>2, <3>5, <3>6 DEF FwdInv
  <2>6. CASE SendEnds(j)
    <3>1. FwdFrame  BY <2>6 DEF FwdFrame, Alive, Early, InRead, SendEnds
    <3>2. QED  BY <3>1, FwdFramed
  <2>7. QED  BY <1>5, <2>1, <2>2, <2>3, <2>4, <2>5, <2>6 DEF JoinStep
<1>6. ASSUME NEW p \in Stops, StopPut(p) PROVE FwdInv'
  <2>1. FwdFrame  BY <1>6 DEF FwdFrame, Alive, Early, InRead, StopPut
  <2>2. QED  BY <2>1, FwdFramed
<1>7. ASSUME NEW p \in Stops, StopPutEnds(p) PROVE FwdInv'
  BY <1>7, FwdStop DEF StopPutEnds
<1>8. ASSUME NEW k \in Hooks, JoinServices(k) PROVE FwdInv'
  <2>1. FwdFrame  BY <1>8 DEF FwdFrame, Alive, Early, InRead, JoinServices
  <2>2. QED  BY <2>1, FwdFramed
<1>9. ASSUME NEW k \in Hooks, PostJoin(k) PROVE FwdInv'
  <2>1. FwdFrame  BY <1>9 DEF FwdFrame, Alive, Early, InRead, PostJoin
  <2>2. QED  BY <2>1, FwdFramed
<1>10. ASSUME NEW k \in Hooks, PostJoinEnds(k) PROVE FwdInv'
  <2>1. FwdFrame  BY <1>10 DEF FwdFrame, Alive, Early, InRead, PostJoinEnds
  <2>2. QED  BY <2>1, FwdFramed
<1>11. CASE UNCHANGED vars
  <2>1. FwdFrame  BY <1>11 DEF FwdFrame, Alive, Early, InRead, vars
  <2>2. QED  BY <2>1, FwdFramed
<1>12. QED
  BY <1>1, <1>2, <1>3, <1>4, <1>5, <1>6, <1>7, <1>8, <1>9, <1>10, <1>11
     DEF Next, Idle

LEMMA FwdInit == Init => FwdInv
  BY SessionAssumption DEF Init, FwdInv, ReadLocked, Unstarted, Registered,
     Different, ForwardedOnce, Alive, Shown, SendersOn, InRead, Early, Threads

\* A client is shown each certificate at most once, whatever other clients do
\* to its session, unless it was replaced.
THEOREM ShownHolds == Spec => []ForwardedOnce
<1>1. TypeInv /\ OwnInv /\ FwdInv /\ [Next]_vars => FwdInv'
  BY FwdStep
<1>2. FwdInv => ForwardedOnce
  BY DEF FwdInv
<1>3. QED
  BY <1>1, <1>2, FwdInit, Ownership, PTL DEF Spec

-----------------------------------------------------------------------------
(***************************************************************************)
(* Whose passphrase an intent was signed with.  authHandlerHMAC checks it  *)
(* in one transaction and sessionJoinPost delivers it in another: only a   *)
(* session that starts between the two gets an intent not meant for it.    *)
(***************************************************************************)
SignedDelay ==
  \A j \in Joins : pc[j] = "delay" => hmac[j] = cur \/ j \in late
SignedInside ==
  \A j \in Joins : pc[j] \in InRead => hmac[j] = ptr[j] \/ j \in late
ForwardedAnswered == \A c \in Conns : \A j \in fwd[c] : pc[j] = "accepted"

SignInv == SignedDelay /\ SignedInside /\ ForwardedAnswered /\ ShownIsSigned

\* Most steps neither let in nor forward a request.
SignFrame ==
  /\ \A j \in Joins :
       /\ pc'[j] = "delay" => pc[j] = "delay"
       /\ pc'[j] \in InRead => pc[j] \in InRead /\ ptr'[j] = ptr[j]
       /\ pc[j] = "accepted" => pc'[j] = "accepted"
  /\ UNCHANGED <<cur, hmac, fwd, late, replaced>>

LEMMA SignFramed == TypeInv /\ SignInv /\ SignFrame => SignInv'
  BY DEF SignInv, SignedDelay, SignedInside, ForwardedAnswered, ShownIsSigned,
     SignFrame, TypeInv, TypeOK, RequestsOK

\* Session.Stop lets no request in: it can only take one's intent away.
LEMMA SignStop ==
  ASSUME TypeInv, SignInv, NEW s \in Conns, NEW t \in Threads,
         NEW to \in {"ending", "rejected", "ended"}, Stopped(s, t, to),
         t \in Joins => pc[t] # "accepted",
         UNCHANGED <<cur, ptr, hmac, fwd, late, replaced>>
  PROVE  SignInv'
<1>1. to \in PCs
  BY DEF PCs
<1>2. /\ pc'[t] = to
      /\ \A x \in Joins : x # t => \/ pc'[x] = pc[x]
                                   \/ pc[x] = "sending" /\ pc'[x] = "swallowed"
  BY <1>1, StoppedEffect DEF TypeInv
<1>3. SignFrame
  BY <1>2 DEF SignFrame, InRead
<1>4. QED
  BY <1>3, SignFramed

LEMMA SignStep == TypeInv /\ OwnInv /\ SignInv /\ [Next]_vars => SignInv'
<1> SUFFICES ASSUME TypeInv, OwnInv, SignInv, [Next]_vars PROVE SignInv'
  OBVIOUS
<1> USE Distinct, SessionAssumption
       DEF Threads, Go, lockVars, sessVars, histVars, TypeInv, TypeOK,
           ThreadsOK, SessionsOK, RequestsOK, PtrOK
<1>1. ASSUME NEW c \in Conns, NEW r \in {"initiating", "joining"},
             SessionGet(c, r)
      PROVE  SignInv'
  <2>1. SignFrame  BY <1>1 DEF SignFrame, InRead, SessionGet
  <2>2. QED  BY <2>1, SignFramed
<1>2. ASSUME NEW c \in Conns, GatewayDone(c) PROVE SignInv'
  <2>1. SignFrame  BY <1>2 DEF SignFrame, InRead, GatewayDone
  <2>2. QED  BY <2>1, SignFramed
<1>3. ASSUME NEW c \in Conns, ClientStep(c) \/ ConnStep(c)
      PROVE  SignInv'
  <2>1. CASE ReceiveStart(c)
    <3>1. SignFrame  BY <2>1 DEF SignFrame, InRead, ReceiveStart
    <3>2. QED  BY <3>1, SignFramed
  <2>2. CASE RecvConfirmed(c)
    <3>1. SignFrame  BY <2>2 DEF SignFrame, InRead, RecvConfirmed
    <3>2. QED  BY <3>1, SignFramed
  <2>3. CASE BadMessage(c)
    <3>1. SignFrame  BY <2>3 DEF SignFrame, InRead, BadMessage
    <3>2. QED  BY <3>1, SignFramed
  <2>4. CASE StartSession(c)
    <3>1. /\ \A j \in Joins : pc'[j] = pc[j]
          /\ replaced \subseteq replaced' /\ late \subseteq late'
          /\ \A j \in Joins : pc[j] = "delay" => j \in late'
          /\ UNCHANGED <<ptr, hmac, fwd>>
      BY <2>4 DEF StartSession
    <3>2. QED
      BY <3>1 DEF SignInv, SignedDelay, SignedInside, ForwardedAnswered,
          ShownIsSigned
  <2>5. CASE Prepare(c)
    <3>1. SignFrame  BY <2>5 DEF SignFrame, InRead, Prepare
    <3>2. QED  BY <3>1, SignFramed
  <2>6. ASSUME NEW j \in Joins, RecvIntent(c, j) PROVE SignInv'
    <3>1. /\ pc[c] = "waiting" /\ pc[j] = "sending" /\ ptr[j] = on[c]
          /\ \A d \in Conns : fwd'[d] \subseteq fwd[d] \cup (IF d = c THEN {j} ELSE {})
          /\ \A x \in Joins : pc'[x] = IF x = j THEN "accepted" ELSE pc[x]
          /\ UNCHANGED <<cur, ptr, hmac, late, replaced>>
      BY <2>6 DEF RecvIntent, SendersOn
    <3>2. c \notin replaced => hmac[j] = c \/ j \in late
      BY <3>1 DEF OwnInv, OwnChannel, Waits, SignInv, SignedInside, InRead
    <3>3. ShownIsSigned'
      BY <3>1, <3>2 DEF SignInv, ShownIsSigned
    <3>4. SignedDelay' /\ SignedInside' /\ ForwardedAnswered'
      BY <3>1 DEF SignInv, SignedDelay, SignedInside, ForwardedAnswered, InRead
    <3>5. QED  BY <3>3, <3>4 DEF SignInv
  <2>7. CASE IntentsClosed(c)
    <3>1. SignFrame  BY <2>7 DEF SignFrame, InRead, IntentsClosed
    <3>2. QED  BY <3>1, SignFramed
  <2>8. CASE HandlerFails(c)
    <3>1. SignFrame  BY <2>8 DEF SignFrame, InRead, HandlerFails
    <3>2. QED  BY <3>1, SignFramed
  <2>9. ASSUME NEW f \in Prints, Allow(c, f) PROVE SignInv'
    <3>1. SignFrame  BY <2>9 DEF SignFrame, InRead, Allow
    <3>2. QED  BY <3>1, SignFramed
  <2>10. CASE AllowEnds(c)
    <3>1. SignFrame  BY <2>10 DEF SignFrame, InRead, AllowEnds
    <3>2. QED  BY <3>1, SignFramed
  <2>11. CASE Confirm(c)
    <3>1. SignFrame  BY <2>11 DEF SignFrame, InRead, Confirm
    <3>2. QED  BY <3>1, SignFramed
  <2>12. CASE RecvExit(c)
    <3>1. SignFrame  BY <2>12 DEF SignFrame, InRead, RecvExit, SendersOn
    <3>2. QED  BY <3>1, SignFramed
  <2>13. CASE WriteFinal(c)
    <3>1. SignFrame  BY <2>13 DEF SignFrame, InRead, WriteFinal
    <3>2. QED  BY <3>1, SignFramed
  <2>14. CASE WantStop(c)
    <3>1. SignFrame  BY <2>14 DEF SignFrame, InRead, WantStop
    <3>2. QED  BY <3>1, SignFramed
  <2>15. CASE StopSession(c)
    <3>1. cur \in Conns  BY <2>15 DEF StopSession, InSession
    <3>2. QED  BY <2>15, <3>1, SignStop DEF StopSession
  <2>16. CASE HandlerReturns(c)
    <3>1. SignFrame  BY <2>16 DEF SignFrame, InRead, HandlerReturns
    <3>2. QED  BY <3>1, SignFramed
  <2>17. QED
    BY <1>3, <2>1, <2>2, <2>3, <2>4, <2>5, <2>6, <2>7, <2>8, <2>9, <2>10,
       <2>11, <2>12, <2>13, <2>14, <2>15, <2>16
       DEF ClientStep, ConnStep
<1>4. ASSUME NEW j \in Joins, JoinArrives(j) PROVE SignInv'
  <2>1. /\ pc[j] = "idle" /\ pc'[j] = "authWait"
        /\ \A x \in Joins \ {j} : pc'[x] = pc[x] /\ hmac'[x] = hmac[x]
        /\ UNCHANGED <<cur, ptr, fwd, late, replaced>>
    BY <1>4 DEF JoinArrives
  <2>2. ForwardedAnswered'
    BY <2>1 DEF SignInv, ForwardedAnswered
  <2>3. SignedDelay' /\ SignedInside'
    BY <2>1 DEF SignInv, SignedDelay, SignedInside, InRead
  <2>4. ShownIsSigned'
    BY <2>1 DEF SignInv, ShownIsSigned, ForwardedAnswered
  <2>5. QED  BY <2>2, <2>3, <2>4 DEF SignInv
<1>5. ASSUME NEW j \in Joins, JoinStep(j) PROVE SignInv'
  <2>1. CASE Authenticate(j)
    <3>1. /\ pc[j] = "authWait" /\ pc'[j] \in {"rejected", "delay", "authStop"}
          /\ pc'[j] = "delay" => hmac[j] = cur
          /\ \A x \in Joins \ {j} : pc'[x] = pc[x] /\ ptr'[x] = ptr[x]
          /\ UNCHANGED <<cur, hmac, fwd, late, replaced>>
      BY <2>1 DEF Authenticate
    <3>2. ForwardedAnswered'
      BY <3>1 DEF SignInv, ForwardedAnswered
    <3>3. SignedDelay' /\ SignedInside'
      BY <3>1 DEF SignInv, SignedDelay, SignedInside, InRead
    <3>4. ShownIsSigned'
      BY <3>1 DEF SignInv, ShownIsSigned, ForwardedAnswered
    <3>5. QED  BY <3>2, <3>3, <3>4 DEF SignInv
  <2>2. CASE AuthStop(j)
    BY <2>2, SignStop DEF AuthStop
  <2>3. CASE JoinBegin(j)
    <3>1. /\ pc[j] = "delay" /\ pc'[j] \in {"rejected", "inTx"}
          /\ pc'[j] = "inTx" => ptr'[j] = cur
          /\ \A x \in Joins \ {j} : pc'[x] = pc[x] /\ ptr'[x] = ptr[x]
          /\ UNCHANGED <<cur, hmac, fwd, late, replaced>>
      BY <2>3 DEF JoinBegin
    <3>2. ForwardedAnswered'
      BY <3>1 DEF SignInv, ForwardedAnswered
    <3>3. SignedDelay' /\ SignedInside'
      BY <3>1 DEF SignInv, SignedDelay, SignedInside, InRead
    <3>4. ShownIsSigned'
      BY <3>1 DEF SignInv, ShownIsSigned, ForwardedAnswered
    <3>5. QED  BY <3>2, <3>3, <3>4 DEF SignInv
  <2>4. CASE RejectIntent(j)
    <3>1. SignFrame  BY <2>4 DEF SignFrame, InRead, RejectIntent
    <3>2. QED  BY <3>1, SignFramed
  <2>5. CASE RegisterIntent(j)
    <3>1. SignFrame  BY <2>5 DEF SignFrame, InRead, RegisterIntent
    <3>2. QED  BY <3>1, SignFramed
  <2>6. CASE SendEnds(j)
    <3>1. SignFrame  BY <2>6 DEF SignFrame, InRead, SendEnds
    <3>2. QED  BY <3>1, SignFramed
  <2>7. QED  BY <1>5, <2>1, <2>2, <2>3, <2>4, <2>5, <2>6 DEF JoinStep
<1>6. ASSUME NEW p \in Stops, StopPut(p) PROVE SignInv'
  <2>1. SignFrame  BY <1>6 DEF SignFrame, InRead, StopPut
  <2>2. QED  BY <2>1, SignFramed
<1>7. ASSUME NEW p \in Stops, StopPutEnds(p) PROVE SignInv'
  BY <1>7, SignStop DEF StopPutEnds
<1>8. ASSUME NEW k \in Hooks, JoinServices(k) PROVE SignInv'
  <2>1. SignFrame  BY <1>8 DEF SignFrame, InRead, JoinServices
  <2>2. QED  BY <2>1, SignFramed
<1>9. ASSUME NEW k \in Hooks, PostJoin(k) PROVE SignInv'
  <2>1. SignFrame  BY <1>9 DEF SignFrame, InRead, PostJoin
  <2>2. QED  BY <2>1, SignFramed
<1>10. ASSUME NEW k \in Hooks, PostJoinEnds(k) PROVE SignInv'
  <2>1. SignFrame  BY <1>10 DEF SignFrame, InRead, PostJoinEnds
  <2>2. QED  BY <2>1, SignFramed
<1>11. CASE UNCHANGED vars
  <2>1. SignFrame  BY <1>11 DEF SignFrame, InRead, vars
  <2>2. QED  BY <2>1, SignFramed
<1>12. QED
  BY <1>1, <1>2, <1>3, <1>4, <1>5, <1>6, <1>7, <1>8, <1>9, <1>10, <1>11
     DEF Next, Idle

LEMMA SignInit == Init => SignInv
  BY DEF Init, SignInv, SignedDelay, SignedInside, ForwardedAnswered,
     ShownIsSigned, InRead, Threads

\* A client whose session was not replaced is shown only intents that were
\* signed for its own session, or that a session start overtook in between.
THEOREM SignedHolds == Spec => []ShownIsSigned
<1>1. TypeInv /\ OwnInv /\ SignInv /\ [Next]_vars => SignInv'
  BY SignStep
<1>2. SignInv => ShownIsSigned
  BY DEF SignInv
<1>3. QED
  BY <1>1, <1>2, SignInit, Ownership, PTL DEF Spec
=============================================================================
