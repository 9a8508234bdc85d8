-------------------------------- MODULE Trust --------------------------------
(* Trust establishment as the users see it: the initiator's CLI, the systems  *)
(* that want to join, the multicast lookup they find it with, and the two     *)
(* daemons in between, whose goroutines are the module Session's: here a      *)
(* request is one step.                                                       *)
(*                                                                            *)
(* cmd/microcloud/session.go, join.go and ask.go (askJoinIntents,             *)
(* askJoinConfirmation), multicast/discovery.go, client/websocket.go, and     *)
(* api/session.go.                                                            *)
EXTENDS Table

CONSTANTS Joiners,       \* certificates of the systems; rows of the table
          NameOf,        \* their host names
          Version,       \* their multicast version
          OurVersion,    \* the initiator's
          Expected,      \* the names in the preseed file
          Nil

ASSUME TrustAssumption ==
  Joiners = Rows /\ Nil \notin Joiners /\ "accepted" \notin Joiners /\ "close" \notin Joiners

VARIABLES
  auto,        \* c.autoSetup, fixed: preseed instead of the table
  cli,         \* the initiator's command
  inbox,       \* gw.Receive() of it: intents, "accepted", "close"
  reader,      \* the goroutine that renders intents: "recv", "send" or "gone"
  hand,        \* the intent it has in hand
  cancelled,   \* renderCtx
  joinIntents, \* by name
  chosen,      \* the rows that the user selected
  confirmed,   \* ConfirmedIntents
  registered,  \* c.systems
  daemon,      \* the initiator's session: "open", "confirming" or "closed"
  asked,       \* the confirmed systems that RequestJoinIntent has not returned for
  registry,    \* joinIntentFingerprints
  joiner,      \* the joining commands
  told,        \* the joiners that were sent the initiator's confirmation
  queries, replies     \* datagrams, by the joiner that sent or gets them

cliVars == <<cli, reader, hand, cancelled, joinIntents, chosen, confirmed, registered>>
daemonVars == <<daemon, asked, registry>>
netVars == <<queries, replies>>
vars == <<auto, tableVars, cliVars, inbox, daemonVars, joiner, told, netVars>>

Names == {NameOf[j] : j \in Joiners} \cup Expected
Phases == {"idle", "lookup", "found", "waiting", "confirmed", "joined", "failed"}

Init ==
  /\ TableInit
  /\ auto \in BOOLEAN
  /\ cli = IF auto THEN "collect" ELSE "table"
  /\ inbox = <<>> /\ reader = "recv" /\ hand = Nil /\ cancelled = FALSE
  /\ joinIntents = [n \in Names |-> Nil]
  /\ chosen = {} /\ confirmed = {} /\ registered = {}
  /\ daemon = "open" /\ asked = {} /\ registry = {}
  /\ joiner = [j \in Joiners |-> "idle"] /\ told = {}
  /\ queries = {} /\ replies = {}

-----------------------------------------------------------------------------
(* Lookup *)

Move(j, p) == joiner' = [joiner EXCEPT ![j] = p]

\* joiningSession: with the initiator's address no lookup is needed.
StartJoin(j) ==
  /\ joiner[j] = "idle"
  /\ Move(j, "lookup") \/ Move(j, "found")
  /\ UNCHANGED <<auto, tableVars, cliVars, inbox, daemonVars, told, netVars>>

\* Mutant: the message is only sent when the lookup starts.
MaySendAtStart(j) == joiner[j] = "idle"

\* Lookup repeats its message; what it sends after it has read an answer has no effect.
MaySend(j) == joiner[j] = "lookup"

Send(j) ==
  /\ MaySend(j)
  /\ queries' = queries \cup {j}
  /\ UNCHANGED <<auto, tableVars, cliVars, inbox, daemonVars, joiner, told, replies>>

\* Respond: until the session stops, to its own version. A datagram may come twice.
Respond(j) ==
  /\ j \in queries
  /\ queries' \in {queries, queries \ {j}}
  /\ replies' = IF daemon # "closed" /\ Version[j] = OurVersion THEN replies \cup {j} ELSE replies
  /\ UNCHANGED <<auto, tableVars, cliVars, inbox, daemonVars, joiner, told>>

Lose(j) ==
  /\ \/ j \in queries /\ queries' = queries \ {j} /\ UNCHANGED replies
     \/ j \in replies /\ replies' = replies \ {j} /\ UNCHANGED queries
  /\ UNCHANGED <<auto, tableVars, cliVars, inbox, daemonVars, joiner, told>>

Found(j) ==
  /\ joiner[j] = "lookup" /\ j \in replies
  /\ Move(j, "found")
  /\ queries' = queries \ {j} /\ replies' = replies \ {j}
  /\ UNCHANGED <<auto, tableVars, cliVars, inbox, daemonVars, told>>

\* The lookup or the session times out.
TimesOut(j) ==
  /\ joiner[j] \in {"lookup", "waiting", "confirmed"}
  /\ Move(j, "failed")
  /\ queries' = queries \ {j} /\ replies' = replies \ {j}
  /\ UNCHANGED <<auto, tableVars, cliVars, inbox, daemonVars, told>>

-----------------------------------------------------------------------------
(* The intent to join *)

\* A fingerprint is registered once; the daemon forwards the intent while it waits for
\* the selection. A wrong passphrase, other services or versions are refused, too.
PostIntent(j) ==
  /\ joiner[j] = "found"
  /\ \/ /\ daemon = "open" /\ j \notin registry
        /\ registry' = registry \cup {j}
        /\ inbox' = Append(inbox, j)
        /\ Move(j, "waiting")
     \/ Move(j, "failed") /\ UNCHANGED <<registry, inbox>>
  /\ UNCHANGED <<auto, tableVars, cliVars, daemon, asked, told, netVars>>

\* The client's context ends when its read loop comes to the end of the connection:
\* it hands over one message after the other.
CtxDone == inbox # <<>> /\ Head(inbox) = "close"
Done == cancelled \/ CtxDone

\* The goroutine takes whatever comes, also after renderCancel as long as it has not
\* noticed: the reply to the selection, too, whose fingerprint it then asks for. There
\* is no certificate in it.
ReadIntent ==
  /\ reader = "recv"
  /\ inbox # <<>> /\ Head(inbox) # "close"
  /\ inbox' = Tail(inbox)
  /\ LET j == Head(inbox)
     IN /\ cli' = IF j = "accepted" /\ ~auto THEN "crashed" ELSE cli
        /\ CASE j = "accepted" -> UNCHANGED <<reader, hand, joinIntents, cancelled>>
          [] auto /\ NameOf[j] \notin Expected -> UNCHANGED <<reader, hand, joinIntents, cancelled>>
          [] OTHER -> LET known == [joinIntents EXCEPT ![NameOf[j]] = j]
                      IN /\ joinIntents' = known
                         /\ reader' = IF auto THEN reader ELSE "send"
                         /\ hand' = IF auto THEN hand ELSE j
                         /\ cancelled' = IF auto /\ \A n \in Expected : known[n] # Nil THEN TRUE ELSE cancelled
  /\ UNCHANGED <<auto, tableVars, chosen, confirmed, registered, daemonVars, joiner, told, netVars>>

\* The map is written while the command reads it, after the selection or when the
\* time is over: the runtime may notice.
MapRace ==
  /\ reader = "recv"
  /\ inbox # <<>> /\ Head(inbox) \in Joiners
  /\ cli = "select" \/ (cli = "collect" /\ NameOf[Head(inbox)] \in Expected)
  /\ cli' = "crashed"
  /\ UNCHANGED <<auto, tableVars, inbox, reader, hand, cancelled, joinIntents, chosen, confirmed, registered,
                 daemonVars, joiner, told, netVars>>

ReaderExits ==
  /\ reader = "recv" /\ Done
  /\ reader' = "gone"
  /\ UNCHANGED <<auto, tableVars, cli, inbox, hand, cancelled, joinIntents, chosen, confirmed, registered,
                 daemonVars, joiner, told, netVars>>

\* SendUpdate waits for a program. One that has quit drops the row; between its two
\* reads of s.program that may have become nil.
SendUpdate ==
  /\ reader = "send" /\ program # "nil"
  /\ \/ /\ IF program = "running" THEN Inserted(hand) ELSE UNCHANGED tableVars
        /\ reader' = "recv" /\ hand' = Nil /\ UNCHANGED cli
     \/ program = "quit" /\ cli' = "crashed" /\ UNCHANGED <<tableVars, reader, hand>>
  /\ UNCHANGED <<auto, inbox, cancelled, joinIntents, chosen, confirmed, registered, daemonVars, joiner, told, netVars>>

-----------------------------------------------------------------------------
(* The selection *)

StillReading == <<auto, inbox, reader, hand, joinIntents, confirmed, registered, daemonVars, joiner, told, netVars>>

ShowTable == /\ cli = "table" /\ Render
             /\ UNCHANGED <<cli, chosen, cancelled, StillReading>>

PressKey == cli = "table" /\ Key /\ UNCHANGED <<cli, chosen, cancelled, StillReading>>

PressEnter == /\ cli = "table" /\ program = "running" /\ Quit
              /\ UNCHANGED <<cli, chosen, cancelled, StillReading>>

\* The program is killed with the context, also when it is about to return: askRetry
\* does not ask then.
TableKilled == /\ cli = "table" /\ program # "nil" /\ CtxDone
               /\ cli' = "failed" /\ UNCHANGED <<tableVars, chosen, cancelled, StillReading>>

\* Without a selection askRetry asks; not to retry is to go on with no system. There
\* may be nobody to answer.
TableReturns ==
  /\ cli = "table" /\ Finish
  /\ cli' \in IF Answers = {} THEN {"table", "select", "failed"} ELSE {"select"}
  /\ chosen' = Answers
  /\ UNCHANGED <<cancelled, StillReading>>

\* The program does not start (no terminal): askRetry asks here, too.
TableFails == /\ cli = "table" /\ program = "nil"
              /\ cli' \in {"select", "failed"} /\ chosen' = {}
              /\ UNCHANGED <<tableVars, cancelled, StillReading>>

\* The systems that are confirmed: the last intent of each name that was selected.
Selected == {joinIntents[n] : n \in {NameOf[j] : j \in chosen}} \ {Nil}

\* renderCancel is deferred; then initiatingSession sends the confirmed intents.
SendConfirmed(S) ==
  /\ confirmed' = S
  /\ cancelled' = TRUE
  /\ IF daemon = "open" THEN /\ daemon' = "confirming" /\ asked' = S /\ cli' = "reply"
     ELSE cli' = "failed" /\ UNCHANGED <<daemon, asked>>
  /\ UNCHANGED <<auto, tableVars, inbox, reader, hand, joinIntents, registered, registry, joiner, told, netVars>>

Select == cli = "select" /\ SendConfirmed(Selected) /\ UNCHANGED chosen

\* With preseed: everybody has come, or the time is over.
Collected ==
  /\ cli = "collect"
  /\ IF \A n \in Expected : joinIntents[n] # Nil
     THEN SendConfirmed({joinIntents[n] : n \in Expected}) /\ UNCHANGED chosen
     ELSE /\ cli' = "failed"
          /\ UNCHANGED <<tableVars, chosen, cancelled, StillReading>>

-----------------------------------------------------------------------------
(* Confirmation *)

\* RequestJoinIntent to a confirmed system, which must still be in its session. The
\* errgroup does not end with the session: what it has not sent yet goes out all the
\* same. Its error ends the handler.
Confirm(j) ==
  /\ j \in asked
  /\ asked' = asked \ {j}
  /\ IF joiner[j] = "waiting"
     THEN /\ told' = told \cup {j} /\ Move(j, "confirmed")
          /\ UNCHANGED <<daemon, inbox>>
     ELSE /\ daemon' = "closed"
          /\ inbox' = IF daemon = "closed" THEN inbox ELSE Append(inbox, "close")
          /\ UNCHANGED <<told, joiner>>
  /\ UNCHANGED <<auto, tableVars, cliVars, registry, netVars>>

\* Mutant: the requests are not waited for.
AllConfirmedAnyway == TRUE

\* errgroup's Wait.
AllConfirmed == asked = {}

\* The reply, after which the session stops and the connection ends.
Accept ==
  /\ daemon = "confirming" /\ AllConfirmed
  /\ daemon' = "closed"
  /\ inbox' = inbox \o <<"accepted", "close">>
  /\ UNCHANGED <<auto, tableVars, cliVars, asked, registry, joiner, told, netVars>>

\* The initiator's session times out, or its client is gone. The handler may still be
\* waiting for the confirmations, whose result nobody gets.
DaemonStops ==
  /\ daemon # "closed"
  /\ daemon' = "closed" /\ inbox' = Append(inbox, "close")
  /\ UNCHANGED <<auto, tableVars, cliVars, asked, registry, joiner, told, netVars>>

\* The reply is whatever comes next. An intent has no Accepted, and is not one.
ReadReply ==
  /\ cli = "reply" /\ inbox # <<>>
  /\ LET msg == Head(inbox)
     IN /\ cli' = CASE msg = "accepted" -> "done" [] msg = "close" -> "failed" [] OTHER -> "refused"
        /\ registered' = IF msg = "accepted" THEN confirmed ELSE registered
        /\ inbox' = IF msg = "close" THEN inbox ELSE Tail(inbox)
  /\ UNCHANGED <<auto, tableVars, reader, hand, cancelled, joinIntents, chosen, confirmed, daemonVars, joiner, told, netVars>>

-----------------------------------------------------------------------------
(* After the session of the initiator *)

\* A system has joined, and its PostJoin hook stops its session.
Joined(j) ==
  /\ cli = "done" /\ j \in registered /\ joiner[j] = "confirmed"
  /\ Move(j, "joined")
  /\ UNCHANGED <<auto, tableVars, cliVars, inbox, daemonVars, told, netVars>>

\* The setup fails: the reverter stops the sessions of those that have not joined yet.
AbortSetup ==
  /\ cli = "done"
  /\ cli' = "failed"
  /\ joiner' = [j \in Joiners |-> IF j \in registered /\ joiner[j] = "confirmed" THEN "failed" ELSE joiner[j]]
  /\ UNCHANGED <<auto, tableVars, inbox, reader, hand, cancelled, joinIntents, chosen, confirmed, registered,
                 daemonVars, told, netVars>>

Ended == /\ cli \in {"done", "failed", "refused", "crashed"} /\ \A j \in Joiners : joiner[j] \in {"joined", "failed"}
         /\ UNCHANGED vars

Next ==
  \/ \E j \in Joiners : \/ StartJoin(j) \/ Send(j) \/ Respond(j) \/ Lose(j) \/ Found(j) \/ TimesOut(j)
                        \/ PostIntent(j) \/ Confirm(j) \/ Joined(j)
  \/ ReadIntent \/ MapRace \/ ReaderExits \/ SendUpdate
  \/ ShowTable \/ PressKey \/ PressEnter \/ TableKilled \/ TableReturns \/ TableFails
  \/ Select \/ Collected
  \/ Accept \/ DaemonStops \/ ReadReply \/ AbortSetup \/ Ended

\* The lookup goes on sending, and a datagram that is sent again and again arrives.
Fairness == \A j \in Joiners : WF_vars(Send(j)) /\ SF_vars(Respond(j)) /\ SF_vars(Found(j))

Spec == Init /\ [][Next]_vars /\ Fairness

-----------------------------------------------------------------------------
(* Properties *)

\* The type invariant. What is selected are rows that exist, and the cursor is on a row
\* that is displayed, while rows are inserted and the filter changes.
TypeOK ==
  /\ auto \in BOOLEAN /\ cancelled \in BOOLEAN
  /\ cli \in {"table", "collect", "select", "reply", "done", "failed", "refused", "crashed"}
  /\ reader \in {"recv", "send", "gone"} /\ hand \in Joiners \cup {Nil}
  /\ daemon \in {"open", "confirming", "closed"}
  /\ joinIntents \in [Names -> Joiners \cup {Nil}] /\ joiner \in [Joiners -> Phases]
  /\ \A S \in {chosen, confirmed, registered, asked, registry, told, queries, replies, picked} : S \subseteq Joiners
  /\ \A i \in DOMAIN inbox : inbox[i] \in Joiners \cup {"accepted", "close"}
  /\ \A i \in DOMAIN rows : rows[i] \in Joiners
  /\ program \in {"nil", "running", "quit"} /\ filter \in Filters
  /\ activeRows \subseteq DOMAIN rows /\ CursorVisible

\* Only systems of a name that the user has selected in the table, with the cursor on
\* the row and whatever filter, are sent the initiator's confirmation and get to trust
\* it; or of a name in the preseed file. (joinIntents goes by the name: of two systems
\* with one name the last is confirmed.)
ConfirmedAsSelected ==
  \A j \in told : NameOf[j] \in IF auto THEN Expected ELSE {NameOf[c] : c \in picked}

\* A system is registered for the setup only if it was confirmed and knows: the
\* initiator's client sees the acceptance after every joiner has it, however the
\* messages, the reading goroutine and the timeouts interleave.
TrustMutual == registered \subseteq told /\ told \subseteq confirmed

\* A joiner that searches while a session of its version is open is not left searching
\* because of lost datagrams: it finds the initiator, gives up, or the session ends.
LookupFinds ==
  \A j \in Joiners : joiner[j] = "lookup" /\ daemon # "closed" /\ Version[j] = OurVersion
                       ~> joiner[j] # "lookup" \/ daemon = "closed"
==============================================================================
