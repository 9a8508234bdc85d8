----------------------------- MODULE TrustProofs -----------------------------
(***************************************************************************)
(* Proofs about Trust and the table it uses, for any systems, names,       *)
(* filters, and sizes of the table.                                        *)
(***************************************************************************)
EXTENDS Trust, ListingProofs, SequenceTheorems

Messages == Joiners \cup {"accepted", "close"}

\* The state has its type.
Typed ==
  /\ auto \in BOOLEAN /\ cancelled \in BOOLEAN
  /\ cli \in {"table", "collect", "select", "reply", "done", "failed", "refused", "crashed"}
  /\ reader \in {"recv", "send", "gone"} /\ hand \in Joiners \cup {Nil}
  /\ daemon \in {"open", "confirming", "closed"}
  /\ joinIntents \in [Names -> Joiners \cup {Nil}] /\ joiner \in [Joiners -> Phases]
  /\ inbox \in Seq(Messages)
  /\ chosen \subseteq Joiners /\ confirmed \subseteq Joiners
  /\ registered \subseteq Joiners /\ asked \subseteq Joiners /\ registry \subseteq Joiners
  /\ told \subseteq Joiners /\ queries \subseteq Joiners /\ replies \subseteq Joiners

\* The table has its type.
TableOK ==
  /\ rows \in Seq(Joiners) /\ activeRows \subseteq 1..Len(rows) /\ picked \subseteq Joiners
  /\ filter \in Filters /\ program \in {"nil", "running", "quit"}
  /\ currentRow \in Nat /\ startIndex \in Nat /\ CursorVisible

\* Until the command has sent its selection, nobody was confirmed.
NobodyYet ==
  cli \in {"table", "select", "collect"} =>
    /\ confirmed = {} /\ told = {} /\ asked = {} /\ registered = {}
    /\ daemon # "confirming" /\ \A i \in 1..Len(inbox) : inbox[i] # "accepted"

\* Whoever was confirmed will be asked or was told ...
EveryoneAsked ==
  /\ asked \subseteq confirmed
  /\ daemon = "confirming" => confirmed \subseteq asked \cup told

\* ... and the acceptance is sent when all were told.
AcceptedLast ==
  \A i \in 1..Len(inbox) : inbox[i] = "accepted" => confirmed \subseteq told

\* An intent is on its way, in hand, or in a row, and there is one for each system.
OneIntent ==
  /\ \A i, k \in 1..Len(inbox) : inbox[i] = inbox[k] /\ inbox[i] \in Joiners => i = k
  /\ \A i, k \in 1..Len(rows) : rows[i] = rows[k] => i = k
  /\ \A i \in 1..Len(inbox) : inbox[i] \in Joiners =>
       /\ inbox[i] \in registry /\ inbox[i] # hand
       /\ \A k \in 1..Len(rows) : rows[k] # inbox[i]
  /\ \A k \in 1..Len(rows) : rows[k] \in registry /\ rows[k] # hand
  /\ hand = Nil \/ hand \in registry
  /\ reader = "send" => hand # Nil

\* What the user saw under the cursor is what the table will return.
PickedActive == \A i \in 1..Len(rows) : i \in activeRows <=> rows[i] \in picked
PickedRows == \A j \in picked : \E i \in 1..Len(rows) : rows[i] = j

\* An intent is kept under its name.
KeptByName == \A n \in Names : joinIntents[n] # Nil => NameOf[joinIntents[n]] = n

\* The selection, and then the confirmation, goes by what was picked.
AsPicked ==
  /\ cli = "table" => ~auto
  /\ cli = "collect" => auto
  /\ cli = "select" => ~auto /\ chosen \subseteq picked
  /\ \A j \in confirmed : NameOf[j] \in IF auto THEN Expected ELSE {NameOf[c] : c \in picked}

TrustInv == NobodyYet /\ EveryoneAsked /\ AcceptedLast /\ TrustMutual
PickInv == PickedActive /\ PickedRows /\ KeptByName /\ AsPicked

-----------------------------------------------------------------------------
(* The rows that are shown.                                                 *)

\* filterMap leads to rows that the filter lets through; formatRows are these rows.
ShownRight ==
  /\ Cardinality(Matching) \in Nat /\ IsFiniteSet(Matching)
  /\ Matching \subseteq 1..Len(rows)
  /\ Shown \in [1..Cardinality(Matching) -> Matching]
  /\ Shown \in Seq(1..Len(rows)) /\ Len(Shown) = Cardinality(Matching)
  /\ Display \in Seq(Joiners) /\ Len(Display) = Cardinality(Matching)
  /\ \A i \in 1..Cardinality(Matching) :
       Shown[i] \in 1..Len(rows) /\ Display[i] = rows[Shown[i]]

\* It does so in every state, and in the next one.
LEMMA ShownOK == rows \in Seq(Joiners) => ShownRight
<1> SUFFICES ASSUME rows \in Seq(Joiners) PROVE ShownRight
  OBVIOUS
<1>1. Matching \in SUBSET (1..Len(rows)) /\ Len(rows) \in Nat
  BY DEF Matching
<1>2. IsFiniteSet(Matching)
  <2>1. IsFiniteSet(1..Len(rows))
    BY <1>1, FS_Interval
  <2>2. QED
    BY <1>1, <2>1, FS_Subset
<1>3. Cardinality(Matching) \in Nat
  BY <1>2, FS_CardinalityType
<1>5. Shown \in [1..Cardinality(Matching) -> Matching]
  BY <1>1, ListingRight DEF Shown
<1>6. \A i \in 1..Cardinality(Matching) :
        Shown[i] \in 1..Len(rows) /\ Display[i] = rows[Shown[i]] /\ rows[Shown[i]] \in Joiners
  <2> SUFFICES ASSUME NEW i \in 1..Cardinality(Matching)
               PROVE  /\ Shown[i] \in 1..Len(rows) /\ Display[i] = rows[Shown[i]]
                      /\ rows[Shown[i]] \in Joiners
    OBVIOUS
  <2>1. Shown[i] \in 1..Len(rows)
    BY <1>1, <1>5
  <2>2. rows[Shown[i]] \in Joiners
    BY <2>1, ElementOfSeq
  <2>3. Display[i] = rows[Shown[i]]
    BY DEF Display
  <2>4. QED
    BY <2>1, <2>2, <2>3
<1>7. Shown \in Seq(1..Len(rows)) /\ Len(Shown) = Cardinality(Matching)
  <2>1. Shown \in [1..Cardinality(Matching) -> 1..Len(rows)]
    BY <1>1, <1>5
  <2>2. QED
    BY <1>3, <2>1
<1>8. Display \in [1..Cardinality(Matching) -> Joiners]
  BY <1>6 DEF Display
<1>9. Display \in Seq(Joiners) /\ Len(Display) = Cardinality(Matching)
  BY <1>3, <1>8
<1>10. QED
  BY <1>1, <1>2, <1>3, <1>5, <1>6, <1>7, <1>9 DEF ShownRight

LEMMA ShownOKNext == rows' \in Seq(Joiners) => ShownRight'
<1>1. (rows \in Seq(Joiners) => ShownRight)'
  BY ShownOK, PTL
<1>2. QED
  BY <1>1

-----------------------------------------------------------------------------
(* The type invariant.                                                      *)

\* The cursor stays on a row that is displayed when no row that was shown goes.
LEMMA CursorStays ==
  ASSUME rows \in Seq(Joiners), rows' \in Seq(Joiners), Matching \subseteq Matching',
         UNCHANGED <<currentRow, startIndex>>, currentRow \in Nat, CursorVisible
  PROVE  CursorVisible'
<1>1. ShownRight /\ ShownRight'
  BY ShownOK, ShownOKNext
<1>2. Cardinality(Matching) <= Cardinality(Matching')
  BY <1>1, FS_Subset DEF ShownRight
<1>3. QED
  BY <1>1, <1>2 DEF ShownRight, CursorVisible

\* The steps of the table keep its type.
LEMMA TableStep ==
  ASSUME TableOK, hand \in Joiners \cup {Nil},
         \/ Render \/ Key \/ Quit \/ Finish \/ (hand # Nil /\ Inserted(hand))
         \/ UNCHANGED tableVars
  PROVE  TableOK'
<1> USE DEF TableOK
<1>1. ShownRight /\ Size \in Nat \ {0} /\ Rows \in Filters /\ Len(rows) \in Nat
  BY ShownOK, TableAssumption
<1>3. UNCHANGED <<rows, filter>> => Matching' = Matching /\ Shown' = Shown
  BY DEF Matching, Shown
<1>4. CASE Render
  BY <1>1, <1>4 DEF Render, CursorVisible
<1>5. CASE Quit \/ Finish \/ UNCHANGED tableVars
  <2>1. /\ UNCHANGED <<rows, filter, currentRow, startIndex>>
        /\ activeRows' \in {activeRows, {}} /\ picked' \in {picked, {}}
        /\ program' \in {"nil", "running", "quit"}
    BY <1>5 DEF Quit, Finish, tableVars
  <2>2. CursorVisible'
    BY <1>3, <2>1 DEF CursorVisible
  <2>3. QED
    BY <2>1, <2>2
<1>6. CASE hand # Nil /\ Inserted(hand)
  <2>1. /\ rows' = Append(rows, hand) /\ hand \in Joiners
        /\ UNCHANGED <<activeRows, filter, currentRow, startIndex, program, picked>>
    BY <1>6 DEF Inserted
  <2>2. /\ rows' \in Seq(Joiners) /\ Len(rows') = Len(rows) + 1
        /\ \A i \in 1..Len(rows) : rows'[i] = rows[i]
    BY <2>1
  <2>3. Matching \subseteq Matching'
    BY <1>1, <2>1, <2>2 DEF Matching
  <2>4. CursorVisible'
    BY <2>1, <2>2, <2>3, CursorStays
  <2>5. activeRows' \subseteq 1..Len(rows')
    BY <1>1, <2>1, <2>2
  <2>6. QED
    BY <2>1, <2>2, <2>4, <2>5
<1>7. CASE Key
  <2>1. rows' = rows /\ program' = program
    BY <1>7 DEF Key, KeyUp, KeyDown, KeyLeft, KeyRight, KeySpace, KeyFilter
  <2>2. CASE KeyUp
    <3>1. UNCHANGED <<activeRows, filter, picked>>
      BY <2>2 DEF KeyUp
    <3>2. currentRow' \in Nat /\ startIndex' \in Nat /\ CursorVisible'
      BY <1>1, <1>3, <2>1, <2>2, <3>1 DEF KeyUp, CursorVisible, ShownRight
    <3>3. QED
      BY <2>1, <3>1, <3>2
  <2>3. CASE KeyDown
    <3>1. UNCHANGED <<activeRows, filter, picked>>
      BY <2>3 DEF KeyDown
    <3>2. currentRow' \in Nat /\ startIndex' \in Nat /\ CursorVisible'
      BY <1>1, <1>3, <2>1, <2>3, <3>1 DEF KeyDown, CursorVisible, ShownRight
    <3>3. QED
      BY <2>1, <3>1, <3>2
  <2>4. CASE KeyLeft \/ KeyRight \/ KeySpace
    <3>1. UNCHANGED <<filter, currentRow, startIndex>>
      BY <2>4 DEF KeyLeft, KeyRight, KeySpace
    <3>2. CursorVisible'
      BY <1>3, <2>1, <3>1 DEF CursorVisible
    <3>3. activeRows' \subseteq 1..Len(rows) /\ picked' \subseteq Joiners
      <4>1. CASE KeyLeft
        BY <4>1 DEF KeyLeft
      <4>2. CASE KeyRight
        <5>1. \A i \in 1..Len(Shown) : Shown[i] \in 1..Len(rows)
          BY <1>1 DEF ShownRight
        <5>2. \A i \in 1..Len(Display) : Display[i] \in Joiners
          BY <1>1 DEF ShownRight
        <5>3. QED
          BY <4>2, <5>1, <5>2 DEF KeyRight
      <4>3. CASE KeySpace
        <5>1. currentRow + 1 \in 1..Cardinality(Matching)
          BY <1>1, <4>3 DEF KeySpace, CursorVisible, ShownRight
        <5>2. CurrentIndex \in 1..Len(rows) /\ Display[currentRow + 1] \in Joiners
          BY <1>1, <5>1 DEF CurrentIndex, ShownRight
        <5>3. QED
          BY <4>3, <5>2 DEF KeySpace, Toggle
      <4>4. QED
        BY <2>4, <4>1, <4>2, <4>3
    <3>4. QED
      BY <2>1, <3>1, <3>2, <3>3
  <2>5. CASE KeyFilter
    BY <1>1, <2>1, <2>5 DEF KeyFilter, CursorVisible
  <2>6. QED
    BY <1>7, <2>2, <2>3, <2>4, <2>5 DEF Key
<1>8. QED
  BY <1>4, <1>5, <1>6, <1>7

\* A message is taken from the inbox, or put into it.
LEMMA InboxTyped ==
  ASSUME inbox \in Seq(Messages)
  PROVE  /\ inbox # <<>> => Head(inbox) \in Messages /\ Tail(inbox) \in Seq(Messages)
         /\ \A m \in Messages : Append(inbox, m) \in Seq(Messages)
         /\ inbox \o <<"accepted", "close">> \in Seq(Messages)
  BY DEF Messages

\* The steps of the joiners.
LEMMA JoinerTyped ==
  ASSUME Typed, NEW j \in Joiners,
         \/ StartJoin(j) \/ Send(j) \/ Respond(j) \/ Lose(j) \/ Found(j) \/ TimesOut(j)
         \/ PostIntent(j) \/ Confirm(j) \/ Joined(j)
  PROVE  Typed' /\ UNCHANGED tableVars
<1> USE DEF Typed
<1>1. UNCHANGED tableVars
  BY DEF StartJoin, Send, Respond, Lose, Found, TimesOut, PostIntent, Confirm, Joined
<1>2. CASE Send(j) \/ Respond(j) \/ Lose(j)
  BY <1>2 DEF Send, Respond, Lose, cliVars, daemonVars
<1>3. CASE StartJoin(j) \/ Found(j) \/ TimesOut(j) \/ Joined(j)
  BY <1>3 DEF StartJoin, Found, TimesOut, Joined, Move, Phases, cliVars, daemonVars, netVars
<1>4. CASE PostIntent(j)
  <2>1. inbox' \in Seq(Messages)
    BY <1>4, InboxTyped DEF PostIntent, Messages
  <2>2. QED
    BY <1>4, <2>1 DEF PostIntent, Move, Phases, cliVars, netVars
<1>5. CASE Confirm(j)
  <2>1. inbox' \in Seq(Messages)
    BY <1>5, InboxTyped DEF Confirm, Messages
  <2>2. QED
    BY <1>5, <2>1 DEF Confirm, Move, Phases, cliVars, netVars
<1>6. QED
  BY <1>1, <1>2, <1>3, <1>4, <1>5

\* The goroutine that reads the intents.
LEMMA ReaderTyped ==
  ASSUME Typed, ReadIntent \/ MapRace \/ ReaderExits PROVE Typed' /\ UNCHANGED tableVars
<1> USE DEF Typed
<1>1. UNCHANGED tableVars
  BY DEF ReadIntent, MapRace, ReaderExits
<1>2. CASE MapRace \/ ReaderExits
  BY <1>2 DEF MapRace, ReaderExits, daemonVars, netVars
<1>3. CASE ReadIntent
  <2> DEFINE j == Head(inbox)
  <2>1. j \in Messages /\ j # "close" /\ inbox' \in Seq(Messages)
    BY <1>3, InboxTyped DEF ReadIntent
  <2>2. cli' \in {cli, "crashed"}
    BY <1>3 DEF ReadIntent
  <2>3. UNCHANGED <<auto, chosen, confirmed, registered, daemonVars, joiner, told, netVars>>
    BY <1>3 DEF ReadIntent
  <2>4. CASE UNCHANGED <<reader, hand, joinIntents, cancelled>>
    BY <1>1, <2>1, <2>2, <2>3, <2>4 DEF daemonVars, netVars
  <2>5. CASE /\ j \in Joiners
             /\ joinIntents' = [joinIntents EXCEPT ![NameOf[j]] = j]
             /\ reader' \in {reader, "send"} /\ hand' \in {hand, j} /\ cancelled' \in {cancelled, TRUE}
    BY <1>1, <2>1, <2>2, <2>3, <2>5 DEF daemonVars, netVars
  <2>6. QED
    <3>1. j = "accepted" \/ j \in Joiners
      BY <2>1 DEF Messages
    <3>2. QED
      BY <1>3, <2>4, <2>5, <3>1 DEF ReadIntent
<1>4. QED
  BY <1>1, <1>2, <1>3

\* The selection and the answer.
LEMMA CommandTyped ==
  ASSUME Typed, TableOK,
         \/ SendUpdate \/ ShowTable \/ PressKey \/ PressEnter \/ TableKilled \/ TableReturns
         \/ TableFails \/ Select \/ Collected \/ Accept \/ DaemonStops \/ ReadReply \/ AbortSetup
  PROVE  Typed'
<1> USE DEF Typed, StillReading, daemonVars, netVars
<1>1. CASE SendUpdate
  BY <1>1 DEF SendUpdate
<1>2. CASE ShowTable \/ PressKey \/ PressEnter \/ TableKilled \/ TableFails
  BY <1>2 DEF ShowTable, PressKey, PressEnter, TableKilled, TableFails
<1>3. CASE TableReturns
  <2>1. Answers \subseteq Joiners
    BY ElementOfSeq DEF TableOK, Answers
  <2>2. QED
    BY <1>3, <2>1 DEF TableReturns
<1>4. ASSUME NEW S \in SUBSET Joiners, SendConfirmed(S), UNCHANGED chosen PROVE Typed'
  BY <1>4 DEF SendConfirmed
<1>5. CASE Select
  <2>1. \A c \in Joiners : NameOf[c] \in Names
    BY DEF Names
  <2>2. Selected \subseteq Joiners
    BY <2>1 DEF Selected
  <2>3. QED
    BY <1>4, <1>5, <2>2 DEF Select
<1>6. CASE Collected
  <2>1. CASE \A n \in Expected : joinIntents[n] # Nil
    <3>1. {joinIntents[n] : n \in Expected} \subseteq Joiners
      BY <2>1 DEF Names
    <3>2. SendConfirmed({joinIntents[n] : n \in Expected}) /\ UNCHANGED chosen
      BY <1>6, <2>1 DEF Collected
    <3>3. QED
      BY <1>4, <3>1, <3>2
  <2>2. CASE ~(\A n \in Expected : joinIntents[n] # Nil)
    BY <1>6, <2>2 DEF Collected
  <2>3. QED
    BY <2>1, <2>2
<1>7. CASE Accept \/ DaemonStops
  <2>1. inbox' \in Seq(Messages)
    BY <1>7, InboxTyped DEF Accept, DaemonStops, Messages
  <2>2. QED
    BY <1>7, <2>1 DEF Accept, DaemonStops, cliVars
<1>8. CASE ReadReply
  <2>1. inbox' \in Seq(Messages)
    BY <1>8, InboxTyped DEF ReadReply
  <2>2. cli' \in {"done", "failed", "refused"} /\ registered' \in {confirmed, registered}
    BY <1>8 DEF ReadReply
  <2>3. QED
    BY <1>8, <2>1, <2>2 DEF ReadReply
<1>9. CASE AbortSetup
  BY <1>9 DEF AbortSetup, Phases
<1>10. QED
  BY <1>1, <1>2, <1>3, <1>5, <1>6, <1>7, <1>8, <1>9

\* The table moves only by its own steps.
LEMMA TableMoves ==
  ASSUME Typed, TableOK, OneIntent,
         \/ SendUpdate \/ ShowTable \/ PressKey \/ PressEnter \/ TableKilled \/ TableReturns
         \/ TableFails \/ Select \/ Collected \/ Accept \/ DaemonStops \/ ReadReply \/ AbortSetup
  PROVE  \/ Render \/ Key \/ Quit \/ Finish \/ (hand # Nil /\ Inserted(hand))
         \/ UNCHANGED tableVars
  BY DEF SendUpdate, ShowTable, PressKey, PressEnter, TableKilled, TableReturns, TableFails, Select,
     Collected, Accept, DaemonStops, ReadReply, AbortSetup, SendConfirmed, OneIntent

-----------------------------------------------------------------------------
(* One intent for each system.                                              *)

\* What an inbox holds after a message was taken from it or put into it.
LEMMA TailOfInbox ==
  ASSUME inbox \in Seq(Messages), inbox # <<>>, inbox' = Tail(inbox)
  PROVE  /\ Len(inbox') = Len(inbox) - 1 /\ 1 \in 1..Len(inbox) /\ Head(inbox) = inbox[1]
         /\ \A i \in 1..Len(inbox') : i + 1 \in 1..Len(inbox) /\ inbox'[i] = inbox[i + 1]
  OBVIOUS

LEMMA AppendToInbox ==
  ASSUME inbox \in Seq(Messages), NEW m \in Messages, inbox' = Append(inbox, m)
  PROVE  /\ Len(inbox') = Len(inbox) + 1 /\ inbox'[Len(inbox) + 1] = m
         /\ \A i \in 1..Len(inbox') : i # Len(inbox) + 1 => i \in 1..Len(inbox) /\ inbox'[i] = inbox[i]
  OBVIOUS

LEMMA RepliesToInbox ==
  ASSUME inbox \in Seq(Messages), inbox' = inbox \o <<"accepted", "close">>
  PROVE  \A i \in 1..Len(inbox') :
           (i \in 1..Len(inbox) /\ inbox'[i] = inbox[i]) \/ inbox'[i] \in {"accepted", "close"}
<1>1. <<"accepted", "close">> \in Seq({"accepted", "close"}) /\ Len(<<"accepted", "close">>) = 2
  OBVIOUS
<1>2. Len(inbox') = Len(inbox) + 2
  BY <1>1
<1>3. \A i \in 1..Len(inbox') : inbox'[i] = IF i <= Len(inbox) THEN inbox[i]
                                            ELSE <<"accepted", "close">>[i - Len(inbox)]
  BY <1>1, <1>2, ConcatProperties
<1>4. QED
  BY <1>1, <1>2, <1>3

\* A step that neither sends an intent nor shows one.
LEMMA IntentFramed ==
  ASSUME OneIntent, UNCHANGED <<rows, hand>>, reader' = "send" => reader = "send",
         registry \subseteq registry', NEW d \in {0, 1},
         \A i \in 1..Len(inbox') : inbox'[i] \in Joiners =>
           i + d \in 1..Len(inbox) /\ inbox'[i] = inbox[i + d]
  PROVE  OneIntent'
<1> USE DEF OneIntent
<1>1. ASSUME NEW i \in 1..Len(inbox'), NEW k \in 1..Len(inbox'), inbox'[i] = inbox'[k],
             inbox'[i] \in Joiners
      PROVE  i = k
  <2>1. i + d = k + d
    BY <1>1
  <2>2. i \in Int /\ k \in Int
    OBVIOUS
  <2>3. QED
    BY <2>1, <2>2
<1>2. QED
  BY <1>1

\* Every step keeps OneIntent.
LEMMA IntentStep ==
  ASSUME Typed, TableOK, OneIntent, [Next]_vars PROVE OneIntent'
<1> USE DEF Typed
\* The inbox keeps its intents, or loses the first message.
<1>1. ASSUME \/ inbox' = inbox
             \/ inbox' = Append(inbox, "close")
             \/ inbox' = inbox \o <<"accepted", "close">>
             \/ inbox # <<>> /\ inbox' = Tail(inbox),
             UNCHANGED <<rows, hand, registry>>, reader' = "send" => reader = "send"
      PROVE  OneIntent'
  <2>1. CASE inbox # <<>> /\ inbox' = Tail(inbox)
    BY <1>1, <2>1, TailOfInbox, IntentFramed
  <2>2. CASE inbox' = inbox
    BY <1>1, <2>2, IntentFramed
  <2>3. CASE inbox' = Append(inbox, "close")
    <3>1. \A i \in 1..Len(inbox') : inbox'[i] \in Joiners =>
            i + 0 \in 1..Len(inbox) /\ inbox'[i] = inbox[i + 0]
      BY <2>3, AppendToInbox, TrustAssumption DEF Messages
    <3>2. QED
      BY <1>1, <3>1, IntentFramed
  <2>4. CASE inbox' = inbox \o <<"accepted", "close">>
    <3>1. \A i \in 1..Len(inbox') : inbox'[i] \in Joiners =>
            i + 0 \in 1..Len(inbox) /\ inbox'[i] = inbox[i + 0]
      BY <2>4, RepliesToInbox, TrustAssumption
    <3>2. QED
      BY <1>1, <3>1, IntentFramed
  <2>5. QED
    BY <1>1, <2>1, <2>2, <2>3, <2>4
<1>2. ASSUME NEW j \in Joiners,
             \/ StartJoin(j) \/ Send(j) \/ Respond(j) \/ Lose(j) \/ Found(j) \/ TimesOut(j)
             \/ Confirm(j) \/ Joined(j)
      PROVE  OneIntent'
  <2>1. UNCHANGED <<rows, hand, registry, reader>> /\ inbox' \in {inbox, Append(inbox, "close")}
    BY <1>2 DEF StartJoin, Send, Respond, Lose, Found, TimesOut, Confirm, Joined, tableVars,
       cliVars, daemonVars
  <2>2. QED
    BY <1>1, <2>1
\* A system that was not registered sends its intent.
<1>3. ASSUME NEW j \in Joiners, PostIntent(j) PROVE OneIntent'
  <2>1. UNCHANGED <<rows, hand, reader>>
    BY <1>3 DEF PostIntent, tableVars, cliVars
  <2>2. CASE UNCHANGED <<registry, inbox>>
    BY <1>1, <2>1, <2>2
  <2>3. CASE /\ j \notin registry /\ registry' = registry \cup {j}
             /\ inbox' = Append(inbox, j)
    <3>1. j \in Messages /\ Len(inbox) \in Nat /\ j # Nil
      BY TrustAssumption DEF Messages
    <3> DEFINE n == Len(inbox) + 1
    <3>2. /\ Len(inbox') = n /\ inbox'[n] = j
          /\ \A i \in 1..Len(inbox') : i # n => i \in 1..Len(inbox) /\ inbox'[i] = inbox[i]
      BY <2>3, <3>1, AppendToInbox
    <3> HIDE DEF n
    <3>3. \A i \in 1..Len(inbox) : inbox[i] # j
      BY <2>3 DEF OneIntent
    <3>4. \A i, k \in 1..Len(inbox') : inbox'[i] = inbox'[k] /\ inbox'[i] \in Joiners => i = k
      BY <3>2, <3>3 DEF OneIntent
    <3>5. \A i \in 1..Len(inbox') : inbox'[i] \in Joiners =>
            /\ inbox'[i] \in registry' /\ inbox'[i] # hand
            /\ \A k \in 1..Len(rows) : rows[k] # inbox'[i]
      BY <2>3, <3>1, <3>2 DEF OneIntent
    <3>6. QED
      BY <2>1, <2>3, <3>4, <3>5 DEF OneIntent
  <2>4. QED
    BY <1>3, <2>2, <2>3 DEF PostIntent
\* The goroutine takes an intent.
<1>4. CASE ReadIntent
  <2> DEFINE j == Head(inbox)
  <2>1. inbox # <<>> /\ inbox' = Tail(inbox) /\ UNCHANGED <<rows, registry>> /\ reader = "recv"
    BY <1>4 DEF ReadIntent, tableVars, daemonVars
  <2>2. \/ UNCHANGED <<reader, hand>>
        \/ j \in Joiners /\ hand' = j /\ reader' = "send"
    BY <1>4, <2>1, InboxTyped DEF ReadIntent, Messages
  <2>3. CASE UNCHANGED <<reader, hand>>
    BY <1>1, <2>1, <2>3
  <2>4. CASE j \in Joiners /\ hand' = j /\ reader' = "send"
    <3>1. /\ Len(inbox') = Len(inbox) - 1 /\ 1 \in 1..Len(inbox) /\ j = inbox[1]
          /\ \A i \in 1..Len(inbox') : i + 1 \in 1..Len(inbox) /\ inbox'[i] = inbox[i + 1]
      BY <2>1, TailOfInbox
    <3>2. \A i \in 1..Len(inbox') : i \in Int /\ i >= 1
      OBVIOUS
    <3>3. \A i \in 1..Len(inbox') : inbox'[i] \in Joiners => inbox'[i] # j
      BY <2>4, <3>1, <3>2 DEF OneIntent
    <3>4. \A i, k \in 1..Len(inbox') : inbox'[i] = inbox'[k] /\ inbox'[i] \in Joiners => i = k
      <4> SUFFICES ASSUME NEW i \in 1..Len(inbox'), NEW k \in 1..Len(inbox'),
                          inbox'[i] = inbox'[k], inbox'[i] \in Joiners
                   PROVE  i = k
        OBVIOUS
      <4>1. i + 1 = k + 1
        BY <3>1 DEF OneIntent
      <4>2. QED
        BY <3>2, <4>1
    <3>5. j # Nil /\ j \in registry /\ \A k \in 1..Len(rows) : rows[k] # j
      BY <2>4, <3>1, TrustAssumption DEF OneIntent
    <3>6. QED
      BY <2>1, <2>4, <3>1, <3>3, <3>4, <3>5 DEF OneIntent
  <2>5. QED
    BY <2>2, <2>3, <2>4
\* The table shows the intent in hand.
<1>5. CASE SendUpdate
  <2>1. UNCHANGED <<inbox, registry>> /\ reader = "send" /\ hand # Nil /\ hand \in Joiners
    BY <1>5 DEF SendUpdate, daemonVars, OneIntent
  <2>2. CASE UNCHANGED <<rows, reader, hand>>
    BY <1>1, <2>1, <2>2
  <2>3. CASE UNCHANGED rows /\ reader' = "recv" /\ hand' = Nil
    BY <2>1, <2>3, ElementOfSeq, TrustAssumption DEF OneIntent, TableOK
  <2>4. CASE Inserted(hand) /\ reader' = "recv" /\ hand' = Nil
    <3>1. /\ rows' \in Seq(Joiners) /\ Len(rows') = Len(rows) + 1 /\ rows'[Len(rows) + 1] = hand
          /\ \A i \in 1..Len(rows') : i # Len(rows) + 1 => i \in 1..Len(rows) /\ rows'[i] = rows[i]
      BY <2>1, <2>4 DEF Inserted, TableOK
    <3>2. \A i \in 1..Len(rows') : rows'[i] \in Joiners /\ rows'[i] # Nil
      BY <3>1, TrustAssumption
    <3>3. \A i, k \in 1..Len(rows') : rows'[i] = rows'[k] => i = k
      BY <3>1 DEF OneIntent
    <3>4. \A i \in 1..Len(inbox) : inbox[i] \in Joiners =>
            inbox[i] # Nil /\ \A k \in 1..Len(rows') : rows'[k] # inbox[i]
      BY <3>1, TrustAssumption DEF OneIntent
    <3>5. \A k \in 1..Len(rows') : rows'[k] \in registry
      BY <2>1, <3>1 DEF OneIntent
    <3>6. QED
      BY <2>1, <2>4, <3>2, <3>3, <3>4, <3>5 DEF OneIntent
  <2>5. QED
    BY <1>5, <2>2, <2>3, <2>4 DEF SendUpdate, tableVars
<1>6. CASE \/ MapRace \/ ReaderExits \/ ShowTable \/ PressKey \/ PressEnter \/ TableKilled
           \/ TableReturns \/ TableFails \/ Select \/ Collected \/ AbortSetup
  <2>1. UNCHANGED <<hand, registry, inbox>> /\ (reader' = "send" => reader = "send")
    BY <1>6 DEF MapRace, ReaderExits, ShowTable, PressKey, PressEnter, TableKilled,
       TableReturns, TableFails, Select, Collected, AbortSetup, SendConfirmed, StillReading, daemonVars
  <2>2. rows' = rows
    BY <1>6 DEF MapRace, ReaderExits, ShowTable, PressKey, PressEnter, TableKilled,
       TableReturns, TableFails, Select, Collected, AbortSetup, SendConfirmed, tableVars, Render, Key, KeyUp,
       KeyDown, KeyLeft, KeyRight, KeySpace, KeyFilter, Quit, Finish
  <2>3. QED
    BY <1>1, <2>1, <2>2
<1>7. CASE Accept \/ DaemonStops \/ ReadReply
  <2>1. /\ UNCHANGED <<hand, registry, reader, rows>>
        /\ \/ inbox' = inbox \/ inbox' = Append(inbox, "close")
           \/ inbox' = inbox \o <<"accepted", "close">>
           \/ inbox # <<>> /\ inbox' = Tail(inbox)
    BY <1>7 DEF Accept, DaemonStops, ReadReply, tableVars, cliVars, daemonVars
  <2>2. QED
    BY <1>1, <2>1
<1>8. CASE Ended \/ UNCHANGED vars
  BY <1>1, <1>8 DEF Ended, vars, tableVars, cliVars, daemonVars
<1>9. QED
  BY <1>2, <1>3, <1>4, <1>5, <1>6, <1>7, <1>8 DEF Next

BaseInv == Typed /\ TableOK /\ OneIntent

\* Initially nothing was sent or shown.
LEMMA BaseInit == Init => BaseInv
<1> SUFFICES ASSUME Init PROVE BaseInv
  OBVIOUS
<1>1. Typed
  <2>1. auto \in BOOLEAN /\ cancelled \in BOOLEAN
    BY DEF Init
  <2>2. cli \in {"table", "collect"}
    BY DEF Init
  <2>3. inbox \in Seq(Messages)
    BY DEF Init
  <2>4. QED
    BY <2>1, <2>2, <2>3 DEF Init, Typed, Phases
<1>2. TableOK
  BY TableAssumption DEF Init, TableInit, TableOK, CursorVisible
<1>3. OneIntent
  BY DEF Init, TableInit, OneIntent
<1>4. QED
  BY <1>1, <1>2, <1>3 DEF BaseInv

\* Every step keeps BaseInv.
LEMMA BaseStep == BaseInv /\ [Next]_vars => BaseInv'
<1> SUFFICES ASSUME BaseInv, [Next]_vars PROVE BaseInv'
  OBVIOUS
<1> USE DEF BaseInv
<1>1. OneIntent'
  BY IntentStep
<1>2. CASE Ended \/ UNCHANGED vars
  <2>1. TableOK'
    BY <1>2, TableStep DEF Ended, vars, Typed
  <2>2. Typed'
    BY <1>2 DEF Ended, vars, cliVars, daemonVars, netVars, Typed
  <2>3. QED
    BY <1>1, <2>1, <2>2
<1>3. ASSUME Typed', UNCHANGED tableVars PROVE BaseInv'
  BY <1>1, <1>3, TableStep DEF Typed
<1>4. CASE \/ SendUpdate \/ ShowTable \/ PressKey \/ PressEnter \/ TableKilled \/ TableReturns
           \/ TableFails \/ Select \/ Collected \/ Accept \/ DaemonStops \/ ReadReply \/ AbortSetup
  <2>1. Typed'
    BY <1>4, CommandTyped
  <2>2. TableOK'
    BY <1>4, TableMoves, TableStep DEF Typed
  <2>3. QED
    BY <1>1, <2>1, <2>2
<1>5. QED
  BY <1>2, <1>3, <1>4, JoinerTyped, ReaderTyped DEF Next

\* BaseInv is inductive.
THEOREM BaseHolds == Spec => []BaseInv
  BY BaseInit, BaseStep, PTL DEF Spec

\* The state keeps its type. In particular the cursor of the table is on a row that
\* is displayed, while rows are inserted and the filter changes.
THEOREM TypeOKHolds == Spec => []TypeOK
<1>1. BaseInv => TypeOK
  <2> SUFFICES ASSUME BaseInv PROVE TypeOK
    OBVIOUS
  <2>1. /\ DOMAIN inbox = 1..Len(inbox) /\ DOMAIN rows = 1..Len(rows)
        /\ \A i \in 1..Len(inbox) : inbox[i] \in Messages
        /\ \A i \in 1..Len(rows) : rows[i] \in Joiners
    BY DEF BaseInv, Typed, TableOK
  <2>2. QED
    BY <2>1 DEF BaseInv, Typed, TableOK, TypeOK, Messages
<1>2. QED
  BY <1>1, BaseHolds, PTL

-----------------------------------------------------------------------------
(* Trust is mutual.                                                         *)

\* A step that neither selects, confirms nor accepts.
LEMMA TrustFramed ==
  ASSUME Typed, TrustInv, UNCHANGED <<asked, confirmed, told, registered>>,
         daemon' = "confirming" => daemon = "confirming",
         cli' \in {"table", "select", "collect"} => cli \in {"table", "select", "collect"},
         \/ inbox' = inbox
         \/ inbox # <<>> /\ inbox' = Tail(inbox)
         \/ \E m \in Messages \ {"accepted"} : inbox' = Append(inbox, m)
  PROVE  TrustInv'
<1>1. \A i \in 1..Len(inbox') : inbox'[i] = "accepted" =>
        \E k \in 1..Len(inbox) : inbox[k] = "accepted"
  <2>1. CASE inbox' = inbox
    BY <2>1
  <2>2. CASE inbox # <<>> /\ inbox' = Tail(inbox)
    BY <2>2, TailOfInbox DEF Typed
  <2>3. ASSUME NEW m \in Messages \ {"accepted"}, inbox' = Append(inbox, m)
        PROVE  \A i \in 1..Len(inbox') : inbox'[i] = "accepted" =>
                 \E k \in 1..Len(inbox) : inbox[k] = "accepted"
    BY <2>3, AppendToInbox DEF Typed
  <2>4. QED
    BY <2>1, <2>2, <2>3
<1>2. QED
  BY <1>1 DEF TrustInv, NobodyYet, EveryoneAsked, AcceptedLast, TrustMutual

\* The selection is sent once.
LEMMA TrustConfirmed ==
  ASSUME TrustInv, cli \in {"select", "collect"}, NEW S, SendConfirmed(S)
  PROVE  TrustInv'
<1>1. UNCHANGED <<inbox, told, registered>> /\ confirmed' = S
  BY DEF SendConfirmed
<1>2. /\ told = {} /\ registered = {} /\ asked = {} /\ daemon # "confirming"
      /\ \A i \in 1..Len(inbox) : inbox[i] # "accepted"
  BY DEF TrustInv, NobodyYet
<1>3. CASE daemon = "open"
  BY <1>1, <1>2, <1>3 DEF SendConfirmed, TrustInv, NobodyYet, EveryoneAsked, AcceptedLast,
     TrustMutual
<1>4. CASE daemon # "open"
  BY <1>1, <1>2, <1>4 DEF SendConfirmed, TrustInv, NobodyYet, EveryoneAsked, AcceptedLast,
     TrustMutual
<1>5. QED
  BY <1>3, <1>4

\* Every step keeps TrustInv.
LEMMA TrustStep ==
  ASSUME Typed, TrustInv, [Next]_vars PROVE TrustInv'
<1> DEFINE Early == {"table", "select", "collect"}
<1>1. ASSUME NEW j \in Joiners,
             \/ StartJoin(j) \/ Send(j) \/ Respond(j) \/ Lose(j) \/ Found(j) \/ TimesOut(j)
             \/ PostIntent(j) \/ Joined(j)
      PROVE  TrustInv'
  <2>1. /\ UNCHANGED <<asked, confirmed, told, registered, daemon, cli>>
        /\ inbox' = inbox \/ inbox' = Append(inbox, j)
    BY <1>1 DEF StartJoin, Send, Respond, Lose, Found, TimesOut, PostIntent, Joined, cliVars,
       daemonVars
  <2>2. j \in Messages \ {"accepted"}
    BY TrustAssumption DEF Messages
  <2>3. QED
    BY <2>1, <2>2, TrustFramed
<1>2. ASSUME NEW j \in Joiners, Confirm(j) PROVE TrustInv'
  <2>1. j \in asked /\ asked' = asked \ {j} /\ UNCHANGED <<confirmed, registered, cli>>
    BY <1>2 DEF Confirm, cliVars
  <2>2. cli \notin Early
    BY <2>1 DEF TrustInv, NobodyYet
  <2>3. CASE joiner[j] = "waiting"
    <3>1. told' = told \cup {j} /\ UNCHANGED <<daemon, inbox>>
      BY <1>2, <2>3 DEF Confirm
    <3>2. QED
      BY <2>1, <2>2, <3>1 DEF TrustInv, NobodyYet, EveryoneAsked, AcceptedLast, TrustMutual
  <2>4. CASE joiner[j] # "waiting"
    <3>1. daemon' = "closed" /\ inbox' \in {inbox, Append(inbox, "close")} /\ UNCHANGED told
      BY <1>2, <2>4 DEF Confirm
    <3>2. "close" \in Messages
      BY DEF Messages
    <3>3. \A i \in 1..Len(inbox') : inbox'[i] = "accepted" =>
            \E k \in 1..Len(inbox) : inbox[k] = "accepted"
      BY <3>1, <3>2, AppendToInbox DEF Typed
    <3>4. QED
      BY <2>1, <2>2, <3>1, <3>3 DEF TrustInv, NobodyYet, EveryoneAsked, AcceptedLast, TrustMutual
  <2>5. QED
    BY <2>3, <2>4
<1>3. CASE ReadIntent
  <2>1. /\ UNCHANGED <<asked, confirmed, told, registered, daemon>>
        /\ inbox # <<>> /\ inbox' = Tail(inbox) /\ cli' \in {cli, "crashed"}
    BY <1>3 DEF ReadIntent, daemonVars
  <2>2. QED
    BY <2>1, TrustFramed
<1>4. CASE \/ MapRace \/ ReaderExits \/ SendUpdate \/ ShowTable \/ PressKey \/ PressEnter
           \/ TableKilled \/ TableReturns \/ TableFails \/ AbortSetup
  <2>1. UNCHANGED <<asked, confirmed, told, registered, daemon, inbox>>
    BY <1>4 DEF MapRace, ReaderExits, SendUpdate, ShowTable, PressKey, PressEnter, TableKilled,
       TableReturns, TableFails, AbortSetup, StillReading, daemonVars
  <2>2. cli' \in Early => cli \in Early
    BY <1>4 DEF MapRace, ReaderExits, SendUpdate, ShowTable, PressKey, PressEnter, TableKilled,
       TableReturns, TableFails, AbortSetup
  <2>3. QED
    BY <2>1, <2>2, TrustFramed
<1>5. CASE Select \/ Collected
  <2>1. CASE \E S : SendConfirmed(S)
    BY <1>5, <2>1, TrustConfirmed DEF Select, Collected
  <2>2. CASE cli' = "failed" /\ UNCHANGED StillReading
    BY <2>2, TrustFramed DEF StillReading, daemonVars
  <2>3. QED
    BY <1>5, <2>1, <2>2 DEF Select, Collected
<1>6. CASE Accept
  <2>1. /\ daemon = "confirming" /\ asked = {} /\ daemon' = "closed"
        /\ UNCHANGED <<asked, confirmed, told, registered, cli>>
    BY <1>6 DEF Accept, AllConfirmed, cliVars
  <2>2. confirmed \subseteq told /\ cli \notin Early
    BY <2>1 DEF TrustInv, EveryoneAsked, NobodyYet
  <2>3. QED
    BY <2>1, <2>2 DEF TrustInv, NobodyYet, EveryoneAsked, AcceptedLast, TrustMutual
<1>7. CASE DaemonStops
  <2>1. /\ UNCHANGED <<asked, confirmed, told, registered, cli>> /\ daemon' = "closed"
        /\ inbox' = Append(inbox, "close") /\ "close" \in Messages \ {"accepted"}
    BY <1>7 DEF DaemonStops, cliVars, Messages
  <2>2. QED
    BY <2>1, TrustFramed
<1>8. CASE ReadReply
  <2>1. /\ UNCHANGED <<asked, confirmed, told, daemon>> /\ cli' \notin Early
        /\ inbox # <<>> /\ inbox' \in {inbox, Tail(inbox)}
    BY <1>8 DEF ReadReply, daemonVars
  <2>2. CASE Head(inbox) # "accepted"
    <3>1. registered' = registered
      BY <1>8, <2>2 DEF ReadReply
    <3>2. QED
      BY <2>1, <3>1, TrustFramed
  <2>3. CASE Head(inbox) = "accepted"
    <3>1. registered' = confirmed /\ inbox' = Tail(inbox)
      BY <1>8, <2>3 DEF ReadReply
    <3>2. 1 \in 1..Len(inbox) /\ inbox[1] = "accepted"
      BY <2>1, <2>3, <3>1, TailOfInbox DEF Typed
    <3>3. confirmed \subseteq told
      BY <3>2 DEF TrustInv, AcceptedLast
    <3>4. QED
      BY <2>1, <3>1, <3>3 DEF TrustInv, NobodyYet, EveryoneAsked, AcceptedLast, TrustMutual
  <2>4. QED
    BY <2>2, <2>3
<1>9. CASE Ended \/ UNCHANGED vars
  BY <1>9, TrustFramed DEF Ended, vars, cliVars, daemonVars
<1>10. QED
  BY <1>1, <1>2, <1>3, <1>4, <1>5, <1>6, <1>7, <1>8, <1>9 DEF Next

\* A system is registered for the setup only if it was confirmed and knows, however
\* the messages, the reading goroutine and the timeouts interleave.
THEOREM TrustMutualHolds == Spec => []TrustMutual
<1>1. Init => TrustInv
  BY DEF Init, TrustInv, NobodyYet, EveryoneAsked, AcceptedLast, TrustMutual
<1>2. TrustInv => TrustMutual
  BY DEF TrustInv
<1>3. BaseInv => Typed
  BY DEF BaseInv
<1>4. QED
  BY <1>1, <1>2, <1>3, TrustStep, BaseHolds, PTL DEF Spec

-----------------------------------------------------------------------------
(* Who is confirmed was selected.                                           *)

\* The table keeps what is selected and what was picked together.
LEMMA PickedStep ==
  ASSUME TableOK, OneIntent, hand \in Joiners \cup {Nil}, PickedActive, PickedRows,
         \/ Render \/ Key \/ Quit \/ Finish \/ (hand # Nil /\ Inserted(hand))
         \/ UNCHANGED tableVars
  PROVE  PickedActive' /\ PickedRows'
<1> USE DEF PickedActive, PickedRows
<1>1. ShownRight
  BY ShownOK DEF TableOK
<1>2. CASE /\ rows' = rows
           /\ \/ UNCHANGED <<activeRows, picked>>
              \/ activeRows' = {} /\ picked' = {}
  BY <1>2
<1>3. CASE Render \/ Quit \/ Finish \/ UNCHANGED tableVars
  BY <1>2, <1>3 DEF Render, Quit, Finish, tableVars
<1>4. CASE hand # Nil /\ Inserted(hand)
  <2>1. /\ Len(rows) \in Nat /\ Len(rows') = Len(rows) + 1 /\ rows'[Len(rows) + 1] = hand
        /\ \A i \in 1..Len(rows') : i # Len(rows) + 1 => i \in 1..Len(rows)
        /\ \A i \in 1..Len(rows) : i \in 1..Len(rows') /\ rows'[i] = rows[i]
        /\ UNCHANGED <<activeRows, picked>>
    BY <1>4 DEF Inserted, TableOK
  <2>2. hand \notin picked
    BY DEF OneIntent
  <2>3. Len(rows) + 1 \notin activeRows
    BY <2>1 DEF TableOK
  <2>4. PickedActive'
    BY <2>1, <2>2, <2>3
  <2>5. PickedRows'
    BY <2>1
  <2>6. QED
    BY <2>4, <2>5
<1>5. CASE Key
  <2>1. CASE KeyUp \/ KeyDown \/ KeyLeft \/ KeyFilter
    BY <1>2, <2>1 DEF KeyUp, KeyDown, KeyLeft, KeyFilter
  <2>2. CASE KeyRight
    <3>1. /\ activeRows' = activeRows \cup {Shown[i] : i \in 1..Cardinality(Matching)}
          /\ picked' = picked \cup {rows[Shown[i]] : i \in 1..Cardinality(Matching)}
          /\ rows' = rows
      BY <1>1, <2>2 DEF KeyRight, ShownRight
    <3>2. \A i \in 1..Cardinality(Matching) : Shown[i] \in 1..Len(rows)
      BY <1>1 DEF ShownRight
    <3>3. QED
      BY <3>1, <3>2 DEF OneIntent
  <2>3. CASE KeySpace
    <3>1. currentRow + 1 \in 1..Cardinality(Matching)
      BY <1>1, <2>3 DEF KeySpace, CursorVisible, ShownRight, TableOK
    <3>2. /\ CurrentIndex \in 1..Len(rows)
          /\ Display[currentRow + 1] = rows[CurrentIndex]
      BY <1>1, <3>1 DEF CurrentIndex, ShownRight
    <3>3. /\ activeRows' = Toggle(activeRows, CurrentIndex)
          /\ picked' = Toggle(picked, rows[CurrentIndex]) /\ rows' = rows
      BY <2>3, <3>2 DEF KeySpace
    <3>4. \A i \in 1..Len(rows) : rows[i] = rows[CurrentIndex] => i = CurrentIndex
      BY <3>2 DEF OneIntent
    <3>5. PickedActive'
      BY <3>2, <3>3, <3>4 DEF Toggle
    <3>6. PickedRows'
      BY <3>2, <3>3 DEF Toggle
    <3>7. QED
      BY <3>5, <3>6
  <2>4. QED
    BY <1>5, <2>1, <2>2, <2>3 DEF Key
<1>6. QED
  BY <1>3, <1>4, <1>5

\* The table belongs to the selection: after it nothing is picked any more.
LEMMA TableStays ==
  ASSUME Typed, TableOK, OneIntent, [Next]_vars
  PROVE  /\ \/ Render \/ Key \/ Quit \/ Finish \/ (hand # Nil /\ Inserted(hand))
            \/ UNCHANGED tableVars
         /\ cli # "table" => picked' = picked
<1>1. ASSUME UNCHANGED tableVars
      PROVE  picked' = picked
  BY <1>1 DEF tableVars
<1>2. CASE Ended \/ UNCHANGED vars
  BY <1>1, <1>2 DEF Ended, vars
<1>3. CASE \E j \in Joiners :
             \/ StartJoin(j) \/ Send(j) \/ Respond(j) \/ Lose(j) \/ Found(j) \/ TimesOut(j)
             \/ PostIntent(j) \/ Confirm(j) \/ Joined(j)
  BY <1>1, <1>3, JoinerTyped
<1>4. CASE ReadIntent \/ MapRace \/ ReaderExits
  BY <1>1, <1>4, ReaderTyped
<1>5. CASE \/ SendUpdate \/ ShowTable \/ PressKey \/ PressEnter \/ TableKilled \/ TableReturns
           \/ TableFails \/ Select \/ Collected \/ Accept \/ DaemonStops \/ ReadReply \/ AbortSetup
  <2>1. cli # "table" => picked' = picked
    BY <1>5 DEF SendUpdate, ShowTable, PressKey, PressEnter, TableKilled, TableReturns, TableFails, Select,
       Collected, Accept, DaemonStops, ReadReply, AbortSetup, SendConfirmed, Inserted, tableVars
  <2>2. QED
    BY <1>5, <2>1, TableMoves
<1>6. QED
  BY <1>2, <1>3, <1>4, <1>5 DEF Next

\* An intent is kept under the name of its system.
LEMMA KeptStep ==
  ASSUME Typed, KeptByName, [Next]_vars PROVE KeptByName'
<1>1. CASE UNCHANGED joinIntents
  BY <1>1 DEF KeptByName
<1>2. CASE ReadIntent
  <2> DEFINE j == Head(inbox)
  <2>1. j = "accepted" \/ j \in Joiners
    BY <1>2, InboxTyped DEF ReadIntent, Messages, Typed
  <2>2. UNCHANGED joinIntents \/ (j \in Joiners /\ joinIntents' = [joinIntents EXCEPT ![NameOf[j]] = j])
    BY <1>2, <2>1 DEF ReadIntent
  <2>3. CASE j \in Joiners /\ joinIntents' = [joinIntents EXCEPT ![NameOf[j]] = j]
    BY <2>3 DEF KeptByName, Typed
  <2>4. QED
    BY <1>1, <2>2, <2>3
<1>3. CASE ~ReadIntent
  <2>1. CASE \/ Ended \/ UNCHANGED vars \/ MapRace \/ ReaderExits \/ SendUpdate \/ ShowTable
             \/ PressKey \/ PressEnter \/ TableKilled \/ TableReturns \/ TableFails \/ AbortSetup
    BY <1>1, <2>1 DEF Ended, vars, cliVars, MapRace, ReaderExits, SendUpdate, ShowTable,
       PressKey, PressEnter, TableKilled, TableReturns, TableFails, AbortSetup, StillReading
  <2>2. CASE Select \/ Collected \/ Accept \/ DaemonStops \/ ReadReply
    BY <1>1, <2>2 DEF Select, Collected, Accept, DaemonStops, ReadReply, SendConfirmed,
       StillReading, cliVars
  <2>3. ASSUME NEW j \in Joiners,
               \/ StartJoin(j) \/ Send(j) \/ Respond(j) \/ Lose(j) \/ Found(j) \/ TimesOut(j)
               \/ PostIntent(j) \/ Confirm(j) \/ Joined(j)
        PROVE  UNCHANGED joinIntents
    BY <2>3 DEF StartJoin, Send, Respond, Lose, Found, TimesOut, PostIntent, Confirm, Joined,
       cliVars
  <2>4. QED
    BY <1>1, <1>3, <2>1, <2>2, <2>3 DEF Next
<1>4. QED
  BY <1>2, <1>3

\* The confirmation goes by the selection.
LEMMA AsPickedStep ==
  ASSUME Typed, TableOK, OneIntent, TrustInv, PickInv, [Next]_vars PROVE AsPicked'
<1> USE DEF PickInv
<1>1. cli # "table" => picked' = picked
  BY TableStays
<1>2. cli = "table" => confirmed = {}
  BY DEF TrustInv, NobodyYet
\* The command does not go back.
<1>3. ASSUME UNCHANGED <<auto, confirmed>>, cli' \in {"table", "collect"} => cli' = cli,
             cli' = "select" => cli = "select" /\ chosen' = chosen
      PROVE  AsPicked'
  BY <1>1, <1>2, <1>3 DEF AsPicked
<1>4. CASE TableReturns
  <2>1. /\ UNCHANGED <<auto, confirmed, picked>> /\ chosen' = Answers /\ cli = "table"
        /\ cli' \in {"table", "select", "failed"}
    BY <1>4 DEF TableReturns, Finish, StillReading
  <2>2. Answers \subseteq picked
    BY DEF Answers, PickedActive, TableOK
  <2>3. QED
    BY <1>2, <2>1, <2>2 DEF AsPicked
<1>5. CASE Select
  <2>1. /\ cli = "select" /\ UNCHANGED auto /\ confirmed' = Selected /\ cli' \in {"reply", "failed"}
    BY <1>5 DEF Select, SendConfirmed
  <2>2. ASSUME NEW j \in Selected PROVE NameOf[j] \in {NameOf[c] : c \in picked}
    <3>1. PICK c \in chosen : j = joinIntents[NameOf[c]] /\ j # Nil
      BY DEF Selected
    <3>2. NameOf[c] \in Names
      BY DEF Names, Typed
    <3>3. NameOf[j] = NameOf[c]
      BY <3>1, <3>2 DEF KeptByName
    <3>4. QED
      BY <2>1, <3>3 DEF AsPicked
  <2>3. QED
    BY <1>1, <2>1, <2>2 DEF AsPicked
<1>6. CASE Collected
  <2>1. CASE \A n \in Expected : joinIntents[n] # Nil
    <3>1. /\ cli = "collect" /\ UNCHANGED auto /\ cli' \in {"reply", "failed"}
          /\ confirmed' = {joinIntents[n] : n \in Expected}
      BY <1>6, <2>1 DEF Collected, SendConfirmed
    <3>2. \A n \in Expected : NameOf[joinIntents[n]] = n
      BY <2>1 DEF KeptByName, Names
    <3>3. QED
      BY <3>1, <3>2 DEF AsPicked
  <2>2. CASE ~(\A n \in Expected : joinIntents[n] # Nil)
    BY <1>3, <1>6, <2>2 DEF Collected, StillReading
  <2>3. QED
    BY <2>1, <2>2
<1>7. CASE \/ ReadIntent \/ MapRace \/ ReaderExits \/ SendUpdate \/ AbortSetup \/ ReadReply
  BY <1>3, <1>7 DEF ReadIntent, MapRace, ReaderExits, SendUpdate, AbortSetup, ReadReply
<1>8. CASE ShowTable \/ PressKey \/ PressEnter \/ TableKilled
  BY <1>3, <1>8 DEF ShowTable, PressKey, PressEnter, TableKilled, StillReading
<1>12. CASE TableFails
  BY <1>2, <1>12 DEF TableFails, StillReading, tableVars, AsPicked
<1>9. CASE Accept \/ DaemonStops \/ Ended \/ UNCHANGED vars
  BY <1>3, <1>9 DEF Accept, DaemonStops, Ended, vars, cliVars
<1>10. ASSUME NEW j \in Joiners,
              \/ StartJoin(j) \/ Send(j) \/ Respond(j) \/ Lose(j) \/ Found(j) \/ TimesOut(j)
              \/ PostIntent(j) \/ Confirm(j) \/ Joined(j)
       PROVE  AsPicked'
  BY <1>3, <1>10 DEF StartJoin, Send, Respond, Lose, Found, TimesOut, PostIntent, Confirm,
     Joined, cliVars
<1>11. QED
  BY <1>4, <1>5, <1>6, <1>7, <1>8, <1>9, <1>10, <1>12 DEF Next

\* Only systems of a name that the user has selected, with the cursor on the row and
\* whatever filter, are sent the initiator's confirmation; or of a name in the preseed.
THEOREM ConfirmedAsSelectedHolds == Spec => []ConfirmedAsSelected
<1>1. Init => TrustInv /\ PickInv
  BY DEF Init, TableInit, TrustInv, NobodyYet, EveryoneAsked, AcceptedLast, TrustMutual,
     PickInv, PickedActive, PickedRows, KeptByName, AsPicked
<1>2. BaseInv /\ TrustInv /\ PickInv /\ [Next]_vars => TrustInv' /\ PickInv'
  <2> SUFFICES ASSUME BaseInv, TrustInv, PickInv, [Next]_vars PROVE TrustInv' /\ PickInv'
    OBVIOUS
  <2>1. PickedActive' /\ PickedRows'
    BY TableStays, PickedStep DEF BaseInv, PickInv, Typed
  <2>2. QED
    BY <2>1, TrustStep, KeptStep, AsPickedStep DEF BaseInv, PickInv
<1>3. TrustInv /\ PickInv => ConfirmedAsSelected
  BY DEF TrustInv, TrustMutual, PickInv, AsPicked, ConfirmedAsSelected
<1>4. QED
  BY <1>1, <1>2, <1>3, BaseHolds, PTL DEF Spec
==============================================================================
