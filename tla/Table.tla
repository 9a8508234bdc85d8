-------------------------------- MODULE Table --------------------------------
(* The selectable table of the CLI (cmd/tui/selectable_table.go): rows that    *)
(* appear while the user moves, filters and selects. What is selected are      *)
(* indexes of all rows, what the cursor is on is an index of the rows shown.   *)
(*                                                                             *)
(* A filter is the set of rows that contain the text. No code sends the        *)
(* messages that remove, disable or enable a row, so no row is disabled.       *)
EXTENDS Listing, Sequences

CONSTANTS Rows,       \* what rows can be
          Filters,    \* what can be typed, Rows for nothing
          Size        \* rows that are displayed at once

ASSUME TableAssumption == Filters \subseteq SUBSET Rows /\ Rows \in Filters /\ Size \in Nat \ {0}

VARIABLES rows,         \* rawRows
          activeRows,   \* indexes of rows
          filter,
          currentRow,   \* the cursor, from 0, in the rows that the filter lets through
          startIndex,   \* the first of them that is displayed
          program,      \* the bubbletea program: "nil", "running" or "quit"
          picked        \* the rows that the user saw under the cursor and selected

tableVars == <<rows, activeRows, filter, currentRow, startIndex, program, picked>>

\* filterRows: the rows that the filter lets through, in the order of all rows:
\* filterMap, from their indexes to those of all rows, and formatRows.
Matching == {i \in 1..Len(rows) : rows[i] \in filter}
Shown == Listing(Matching)
Display == [i \in 1..Cardinality(Matching) |-> rows[Shown[i]]]

TableInit == /\ rows = <<>> /\ activeRows = {} /\ filter = Rows
             /\ currentRow = 0 /\ startIndex = 0 /\ program = "nil" /\ picked = {}

\* Render and Init: the rows stay, everything else is reset.
Render == /\ program = "nil"
          /\ program' = "running"
          /\ activeRows' = {} /\ picked' = {}
          /\ filter' = Rows /\ currentRow' = 0 /\ startIndex' = 0
          /\ UNCHANGED rows

\* The rows that Render returns.
Answers == {rows[i] : i \in activeRows}

Inserted(row) == /\ rows' = Append(rows, row)
                 /\ UNCHANGED <<activeRows, filter, currentRow, startIndex, program, picked>>

KeyUp == /\ currentRow > 0
         /\ currentRow' = currentRow - 1
         /\ startIndex' = IF currentRow - 1 < startIndex THEN startIndex - 1 ELSE startIndex
         /\ UNCHANGED <<rows, activeRows, filter, picked>>

KeyDown == /\ currentRow + 1 < Len(Shown)
           /\ currentRow' = currentRow + 1
           /\ startIndex' = IF currentRow + 1 > startIndex + (Size - 1) THEN startIndex + 1 ELSE startIndex
           /\ UNCHANGED <<rows, activeRows, filter, picked>>

KeyLeft == /\ activeRows' = {} /\ picked' = {}
           /\ UNCHANGED <<rows, filter, currentRow, startIndex>>

KeyRight == /\ activeRows' = activeRows \cup {Shown[i] : i \in 1..Len(Shown)}
            /\ picked' = picked \cup {Display[i] : i \in 1..Len(Display)}
            /\ UNCHANGED <<rows, filter, currentRow, startIndex>>

\* Mutant: the cursor is taken for an index of all rows.
CursorRow == currentRow + 1

\* The index of the row that the cursor is on.
CurrentIndex == Shown[currentRow + 1]

Toggle(S, e) == IF e \in S THEN S \ {e} ELSE S \cup {e}

KeySpace == /\ Shown # <<>>
            /\ activeRows' = Toggle(activeRows, CurrentIndex)
            /\ picked' = Toggle(picked, Display[currentRow + 1])
            /\ UNCHANGED <<rows, filter, currentRow, startIndex>>

\* Mutant: the cursor stays where it was.
KeyFilterKeepsCursor == /\ filter' \in Filters
                        /\ UNCHANGED <<rows, activeRows, picked, currentRow, startIndex>>

\* A character more or less in the filter, with which other rows may match or the same.
KeyFilter == /\ filter' \in Filters
             /\ currentRow' = 0 /\ startIndex' = 0
             /\ UNCHANGED <<rows, activeRows, picked>>

\* Enter ends the program with what is selected, Esc with nothing.
Quit == /\ program' = "quit"
        /\ \/ UNCHANGED <<activeRows, picked>>
           \/ activeRows' = {} /\ picked' = {}
        /\ UNCHANGED <<rows, filter, currentRow, startIndex>>

Finish == /\ program = "quit" /\ program' = "nil"
          /\ UNCHANGED <<rows, activeRows, filter, currentRow, startIndex, picked>>

\* Keys that do not end the program.
Key == /\ program = "running"
       /\ KeyUp \/ KeyDown \/ KeyLeft \/ KeyRight \/ KeySpace \/ KeyFilter
       /\ UNCHANGED program

\* The cursor is on a row that is displayed.
CursorVisible == /\ currentRow = 0 \/ currentRow < Len(Shown)
                 /\ startIndex <= currentRow /\ currentRow < startIndex + Size
==============================================================================
