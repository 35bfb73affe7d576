------------------------------ MODULE Terminal ------------------------------
(***************************************************************************)
(* What a reader of the screen sees: rows of characters and a cursor.  A   *)
(* line feed on the last row moves the rows up, but every (Lap + 1)-th     *)
(* time, when the window returns to the start of video memory, it does     *)
(* nothing; a terminal without that has Lap = 0 and DropsFeed = FALSE.     *)
(***************************************************************************)
EXTENDS Naturals

CONSTANTS Width, Height, Space, Letters,
          DropsFeed, \* does the window ever return?
          Lap        \* how many times the rows move up before it does

Row == 0 .. (Height - 1)
Col == 0 .. (Width - 1)

VARIABLES shown, \* the character in each place
          x, y,  \* the cursor; x = Width when the row is full
          moved  \* how often the rows have moved since the last return

vars == <<shown, x, y, moved>>

EmptyRow == [c \in Col |-> Space]

Init == /\ shown = [r \in Row |-> EmptyRow]
        /\ x = 0 /\ y = 0 /\ moved = 0

AtBottom == y = Height - 1
Dropped == AtBottom /\ DropsFeed /\ moved = Lap

(* The screen, the row of the cursor and the count after a line feed. *)
FedShown == IF AtBottom /\ ~Dropped
            THEN [r \in Row |-> IF r = Height - 1 THEN EmptyRow ELSE shown[r + 1]]
            ELSE shown
FedY == IF AtBottom THEN y ELSE y + 1
FedMoved == IF ~AtBottom THEN moved
            ELSE IF Dropped \/ ~DropsFeed THEN 0 ELSE moved + 1

LineFeed == shown' = FedShown /\ y' = FedY /\ moved' = FedMoved /\ x' = 0

Backspace ==
  /\ x > 0
  /\ x' = x - 1
  /\ shown' = [shown EXCEPT ![y][x - 1] = Space]
  /\ UNCHANGED <<y, moved>>

Put(ch) ==
  \/ /\ x < Width
     /\ shown' = [shown EXCEPT ![y][x] = ch]
     /\ x' = x + 1 /\ UNCHANGED <<y, moved>>
  \/ /\ x = Width
     /\ shown' = [FedShown EXCEPT ![FedY][0] = ch]
     /\ y' = FedY /\ moved' = FedMoved /\ x' = 1

Next == LineFeed \/ Backspace \/ \E ch \in Letters : Put(ch)

Spec == Init /\ [][Next]_vars

=============================================================================
