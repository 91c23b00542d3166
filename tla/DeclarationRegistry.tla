------------------------ MODULE DeclarationRegistry ------------------------
(***************************************************************************)
(* What the declaration table promises its readers, without requests,      *)
(* transactions, engines or tasks: identifiers enter the board a batch at  *)
(* a time, leave it one at a time, and never return.                       *)
(***************************************************************************)
CONSTANTS
  Id,    \* the identifiers
  Batch  \* the sets of identifiers that enter together

VARIABLES
  board, \* the identifiers anyone can read
  gone   \* the identifiers that were removed

Init == board = {} /\ gone = {}

Enter(B) ==
  /\ B \subseteq Id
  /\ B \cap (board \cup gone) = {}
  /\ board' = board \cup B
  /\ UNCHANGED gone

Leave(d) ==
  /\ d \in board
  /\ board' = board \ {d}
  /\ gone' = gone \cup {d}

Next == (\E B \in Batch : Enter(B)) \/ (\E d \in board : Leave(d))

Spec == Init /\ [][Next]_<<board, gone>>

=============================================================================
