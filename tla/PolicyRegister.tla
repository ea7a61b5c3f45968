--------------------------- MODULE PolicyRegister ---------------------------
(***************************************************************************)
(* What the remote configuration promises: a register that holds one       *)
(* document and a saved copy of it.  While the process runs, a document    *)
(* only makes way for one whose revision is at least as high; a restart    *)
(* brings back the copy that was saved, or no document at all, and never   *)
(* any third one.  Only a document that passes validation is ever held.    *)
(***************************************************************************)
EXTENDS Naturals

CONSTANTS
  Valid,       \* the documents that pass validation
  Rev,         \* the revision of each document
  Nothing      \* the register before it has been given one

VARIABLES
  current,     \* the document in force
  saved        \* the copy a restart will find

vars == <<current, saved>>

Init ==
  /\ current = Nothing
  /\ saved = Nothing

Adopt(d) ==
  /\ d \in Valid
  /\ current # Nothing => Rev[d] >= Rev[current]
  /\ current' = d
  /\ UNCHANGED saved

Save ==
  /\ current # Nothing
  /\ saved' = current
  /\ UNCHANGED current

Restart ==
  /\ current' \in {saved, Nothing}
  /\ saved' \in {saved, Nothing}

Next ==
  \/ \E d \in Valid : Adopt(d)
  \/ Save
  \/ Restart

Spec == Init /\ [][Next]_vars
=============================================================================
