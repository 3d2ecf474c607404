------------------------------ MODULE Columns ------------------------------
(***************************************************************************)
(* What the ORM writes when a changed object is flushed. The UPDATE names  *)
(* only the columns whose value differs from the one the ORM session       *)
(* loaded; every other column keeps what the database holds by then.       *)
(***************************************************************************)

Column(stored, before, new) == IF new = before THEN stored ELSE new

\* A plausible bug: every column is written back, as a merge() would.
PatchWholeRow(stored, before, new) == new

PatchRow(stored, before, new) ==
    [c \in DOMAIN stored |-> Column(stored[c], before[c], new[c])]
=============================================================================
