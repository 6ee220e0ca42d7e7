----------------------------- MODULE MCPublish ------------------------------
(***************************************************************************)
(* The two halves of bmq_publish_row() that stay inside the process, one   *)
(* after the other: RowMapping over every row of up to two columns, of     *)
(* every type, null or not, dropped or not, and every attribute list over  *)
(* three names, one of which may be the name of no column; then Session    *)
(* over every sequence of calls, which is explored after the empty row     *)
(* only, for neither half reads or writes the state of the other.          *)
(***************************************************************************)
EXTENDS Session, RowMapping

MaxColumns == 2

MCRows  == UNION {[1..n -> Column] : n \in 0..MaxColumns}
MCAttrs == (SUBSET Name) \cup {AllColumns}

EmptyRowMapped == row = <<>> /\ attr_columns = AllColumns /\ at = "done"

MCInit == SessionInit /\ RowInit(MCRows, MCAttrs)
MCNext ==
  \/ RowNext /\ UNCHANGED sessionVars
  \/ EmptyRowMapped /\ SessionNext /\ UNCHANGED rowVars
MCSpec == MCInit /\ [][MCNext]_<<sessionVars, rowVars>>
=============================================================================
