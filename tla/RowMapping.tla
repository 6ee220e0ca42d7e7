----------------------------- MODULE RowMapping -----------------------------
(***************************************************************************)
(* bmq_publish_row() up to the network: one pass over the row's columns    *)
(* that promotes some of them to typed message properties and packs all of *)
(* them into the payload, then the call that sends the result.             *)
(*                                                                         *)
(* A value is opaque; what a conversion makes of it is the pair of the     *)
(* target type and the value.  Column names of a row are distinct, so the  *)
(* properties and the payload map are sets of <<name, converted value>>.   *)
(***************************************************************************)
EXTENDS Naturals, Sequences

CONSTANTS
  Name,      \* column names
  Value,     \* non-null column values
  NULL,      \* the SQL null
  AllColumns \* attr_columns not given

TextTypes == {"text", "varchar", "bpchar"}
Type      == {"bool", "int2", "int4", "int8", "float4", "float8", "other"} \cup TextTypes
Column    == [name : Name, type : Type, value : Value \cup {NULL}, dropped : BOOLEAN]

ASSUME RowAssumption ==
  /\ NULL \notin Value
  /\ \A S \in SUBSET Name : AllColumns # S

VARIABLES
  row,          \* the columns of the row, in TupleDesc order
  attr_columns, \* the requested attribute names, or AllColumns
  i,            \* the column the loop is at
  props,        \* message properties set so far
  refused,      \* ghost: columns whose setPropertyAs...() the SDK did not take
  row_map,      \* payload entries so far
  at,           \* where the call is, or how it ended
  contacted,    \* the broker has been talked to
  pins          \* references held on the row's tuple descriptor

rowVars == <<row, attr_columns, i, props, refused, row_map, at, contacted, pins>>

(***************************************************************************)
(* set_message_property() and datum_to_dyn_value()                         *)
(***************************************************************************)
PropertyType ==
  [t \in {"bool", "int2", "int4", "int8"} \cup TextTypes |->
     CASE t = "bool" -> "Bool"
       [] t = "int2" -> "Short"
       [] t = "int4" -> "Int32"
       [] t = "int8" -> "Int64"
       [] OTHER -> "String"]

\* set_message_property() returned true.
Promotable(c) == c.value # NULL /\ c.type \in DOMAIN PropertyType

Property(c) == <<c.name, PropertyType[c.type], c.value>>

PayloadType ==
  [t \in Type |->
     CASE t = "bool" -> "bool"
       [] t \in {"int2", "int4", "int8"} -> "int64"
       [] t \in {"float4", "float8"} -> "double"
       [] OTHER -> "string"]

\* A type without a mapping of its own goes through its output function.
Payload(c) ==
  CASE c.value = NULL -> <<"null">>
    [] c.value # NULL /\ c.type = "other" -> <<"string", <<"output of", c.value>>>>
    [] OTHER -> <<PayloadType[c.type], c.value>>

(***************************************************************************)
(* bmq_publish_row()                                                       *)
(***************************************************************************)
AttrsExplicit == attr_columns # AllColumns

\* Mutant: columns that were not asked for become attributes, too.
WantAnyAttr(c) == TRUE

WantAttr(c) == AttrsExplicit => c.name \in attr_columns

\* Mutant: the default branch of set_message_property() returns true.
RejectedForNull(c) == AttrsExplicit /\ WantAttr(c) /\ c.value = NULL

\* A named column that set_message_property() did not take.
Rejected(c) == AttrsExplicit /\ WantAttr(c) /\ ~Promotable(c)

DistinctNames(r) == \A j, k \in 1..Len(r) : r[j].name = r[k].name => j = k

RowInit(Rows, Attrs) ==
  /\ row \in {r \in Rows : DistinctNames(r)}
  /\ attr_columns \in Attrs
  /\ i = 1
  /\ props = {} /\ refused = {} /\ row_map = {}
  /\ at = "loop"
  /\ contacted = FALSE
  /\ pins = 1

\* The try block is left: its exits with an error of their own, and the handlers,
\* each release the descriptor, as the common exit does.
Leave(from, to) == at \in from /\ at' = to /\ pins' = pins - 1

SkipDropped ==
  /\ at = "loop" /\ i <= Len(row)
  /\ row[i].dropped
  /\ i' = i + 1
  /\ UNCHANGED <<row, attr_columns, props, refused, row_map, at, contacted, pins>>

\* An explicitly named column that cannot be an attribute: ERROR.
RejectColumn ==
  /\ i <= Len(row)
  /\ ~row[i].dropped /\ Rejected(row[i])
  /\ Leave({"loop"}, "rejected")
  /\ UNCHANGED <<row, attr_columns, i, props, refused, row_map, contacted>>

\* The property of column i.  The result of setPropertyAs...() is not looked at:
\* a property the SDK does not take is missing, and the call goes on.
Promote(c) ==
  \/ /\ WantAttr(c) /\ Promotable(c)
     /\ props' = props \cup {Property(c)}
     /\ UNCHANGED refused
  \/ /\ WantAttr(c) /\ Promotable(c)
     /\ refused' = refused \cup {i}
     /\ UNCHANGED props
  \/ /\ ~(WantAttr(c) /\ Promotable(c))
     /\ UNCHANGED <<props, refused>>

\* Mutant: only promoted columns go into the payload.
MapColumnAttrOnly ==
  /\ at = "loop" /\ i <= Len(row)
  /\ ~row[i].dropped /\ ~Rejected(row[i])
  /\ LET c == row[i]
     IN /\ Promote(c)
        /\ row_map' = IF WantAttr(c) /\ Promotable(c)
                        THEN row_map \cup {<<c.name, Payload(c)>>} ELSE row_map
  /\ i' = i + 1
  /\ UNCHANGED <<row, attr_columns, at, contacted, pins>>

MapColumn ==
  /\ at = "loop" /\ i <= Len(row)
  /\ ~row[i].dropped /\ ~Rejected(row[i])
  /\ Promote(row[i])
  /\ row_map' = row_map \cup {<<row[i].name, Payload(row[i])>>}
  /\ i' = i + 1
  /\ UNCHANGED <<row, attr_columns, at, contacted, pins>>

\* Detoasting the value, looking up the type's output function or calling it
\* raised: a PostgreSQL ERROR is no C++ exception and passes the handlers by.
ConversionRaises ==
  /\ at = "loop" /\ i <= Len(row)
  /\ ~row[i].dropped /\ ~Rejected(row[i])
  /\ at' = "raised"
  /\ UNCHANGED <<row, attr_columns, i, props, refused, row_map, contacted, pins>>

\* The aborted transaction's resource owner gives back what is still pinned.
ResourceOwnerReleases ==
  /\ at = "raised" /\ pins > 0
  /\ pins' = 0
  /\ UNCHANGED <<row, attr_columns, i, props, refused, row_map, at, contacted>>

Serialized ==
  /\ at = "loop" /\ i > Len(row)
  /\ at' = "send"
  /\ UNCHANGED <<row, attr_columns, i, props, refused, row_map, contacted, pins>>

\* get_session() and get_queue() have returned, the builder holds the message.
QueueReady ==
  /\ at = "send"
  /\ at' = "pack"
  /\ contacted' = TRUE
  /\ UNCHANGED <<row, attr_columns, i, props, refused, row_map, pins>>

Packed ==
  /\ at = "pack"
  /\ at' = "post"
  /\ UNCHANGED <<row, attr_columns, i, props, refused, row_map, contacted, pins>>

PackFails ==
  /\ Leave({"pack"}, "error")
  /\ UNCHANGED <<row, attr_columns, i, props, refused, row_map, contacted>>

\* Mutant: a failed post() is only a WARNING, and the common exit follows.
PostFailureFallsThrough ==
  /\ Leave({"post"}, "post")
  /\ UNCHANGED <<row, attr_columns, i, props, refused, row_map, contacted>>

PostFails ==
  /\ Leave({"post"}, "error")
  /\ UNCHANGED <<row, attr_columns, i, props, refused, row_map, contacted>>

\* catch (const std::exception&) and catch (...): anything of the try block may
\* throw, get_session() and get_queue() for one, or run out of memory.
Caught ==
  /\ Leave({"loop", "send", "pack", "post"}, "error")
  /\ contacted' \in {contacted, at # "loop"}
  /\ UNCHANGED <<row, attr_columns, i, props, refused, row_map>>

CaughtUnknown ==
  /\ Leave({"loop", "send", "pack", "post"}, "error")
  /\ contacted' \in {contacted, at # "loop"}
  /\ UNCHANGED <<row, attr_columns, i, props, refused, row_map>>

\* post() took the message; the common exit.
Posted ==
  /\ Leave({"post"}, "done")
  /\ UNCHANGED <<row, attr_columns, i, props, refused, row_map, contacted>>

RowNext ==
  \/ SkipDropped \/ RejectColumn \/ MapColumn \/ ConversionRaises \/ ResourceOwnerReleases
  \/ Serialized \/ QueueReady \/ Packed \/ PackFails \/ PostFails
  \/ Caught \/ CaughtUnknown \/ Posted

RowSpec == RowInit(Seq(Column), (SUBSET Name) \cup {AllColumns}) /\ [][RowNext]_rowVars

-----------------------------------------------------------------------------
(***************************************************************************)
(* Properties, against a definition of the result by the row as a whole    *)
(***************************************************************************)
Present(n) == {k \in 1..n : ~row[k].dropped}

\* From here on the row has been mapped.
Mapped == at \in {"send", "pack", "post", "done"}

\* The type invariant of the row being mapped: none of the ways out releases the
\* tuple descriptor a second time.
RowTypeOK ==
  /\ row \in Seq(Column)
  /\ attr_columns = AllColumns \/ attr_columns \in SUBSET Name
  /\ i \in 1..(Len(row) + 1)
  /\ at \in {"loop", "send", "pack", "post", "done", "rejected", "raised", "error"}
  /\ refused \subseteq 1..Len(row)
  /\ contacted \in BOOLEAN
  /\ pins \in {0, 1}

\* What leaves the loop is the whole row: every column that is not dropped is in
\* the payload, whether or not it can be an attribute, and nothing else is.
PayloadIsRow ==
  Mapped =>
    row_map = {<<row[k].name, Payload(row[k])>> : k \in Present(Len(row))}

\* The properties are exactly the requested columns of an eligible type that are
\* not null, less those the SDK refused without anybody looking; each keeps its
\* own type.
PropsExact ==
  Mapped =>
    props = {Property(row[k]) : k \in {j \in Present(Len(row)) \ refused :
               /\ AttrsExplicit => row[j].name \in attr_columns
               /\ row[j].type \notin {"float4", "float8", "other"}
               /\ row[j].value # NULL}}

\* A call that names its attributes talks to the broker only if every named column
\* it has could be one, wherever in the row the offending one is: README.md has
\* the error "raised before any network call".  A null counts as offending, see
\* NullOmitted.
RejectedBeforeSend ==
  contacted =>
    \A k \in Present(Len(row)) :
      AttrsExplicit /\ row[k].name \in attr_columns =>
        row[k].value # NULL /\ row[k].type \notin {"float4", "float8", "other"}

\* pg_blazingmq.cpp, on a null in set_message_property(): "BlazingMQ properties
\* have no null variant; omit."  A row is rejected for the type of a column only.
NullOmitted ==
  at = "rejected" =>
    \E k \in Present(Len(row)) :
      row[k].name \in attr_columns /\ row[k].type \notin DOMAIN PropertyType

(***************************************************************************)
(* The loop invariant: the properties above for the columns before i.      *)
(***************************************************************************)
Wanted(n) == {k \in Present(n) : WantAttr(row[k]) /\ Promotable(row[k])}

LoopInv ==
  /\ row_map = {<<row[k].name, Payload(row[k])>> : k \in Present(i - 1)}
  /\ props = {Property(row[k]) : k \in Wanted(i - 1) \ refused}
  /\ refused \subseteq 1..(i - 1)
  /\ \A k \in Present(i - 1) : ~Rejected(row[k])

\* The descriptor is pinned until the call is left, and when a PostgreSQL ERROR
\* passed the handlers by, until the transaction is cleaned up.
PinInvariant ==
  /\ at \in {"loop", "send", "pack", "post"} => pins = 1
  /\ at \in {"done", "rejected", "error"} => pins = 0

\* The inductive invariant of bmq_publish_row's pass over the row.
RowIInv ==
  /\ LoopInv
  /\ Mapped \/ contacted => i = Len(row) + 1
  /\ at \in {"loop", "send"} => ~contacted
=============================================================================
