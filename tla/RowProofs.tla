----------------------------- MODULE RowProofs -----------------------------
(***************************************************************************)
(* Proofs about bmq_publish_row's pass over a row, for rows of any length  *)
(* and any attribute list.                                                 *)
(***************************************************************************)
EXTENDS RowMapping, TLAPS

\* RowTypeOK is inductive together with PinInvariant: the loop never runs past
\* the row, and whichever of its exits the call takes, the descriptor is released
\* once.
THEOREM RowTypeCorrect == RowSpec => [](RowTypeOK /\ PinInvariant)
<1>1. RowInit(Seq(Column), (SUBSET Name) \cup {AllColumns}) => RowTypeOK /\ PinInvariant
  <2> SUFFICES ASSUME RowInit(Seq(Column), (SUBSET Name) \cup {AllColumns})
               PROVE  RowTypeOK /\ PinInvariant
    OBVIOUS
  <2>1. row \in Seq(Column) /\ Len(row) \in Nat
    BY DEF RowInit
  <2>2. attr_columns = AllColumns \/ attr_columns \in SUBSET Name
    BY DEF RowInit
  <2>3. i \in 1..(Len(row) + 1)
    BY <2>1 DEF RowInit
  <2>4. /\ at = "loop" /\ refused = {} /\ contacted \in BOOLEAN /\ pins = 1
    BY DEF RowInit
  <2> QED
    BY <2>1, <2>2, <2>3, <2>4 DEF RowTypeOK, PinInvariant
<1>2. RowTypeOK /\ PinInvariant /\ [RowNext]_rowVars => RowTypeOK' /\ PinInvariant'
  <2> SUFFICES ASSUME RowTypeOK, PinInvariant, [RowNext]_rowVars
               PROVE  RowTypeOK' /\ PinInvariant'
    OBVIOUS
  <2> USE DEF RowTypeOK, PinInvariant
  <2>0. Len(row) \in Nat
    OBVIOUS
  <2>1. CASE SkipDropped
    BY <2>0, <2>1 DEF SkipDropped
  <2>2. CASE RejectColumn
    BY <2>0, <2>2 DEF RejectColumn, Leave
  <2>3. CASE MapColumn
    <3>1. /\ at = "loop" /\ i <= Len(row) /\ i' = i + 1
          /\ UNCHANGED <<row, attr_columns, at, contacted, pins>>
      BY <2>3 DEF MapColumn
    <3>2. refused' \in {refused, refused \cup {i}}
      BY <2>3 DEF MapColumn, Promote
    <3>3. i \in 1..Len(row)
      BY <2>0, <3>1
    <3>4. refused' \subseteq 1..Len(row)
      BY <3>2, <3>3
    <3> QED
      BY <2>0, <3>1, <3>4
  <2>4. CASE ConversionRaises
    BY <2>0, <2>4 DEF ConversionRaises
  <2>5. CASE ResourceOwnerReleases
    BY <2>0, <2>5 DEF ResourceOwnerReleases
  <2>6. CASE Serialized
    BY <2>0, <2>6 DEF Serialized
  <2>7. CASE QueueReady
    BY <2>0, <2>7 DEF QueueReady
  <2>8. CASE Packed
    BY <2>0, <2>8 DEF Packed
  <2>9. CASE PackFails
    BY <2>0, <2>9 DEF PackFails, Leave
  <2>10. CASE PostFails
    BY <2>0, <2>10 DEF PostFails, Leave
  <2>11. CASE Caught \/ CaughtUnknown
    <3>1. contacted' \in BOOLEAN
      BY <2>11, Zenon DEF Caught, CaughtUnknown
    <3>2. /\ at \in {"loop", "send", "pack", "post"} /\ at' = "error" /\ pins' = pins - 1
          /\ UNCHANGED <<row, attr_columns, i, refused>>
      BY <2>11 DEF Caught, CaughtUnknown, Leave
    <3> QED
      BY <2>0, <3>1, <3>2
  <2>12. CASE Posted
    BY <2>0, <2>12 DEF Posted, Leave
  <2>13. CASE UNCHANGED rowVars
    BY <2>0, <2>13 DEF rowVars
  <2> QED
    BY <2>1, <2>2, <2>3, <2>4, <2>5, <2>6, <2>7, <2>8, <2>9, <2>10, <2>11, <2>12, <2>13
    DEF RowNext
<1> QED
  BY <1>1, <1>2, PTL DEF RowSpec

\* One more column: it joins the columns that are present unless it is dropped.
LEMMA PresentNext ==
  ASSUME NEW n \in Nat
  PROVE  Present(n + 1) = Present(n) \cup (IF row[n + 1].dropped THEN {} ELSE {n + 1})
<1>1. 1..(n + 1) = 1..n \cup {n + 1}
  OBVIOUS
<1> QED
  BY <1>1 DEF Present

\* The loop computes what the row as a whole says, column by column.
THEOREM RowSafety == RowSpec => []RowIInv
<1>1. RowInit(Seq(Column), (SUBSET Name) \cup {AllColumns}) => RowIInv
  <2> SUFFICES ASSUME RowInit(Seq(Column), (SUBSET Name) \cup {AllColumns})
               PROVE  RowIInv
    OBVIOUS
  <2>1. Present(i - 1) = {}
    BY DEF RowInit, Present
  <2>2. LoopInv
    BY <2>1 DEF RowInit, LoopInv, Wanted
  <2> QED
    BY <2>2 DEF RowInit, RowIInv, Mapped
<1>2. RowTypeOK /\ RowIInv /\ [RowNext]_rowVars => RowIInv'
  <2> SUFFICES ASSUME RowTypeOK, RowIInv, [RowNext]_rowVars
               PROVE  RowIInv'
    OBVIOUS
  <2>t. i \in Nat /\ i >= 1 /\ Len(row) \in Nat /\ (i + 1) - 1 = i /\ (i - 1) + 1 = i /\ i - 1 \in Nat
    BY DEF RowTypeOK
  <2>f. ASSUME UNCHANGED <<row, attr_columns>>
        PROVE  /\ Present(i - 1)' = Present(i' - 1)
               /\ Wanted(i - 1)' = Wanted(i' - 1)
               /\ \A k : Rejected(row[k])' = Rejected(row[k])
    BY <2>f DEF Present, Wanted, Rejected, WantAttr, AttrsExplicit, Promotable
  <2>p. Present(i) = Present(i - 1) \cup (IF row[i].dropped THEN {} ELSE {i})
    BY <2>t, PresentNext
  <2>s. ASSUME UNCHANGED <<row, attr_columns, i, props, refused, row_map>>
        PROVE  LoopInv'
    BY <2>t, <2>f, <2>s DEF RowIInv, LoopInv
  <2>1. CASE SkipDropped
    <3>1. i' = i + 1 /\ row[i].dropped /\ at = "loop"
          /\ UNCHANGED <<row, attr_columns, props, refused, row_map, at, contacted>>
      BY <2>1 DEF SkipDropped
    <3>2. Present(i - 1)' = Present(i - 1) /\ Wanted(i - 1)' = Wanted(i - 1)
      BY <2>t, <2>f, <2>p, <3>1 DEF Wanted
    <3>3. refused' \subseteq 1..(i' - 1)
      BY <2>t, <3>1 DEF RowIInv, LoopInv
    <3>4. LoopInv'
      BY <2>f, <3>1, <3>2, <3>3 DEF RowIInv, LoopInv
    <3> QED
      BY <3>1, <3>4 DEF RowIInv, Mapped
  <2>2. CASE RejectColumn
    <3>1. at' = "rejected" /\ UNCHANGED <<row, attr_columns, i, props, refused, row_map, contacted>>
      BY <2>2 DEF RejectColumn, Leave
    <3> QED
      BY <2>s, <3>1 DEF RowIInv, Mapped
  <2>3. CASE MapColumn
    <3>1. /\ i' = i + 1 /\ ~row[i].dropped /\ at = "loop" /\ ~Rejected(row[i])
          /\ UNCHANGED <<row, attr_columns, at, contacted>>
          /\ Promote(row[i])
          /\ row_map' = row_map \cup {<<row[i].name, Payload(row[i])>>}
      BY <2>3 DEF MapColumn
    <3>2. Present(i - 1)' = Present(i - 1) \cup {i}
      BY <2>t, <2>f, <2>p, <3>1
    <3>3. Wanted(i - 1)' =
            IF WantAttr(row[i]) /\ Promotable(row[i]) THEN Wanted(i - 1) \cup {i} ELSE Wanted(i - 1)
      BY <2>t, <2>f, <2>p, <3>1 DEF Wanted
    <3>4. row_map' = {<<row[k].name, Payload(row[k])>> : k \in Present(i - 1) \cup {i}}
      BY <3>1 DEF RowIInv, LoopInv
    <3>5. i \notin refused /\ i \notin Wanted(i - 1)
      BY <2>t DEF RowIInv, LoopInv, Wanted, Present
    <3>6. props' = {Property(row[k]) : k \in Wanted(i - 1)' \ refused'}
      <4>1. CASE /\ WantAttr(row[i]) /\ Promotable(row[i])
                 /\ props' = props \cup {Property(row[i])} /\ refused' = refused
        <5>1. Wanted(i - 1)' \ refused' = (Wanted(i - 1) \ refused) \cup {i}
          BY <3>3, <3>5, <4>1
        <5> QED
          BY <4>1, <5>1 DEF RowIInv, LoopInv
      <4>2. CASE /\ WantAttr(row[i]) /\ Promotable(row[i])
                 /\ refused' = refused \cup {i} /\ props' = props
        <5>1. Wanted(i - 1)' \ refused' = Wanted(i - 1) \ refused
          BY <3>3, <3>5, <4>2
        <5> QED
          BY <4>2, <5>1 DEF RowIInv, LoopInv
      <4>3. CASE /\ ~(WantAttr(row[i]) /\ Promotable(row[i]))
                 /\ props' = props /\ refused' = refused
        BY <3>3, <4>3 DEF RowIInv, LoopInv
      <4> QED
        BY <3>1, <4>1, <4>2, <4>3 DEF Promote
    <3>7. \A k \in Present(i - 1)' : ~Rejected(row[k])'
      BY <2>f, <3>1, <3>2 DEF RowIInv, LoopInv
    <3>8. refused' \subseteq 1..(i' - 1)
      <4>1. refused' \subseteq refused \cup {i}
        BY <3>1 DEF Promote
      <4> QED
        BY <2>t, <3>1, <4>1 DEF RowIInv, LoopInv
    <3>9. LoopInv'
      BY <3>1, <3>2, <3>4, <3>6, <3>7, <3>8 DEF LoopInv, Payload, Property
    <3> QED
      BY <3>1, <3>9 DEF RowIInv, Mapped
  <2>4. CASE ConversionRaises \/ ResourceOwnerReleases
    <3>1. at' = "raised" /\ UNCHANGED <<row, attr_columns, i, props, refused, row_map, contacted>>
      BY <2>4 DEF ConversionRaises, ResourceOwnerReleases
    <3> QED
      BY <2>s, <3>1 DEF RowIInv, Mapped
  <2>5. CASE Serialized
    <3>1. at' = "send" /\ i > Len(row) /\ at = "loop"
          /\ UNCHANGED <<row, attr_columns, i, props, refused, row_map, contacted>>
      BY <2>5 DEF Serialized
    <3>2. i = Len(row) + 1
      BY <2>t, <3>1 DEF RowTypeOK
    <3> QED
      BY <2>s, <3>1, <3>2 DEF RowIInv
  <2>6. CASE QueueReady \/ Packed \/ PackFails \/ PostFails \/ Posted
    <3>1. /\ at \in {"send", "pack", "post"} /\ at' \notin {"loop", "send"}
          /\ UNCHANGED <<row, attr_columns, i, props, refused, row_map>>
      BY <2>6 DEF QueueReady, Packed, PackFails, PostFails, Posted, Leave
    <3> QED
      BY <2>s, <3>1 DEF RowIInv, Mapped
  <2>7. CASE Caught \/ CaughtUnknown
    <3>1. /\ at' = "error"
          /\ at = "loop" => contacted' = contacted \/ contacted' = FALSE
          /\ at # "loop" => Mapped
          /\ UNCHANGED <<row, attr_columns, i, props, refused, row_map>>
      BY <2>7 DEF Caught, CaughtUnknown, Leave, Mapped
    <3> QED
      BY <2>s, <3>1 DEF RowIInv, Mapped
  <2>8. CASE UNCHANGED rowVars
    <3>1. LoopInv'
      BY <2>s, <2>8 DEF rowVars
    <3> QED
      BY <2>8, <3>1 DEF rowVars, RowIInv, Mapped
  <2> QED
    BY <2>1, <2>2, <2>3, <2>4, <2>5, <2>6, <2>7, <2>8 DEF RowNext
<1> QED
  BY <1>1, <1>2, RowTypeCorrect, PTL DEF RowSpec

\* A column becomes a property exactly if it is not null and its type is not one
\* of those set_message_property() refuses.
LEMMA PromotableTypes ==
  ASSUME NEW c \in Column
  PROVE  Promotable(c) <=> c.value # NULL /\ c.type \notin {"float4", "float8", "other"}
BY DEF Promotable, PropertyType, Column, Type, TextTypes

\* The payload of a row that is sent is the whole row.
THEOREM PayloadIsRowAlways == RowSpec => []PayloadIsRow
<1>1. RowTypeOK /\ RowIInv => PayloadIsRow
  <2> SUFFICES ASSUME RowTypeOK, RowIInv, Mapped
               PROVE  row_map = {<<row[k].name, Payload(row[k])>> : k \in Present(Len(row))}
    BY DEF PayloadIsRow
  <2>1. i - 1 = Len(row)
    BY DEF RowTypeOK, RowIInv
  <2> QED
    BY <2>1 DEF RowIInv, LoopInv
<1> QED
  BY <1>1, RowTypeCorrect, RowSafety, PTL

\* The properties of a row that is sent are the requested eligible columns, less
\* those the SDK did not take.
THEOREM PropsExactAlways == RowSpec => []PropsExact
<1>1. RowTypeOK /\ RowIInv => PropsExact
  <2> SUFFICES ASSUME RowTypeOK, RowIInv, Mapped
               PROVE  PropsExact
    BY DEF PropsExact
  <2>1. i - 1 = Len(row)
    BY DEF RowTypeOK, RowIInv
  <2>2. \A k \in Present(Len(row)) : row[k] \in Column
    BY DEF RowTypeOK, Present
  <2>3. Wanted(Len(row)) \ refused = {j \in Present(Len(row)) \ refused :
                              /\ AttrsExplicit => row[j].name \in attr_columns
                              /\ row[j].type \notin {"float4", "float8", "other"}
                              /\ row[j].value # NULL}
    BY <2>2, PromotableTypes DEF Wanted, WantAttr
  <2>4. props = {Property(row[k]) : k \in Wanted(Len(row)) \ refused}
    BY <2>1 DEF RowIInv, LoopInv
  <2> QED
    BY <2>3, <2>4 DEF PropsExact
<1> QED
  BY <1>1, RowTypeCorrect, RowSafety, PTL

\* A named column that cannot be a property stops the call before the network.
THEOREM RejectedBeforeSendAlways == RowSpec => []RejectedBeforeSend
<1>1. RowTypeOK /\ RowIInv => RejectedBeforeSend
  <2> SUFFICES ASSUME RowTypeOK, RowIInv, contacted, NEW k \in Present(Len(row)),
                      AttrsExplicit, row[k].name \in attr_columns
               PROVE  row[k].value # NULL /\ row[k].type \notin {"float4", "float8", "other"}
    BY DEF RejectedBeforeSend
  <2>1. i - 1 = Len(row)
    BY DEF RowTypeOK, RowIInv
  <2>2. ~Rejected(row[k])
    BY <2>1 DEF RowIInv, LoopInv
  <2>3. row[k] \in Column
    BY DEF RowTypeOK, Present
  <2> QED
    BY <2>2, <2>3, PromotableTypes DEF Rejected, WantAttr
<1> QED
  BY <1>1, RowTypeCorrect, RowSafety, PTL
=============================================================================
