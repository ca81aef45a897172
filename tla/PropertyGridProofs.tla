------------------------- MODULE PropertyGridProofs -------------------------
(***************************************************************************)
(* Proofs about PropertyGrid, for every set of texts, every set of         *)
(* properties and any number of rows.                                      *)
(***************************************************************************)
EXTENDS PropertyGrid, TLAPS, SequenceTheorems

-----------------------------------------------------------------------------
(* The invariant *)

RowsOK ==
    /\ slots \in Seq(Slots)
    /\ told \in Seq(Texts) /\ Len(told) = Len(slots)
    /\ saved \in Seq(Texts) /\ Len(saved) = Len(slots)
    /\ HostMirrorsRows
    /\ HostSavesApplied

\* A commit calls the host only after it has closed the editor.
CallbackClosesEditor == calling => editor = NoRow

\* A handler that goes on with the editor open goes on because the text was
\* refused, and it will be refused again.
RefusalStands ==
    todo.op \in {"click", "open"} /\ editor # NoRow => ~Unchanged /\ ~Acceptable

\* begin_edit flushes another editor only to find that it refuses.
OpenWaits == todo.op = "open" => editor # NoRow

EditorOK ==
    /\ selected \in Nat /\ alive \in BOOLEAN
    /\ editor \in Nat /\ text \in Texts \cup {NoText}
    /\ failed \in BOOLEAN /\ orphan \in BOOLEAN
    /\ focus \in Windows
    /\ todo \in Rests /\ calling \in BOOLEAN
    /\ EditorHasFocus
    /\ EditorOnItsRow
    /\ CallbackClosesEditor
    /\ RefusalStands
    /\ OpenWaits

GridInv == RowsOK /\ EditorOK

\* The rows are the same, whatever their values.
KeepsDefs ==
    /\ Len(slots') = Len(slots)
    /\ \A i \in 1..Len(slots) : slots'[i].def = slots[i].def

-----------------------------------------------------------------------------
(* Lemmas on sequences and slots *)

\* A function on 1..n is a sequence of length n.
LEMMA FunctionIsSeq ==
  ASSUME NEW S, NEW n \in Nat, NEW f \in [1..n -> S]
  PROVE  f \in Seq(S) /\ Len(f) = n
<1>1. f \in Seq(S)
  BY SeqDef
<1>2. DOMAIN f = 1..n /\ DOMAIN f = 1..Len(f) /\ Len(f) \in Nat
  BY <1>1, LenProperties
<1> QED BY <1>1, <1>2

\* push_back.
LEMMA AppendedSeq ==
  ASSUME NEW S, NEW s \in Seq(S), NEW e \in S
  PROVE  /\ Append(s, e) \in Seq(S)
         /\ Len(Append(s, e)) = Len(s) + 1
         /\ \A i \in 1..Len(s) : Append(s, e)[i] = s[i]
         /\ Append(s, e)[Len(s) + 1] = e
BY LenProperties, AppendProperties

\* What the model's operations make of one row.
LEMMA SlotOperations ==
  ASSUME NEW s \in Slots
  PROVE  /\ Display(s) \in Texts
         /\ Applied(s) \in Slots /\ Applied(s).def = s.def
         /\ Applied(s).committed = Display(s) /\ Display(Applied(s)) = Display(s)
         /\ Reverted(s) \in Slots /\ Reverted(s).def = s.def
         /\ Reverted(s).committed = s.committed
         /\ Display(Reverted(s)) = s.committed
         /\ ~Dirty(s) => Display(s) = s.committed
BY DEF Slots, Display, Applied, Reverted, Dirty

\* An accepted value is what the row then shows.
LEMMA SlotPending ==
  ASSUME NEW s \in Slots, NEW v, Accepts(s, v)
  PROVE  /\ v \in Texts
         /\ [s EXCEPT !.pending = v] \in Slots
         /\ [s EXCEPT !.pending = v].def = s.def
         /\ [s EXCEPT !.pending = v].committed = s.committed
         /\ Display([s EXCEPT !.pending = v]) = v
<1>1. v \in Texts /\ v # NoText
  BY TextsAssumption DEF Accepts, Slots, Definitions
<1> QED BY <1>1 DEF Slots, Display

-----------------------------------------------------------------------------
(* The rows: what each operation of the model preserves *)

\* What the types of the model say of one row.
LEMMA RowTypes ==
  ASSUME RowsOK
  PROVE  /\ Len(slots) \in Nat
         /\ \A i \in Rows : slots[i] \in Slots /\ told[i] \in Texts /\ saved[i] \in Texts
BY LenProperties, ElementOfSeq DEF RowsOK, Rows

\* An accepted edit, with the host told.
LEMMA SetPendingKeepsRows ==
  ASSUME RowsOK, NEW i \in Rows, NEW v, Accepts(slots[i], v),
         SetPending(i, v), UNCHANGED saved
  PROVE  RowsOK' /\ KeepsDefs
<1> DEFINE s == [slots[i] EXCEPT !.pending = v]
<1>1. /\ v \in Texts /\ s \in Slots /\ s.def = slots[i].def
      /\ s.committed = slots[i].committed /\ Display(s) = v
  BY RowTypes, SlotPending
<1> HIDE DEF s
<1>2. slots' = [slots EXCEPT ![i] = s] /\ told' = [told EXCEPT ![i] = v]
  BY DEF SetPending, s
<1>3. /\ slots' \in Seq(Slots) /\ Len(slots') = Len(slots)
      /\ \A j \in Rows : slots'[j] = IF j = i THEN s ELSE slots[j]
  BY <1>1, <1>2, ExceptSeq DEF RowsOK, Rows
<1>4. /\ told' \in Seq(Texts) /\ Len(told') = Len(told)
      /\ \A j \in Rows : told'[j] = IF j = i THEN v ELSE told[j]
  BY <1>1, <1>2, ExceptSeq DEF RowsOK, Rows
<1>5. KeepsDefs
  BY <1>1, <1>3 DEF KeepsDefs, Rows
<1>6. HostMirrorsRows'
  BY <1>1, <1>3, <1>4 DEF RowsOK, HostMirrorsRows, Rows
<1>7. HostSavesApplied'
  BY <1>1, <1>3 DEF RowsOK, HostSavesApplied, Rows
<1> QED BY <1>3, <1>4, <1>5, <1>6, <1>7 DEF RowsOK

\* All rows replaced at once, as apply_all and revert_all do.
LEMMA AllRowsReplaced ==
  ASSUME RowsOK, NEW f \in [Rows -> Slots], slots' = f,
         \A i \in Rows : f[i].def = slots[i].def
  PROVE  /\ slots' \in Seq(Slots) /\ Len(slots') = Len(slots)
         /\ Rows' = Rows /\ KeepsDefs
<1>1. slots' \in Seq(Slots) /\ Len(slots') = Len(slots)
  BY RowTypes, FunctionIsSeq DEF Rows
<1> QED BY <1>1 DEF Rows, KeepsDefs

\* A mirror of the rows is a sequence of texts.
LEMMA MirrorIsSeq ==
  ASSUME RowsOK, NEW f \in [Rows -> Texts]
  PROVE  f \in Seq(Texts) /\ Len(f) = Len(slots)
BY RowTypes, FunctionIsSeq DEF Rows

\* apply_all changes values of rows, not the rows (promote_all).
LEMMA PromoteKeepsRows ==
  ASSUME RowsOK, Promote
  PROVE  RowsOK' /\ KeepsDefs
<1> DEFINE f == [i \in Rows |-> Applied(slots[i])]
           g == [i \in Rows |-> Display(slots[i])]
<1>1. \A i \in Rows : /\ Applied(slots[i]) \in Slots /\ Display(slots[i]) \in Texts
                      /\ Applied(slots[i]).def = slots[i].def
                      /\ Applied(slots[i]).committed = Display(slots[i])
                      /\ Display(Applied(slots[i])) = Display(slots[i])
                      /\ ~Dirty(slots[i]) => Display(slots[i]) = slots[i].committed
  BY RowTypes, SlotOperations
<1>2. /\ f \in [Rows -> Slots] /\ g \in [Rows -> Texts]
      /\ \A i \in Rows : f[i] = Applied(slots[i]) /\ g[i] = Display(slots[i])
  BY <1>1
<1>3. slots' = f /\ saved' = (IF AnyDirty THEN g ELSE saved) /\ told' = told
  BY DEF Promote
<1> HIDE DEF f, g
<1>4. \A i \in Rows : f[i].def = slots[i].def
  BY <1>1, <1>2
<1>5. /\ slots' \in Seq(Slots) /\ Len(slots') = Len(slots)
      /\ Rows' = Rows /\ KeepsDefs
  BY <1>2, <1>3, <1>4, AllRowsReplaced
<1>6. saved' \in Seq(Texts) /\ Len(saved') = Len(slots')
  BY <1>2, <1>3, <1>5, MirrorIsSeq DEF RowsOK
<1>7. HostMirrorsRows'
  BY <1>1, <1>2, <1>3, <1>5 DEF RowsOK, HostMirrorsRows
<1>8. HostSavesApplied'
  <2> SUFFICES ASSUME NEW i \in Rows PROVE saved'[i] = slots'[i].committed
    BY <1>5 DEF HostSavesApplied
  <2>1. slots'[i].committed = Display(slots[i])
    BY <1>1, <1>2, <1>3
  <2>2. CASE AnyDirty
    BY <1>2, <1>3, <2>1, <2>2
  <2>3. CASE ~AnyDirty
    BY <1>1, <1>3, <2>1, <2>3 DEF AnyDirty, RowsOK, HostSavesApplied
  <2> QED BY <2>2, <2>3
<1> QED BY <1>3, <1>5, <1>6, <1>7, <1>8 DEF RowsOK

\* So does revert_all,
LEMMA RevertAllKeepsRows ==
  ASSUME RowsOK, RevertAll
  PROVE  RowsOK' /\ KeepsDefs
<1> DEFINE f == [i \in Rows |-> Reverted(slots[i])]
           g == [i \in Rows |-> slots[i].committed]
<1>1. \A i \in Rows : /\ Reverted(slots[i]) \in Slots /\ slots[i].committed \in Texts
                      /\ Reverted(slots[i]).def = slots[i].def
                      /\ Reverted(slots[i]).committed = slots[i].committed
                      /\ Display(Reverted(slots[i])) = slots[i].committed
  BY RowTypes, SlotOperations DEF Slots
<1>2. /\ f \in [Rows -> Slots] /\ g \in [Rows -> Texts]
      /\ \A i \in Rows : f[i] = Reverted(slots[i]) /\ g[i] = slots[i].committed
  BY <1>1
<1>3. slots' = f /\ told' = g /\ saved' = saved
  BY DEF RevertAll
<1> HIDE DEF f, g
<1>4. /\ slots' \in Seq(Slots) /\ Len(slots') = Len(slots)
      /\ Rows' = Rows /\ KeepsDefs
  BY <1>1, <1>2, <1>3, AllRowsReplaced
<1>5. told' \in Seq(Texts) /\ Len(told') = Len(slots')
  BY <1>2, <1>3, <1>4, MirrorIsSeq
<1>6. HostMirrorsRows'
  BY <1>1, <1>2, <1>3, <1>4 DEF HostMirrorsRows
<1>7. HostSavesApplied'
  BY <1>1, <1>2, <1>3, <1>4 DEF RowsOK, HostSavesApplied
<1> QED BY <1>3, <1>4, <1>5, <1>6, <1>7 DEF RowsOK

\* apply_row,
LEMMA ApplyRowKeepsRows ==
  ASSUME RowsOK, NEW i \in Rows, ApplyRow(i)
  PROVE  RowsOK' /\ KeepsDefs
<1> DEFINE s == Applied(slots[i])
           v == Display(slots[i])
<1>1. /\ v \in Texts /\ s \in Slots /\ s.def = slots[i].def
      /\ s.committed = v /\ Display(s) = v
  BY RowTypes, SlotOperations
<1>2. slots' = [slots EXCEPT ![i] = s] /\ saved' = [saved EXCEPT ![i] = v] /\ told' = told
  BY DEF ApplyRow
<1>3. told[i] = v
  BY DEF RowsOK, HostMirrorsRows
<1> HIDE DEF s, v
<1>4. /\ slots' \in Seq(Slots) /\ Len(slots') = Len(slots)
      /\ \A j \in Rows : slots'[j] = IF j = i THEN s ELSE slots[j]
  BY <1>1, <1>2, ExceptSeq DEF RowsOK, Rows
<1>5. /\ saved' \in Seq(Texts) /\ Len(saved') = Len(saved)
      /\ \A j \in Rows : saved'[j] = IF j = i THEN v ELSE saved[j]
  BY <1>1, <1>2, ExceptSeq DEF RowsOK, Rows
<1>6. KeepsDefs
  BY <1>1, <1>4 DEF KeepsDefs, Rows
<1>7. HostMirrorsRows'
  BY <1>1, <1>2, <1>3, <1>4 DEF RowsOK, HostMirrorsRows, Rows
<1>8. HostSavesApplied'
  BY <1>1, <1>4, <1>5 DEF RowsOK, HostSavesApplied, Rows
<1> QED BY <1>2, <1>4, <1>5, <1>6, <1>7, <1>8 DEF RowsOK

\* and revert_row.
LEMMA RevertRowKeepsRows ==
  ASSUME RowsOK, NEW i \in Rows, RevertRow(i)
  PROVE  RowsOK' /\ KeepsDefs
<1> DEFINE s == Reverted(slots[i])
           v == slots[i].committed
<1>1. /\ v \in Texts /\ s \in Slots /\ s.def = slots[i].def
      /\ s.committed = v /\ Display(s) = v
  BY RowTypes, SlotOperations DEF Slots
<1>2. slots' = [slots EXCEPT ![i] = s] /\ told' = [told EXCEPT ![i] = v] /\ saved' = saved
  BY DEF RevertRow
<1>3. saved[i] = v
  BY DEF RowsOK, HostSavesApplied
<1> HIDE DEF s, v
<1>4. /\ slots' \in Seq(Slots) /\ Len(slots') = Len(slots)
      /\ \A j \in Rows : slots'[j] = IF j = i THEN s ELSE slots[j]
  BY <1>1, <1>2, ExceptSeq DEF RowsOK, Rows
<1>5. /\ told' \in Seq(Texts) /\ Len(told') = Len(told)
      /\ \A j \in Rows : told'[j] = IF j = i THEN v ELSE told[j]
  BY <1>1, <1>2, ExceptSeq DEF RowsOK, Rows
<1>6. KeepsDefs
  BY <1>1, <1>4 DEF KeepsDefs, Rows
<1>7. HostMirrorsRows'
  BY <1>1, <1>4, <1>5 DEF RowsOK, HostMirrorsRows, Rows
<1>8. HostSavesApplied'
  BY <1>1, <1>2, <1>3, <1>4 DEF RowsOK, HostSavesApplied, Rows
<1> QED BY <1>2, <1>4, <1>5, <1>6, <1>7, <1>8 DEF RowsOK

\* add_property adds a row at the end.
LEMMA AddPropertyKeepsRows ==
  ASSUME RowsOK, NEW d \in Defs, AddProperty(d)
  PROVE  /\ RowsOK' /\ Len(slots') = Len(slots) + 1
         /\ \A i \in Rows : slots'[i] = slots[i]
<1> DEFINE s == [def |-> d, committed |-> d.value, pending |-> NoText]
<1>1. d \in Definitions /\ d.value \in Texts
  BY DefsAssumption DEF Definitions
<1>2. s \in Slots /\ Display(s) = d.value /\ s.committed = d.value
  BY <1>1 DEF Slots, Display
<1>3. /\ slots' = Append(slots, s) /\ told' = Append(told, d.value)
      /\ saved' = Append(saved, d.value)
  BY DEF AddProperty
<1> HIDE DEF s
<1>4. /\ slots' \in Seq(Slots) /\ Len(slots') = Len(slots) + 1
      /\ \A i \in Rows : slots'[i] = slots[i]
      /\ slots'[Len(slots) + 1] = s
  BY <1>2, <1>3, AppendedSeq DEF RowsOK, Rows
<1>5. /\ told' \in Seq(Texts) /\ Len(told') = Len(slots) + 1
      /\ \A i \in Rows : told'[i] = told[i]
      /\ told'[Len(slots) + 1] = d.value
  BY <1>1, <1>3, AppendedSeq DEF RowsOK, Rows
<1>6. /\ saved' \in Seq(Texts) /\ Len(saved') = Len(slots) + 1
      /\ \A i \in Rows : saved'[i] = saved[i]
      /\ saved'[Len(slots) + 1] = d.value
  BY <1>1, <1>3, AppendedSeq DEF RowsOK, Rows
<1>7. \A i \in Rows' : i \in Rows \/ i = Len(slots) + 1
  BY <1>4, RowTypes DEF Rows
<1>8. HostMirrorsRows'
  BY <1>2, <1>4, <1>5, <1>7 DEF RowsOK, HostMirrorsRows
<1>9. HostSavesApplied'
  BY <1>2, <1>4, <1>6, <1>7 DEF RowsOK, HostSavesApplied
<1> QED BY <1>4, <1>5, <1>6, <1>8, <1>9 DEF RowsOK

\* clear_model leaves no row.
LEMMA ClearModelKeepsRows ==
  ASSUME ClearModel
  PROVE  RowsOK'
<1>1. slots' = <<>> /\ told' = <<>> /\ saved' = <<>>
  BY DEF ClearModel
<1>2. Len(<<>>) = 0 /\ <<>> \in Seq(Slots) /\ <<>> \in Seq(Texts)
  BY EmptySeq
<1> QED BY <1>1, <1>2 DEF RowsOK, HostMirrorsRows, HostSavesApplied, Rows

\* What does not touch the model keeps the rows.
LEMMA UnchangedKeepsRows ==
  ASSUME RowsOK, UNCHANGED modelVars
  PROVE  RowsOK' /\ KeepsDefs
BY DEF RowsOK, KeepsDefs, HostMirrorsRows, HostSavesApplied, Rows, modelVars

\* end_edit nulls editor_ first: what its DestroyWindow sends commits nothing.
LEMMA EndEditCloses ==
  ASSUME RowsOK, EndEdit
  PROVE  NoEditor /\ UNCHANGED <<slots, told>>
<1>1. NoRow \notin Rows
  BY RowTypes DEF Rows, NoRow
<1> QED BY <1>1 DEF EndEdit, KillFocusCommits

\* Committing the editor changes the pending value of its row at most.
LEMMA CommitKeepsRows ==
  ASSUME RowsOK, NEW window, NEW rest, CommitEditor(window, rest)
  PROVE  RowsOK' /\ KeepsDefs
<1>1. CASE Unchanged /\ EndEdit
  BY <1>1, EndEditCloses, UnchangedKeepsRows DEF CommitEditor, modelVars
<1>2. CASE Acceptable /\ SetPending(editor, text)
  BY <1>2, SetPendingKeepsRows DEF Acceptable, CommitEditor
<1>3. CASE Refuse(window)
  BY <1>3, UnchangedKeepsRows DEF Refuse, CommitEditor, modelVars
<1> QED BY <1>1, <1>2, <1>3 DEF CommitEditor

\* So does activating a row, which commits the editor first.
LEMMA ActivateKeepsRows ==
  ASSUME RowsOK, NEW i, Activate(i)
  PROVE  RowsOK' /\ KeepsDefs
<1>1. CASE BeginEdit(i)
  <2>1. CASE editor # NoRow
    BY <1>1, <2>1, CommitKeepsRows DEF BeginEdit
  <2>2. CASE editor = NoRow
    BY <1>1, <2>2, UnchangedKeepsRows DEF BeginEdit
  <2> QED BY <2>1, <2>2
<1>2. CASE i \in Rows /\ Toggle(i) /\ UNCHANGED saved
  <2>1. CASE UNCHANGED <<slots, told>>
    BY <1>2, <2>1, UnchangedKeepsRows DEF modelVars
  <2>2. CASE ~UNCHANGED <<slots, told>>
    BY <1>2, <2>2, SetPendingKeepsRows DEF Toggle
  <2> QED BY <2>1, <2>2
<1>3. CASE UNCHANGED modelVars
  BY <1>3, UnchangedKeepsRows
<1> QED BY <1>1, <1>2, <1>3 DEF Activate

-----------------------------------------------------------------------------
(* The editor: what each piece of a handler preserves *)

\* The rests of handlers are well typed, and each has its own name.
LEMMA RestTypes ==
  /\ Done \in Rests /\ Done.op = "done"
  /\ ToApply \in Rests /\ ToApply.op = "apply"
  /\ \A i \in Nat : ToOpen(i) \in Rests /\ ToOpen(i).op = "open" /\ ToOpen(i).row = i
  /\ \A i \in Nat : \A value \in BOOLEAN :
        ToClick(i, value) \in Rests /\ ToClick(i, value).op = "click"
BY DEF Done, ToApply, ToOpen, ToClick, Rests, NoRow

\* The editor stays on its row through anything that keeps the rows.
LEMMA RowStays ==
  ASSUME RowsOK, EditorOnItsRow, KeepsDefs, UNCHANGED <<editor, orphan>>
  PROVE  EditorOnItsRow'
BY DEF EditorOnItsRow, KeepsDefs, Rows

\* Nothing is open.
LEMMA ClosedIsOK ==
  ASSUME EditorOK, NoEditor, selected' \in Nat, alive' \in BOOLEAN, focus' \in Windows,
         todo' \in Rests, todo'.op # "open", calling' \in BOOLEAN
  PROVE  EditorOK'
BY DEF EditorOK, NoEditor, NoRow, EditorHasFocus, EditorOnItsRow,
       CallbackClosesEditor, RefusalStands, OpenWaits

\* A commit closes the editor or leaves it with a refused text.
LEMMA CommitKeepsEditor ==
  ASSUME GridInv, editor # NoRow, NEW window \in Windows, NEW rest \in Rests,
         rest.op = "open" => ~Unchanged /\ ~Acceptable,
         CommitEditor(window, rest), UNCHANGED alive, selected' \in Nat
  PROVE  EditorOK'
<1>1. todo' = rest /\ KeepsDefs
  BY CommitKeepsRows DEF GridInv, CommitEditor
<1>2. CASE Unchanged /\ EndEdit /\ focus' = "grid" /\ calling' = FALSE
  BY <1>1, <1>2, EndEditCloses, ClosedIsOK DEF GridInv, EditorOK, Windows
<1>3. CASE /\ ~Unchanged /\ Acceptable /\ NoEditor
           /\ focus' = "grid" /\ calling' = (rest # Done)
  BY <1>1, <1>3, ClosedIsOK DEF GridInv, EditorOK, Windows
<1>4. CASE ~Unchanged /\ ~Acceptable /\ Refuse(window) /\ calling' = FALSE
  <2>1. EditorHasFocus'
    BY <1>4 DEF GridInv, EditorOK, EditorHasFocus, Refuse
  <2>2. EditorOnItsRow'
    BY <1>1, <1>4, RowStays DEF GridInv, EditorOK, Refuse
  <2>3. ~Unchanged' /\ ~Acceptable'
    BY <1>4 DEF Refuse, Unchanged, Acceptable, Rows
  <2> QED
    BY <1>1, <1>4, <2>1, <2>2, <2>3
       DEF GridInv, EditorOK, Refuse, Windows, CallbackClosesEditor, RefusalStands, OpenWaits
<1> QED BY <1>2, <1>3, <1>4 DEF CommitEditor

\* begin_edit on a row that may be edited.
LEMMA BeginEditKeepsEditor ==
  ASSUME GridInv, NEW i \in Rows, slots[i].def.editable, ~slots[i].def.instant,
         editor # NoRow => ~Unchanged /\ ~Acceptable,
         BeginEdit(i), UNCHANGED <<selected, alive>>
  PROVE  EditorOK'
<1>1. i \in Nat /\ i # NoRow
  BY RowTypes DEF GridInv, Rows, NoRow
<1>2. CASE editor # NoRow
  <2>1. CommitEditor(focus, ToOpen(i))
    BY <1>2 DEF BeginEdit
  <2>2. focus \in Windows /\ ToOpen(i) \in Rests /\ ~Unchanged /\ ~Acceptable
    BY <1>1, <1>2, RestTypes DEF GridInv, EditorOK
  <2> QED BY <1>2, <2>1, <2>2, CommitKeepsEditor DEF GridInv, EditorOK
<1>3. CASE editor = NoRow
  <2>1. Open(i) /\ todo' = Done /\ calling' = FALSE /\ UNCHANGED modelVars
    BY <1>3 DEF BeginEdit
  <2>2. CASE ~alive
    <3>1. UNCHANGED <<editorVars, focus>>
      BY <2>1, <2>2 DEF Open
    <3> QED
      BY <1>3, <2>1, <3>1, RestTypes
         DEF GridInv, EditorOK, editorVars, EditorHasFocus, EditorOnItsRow,
             CallbackClosesEditor, RefusalStands, OpenWaits
  <2>3. CASE alive
    <3>1. /\ editor' = i /\ text' = Display(slots[i]) /\ focus' = "editor"
          /\ failed' = FALSE /\ orphan' = FALSE
      BY <1>3, <2>1, <2>3 DEF Open
    <3>2. text' \in Texts
      BY <3>1, RowTypes, SlotOperations DEF GridInv
    <3>3. EditorOnItsRow'
      BY <2>1, <3>1 DEF EditorOnItsRow, modelVars, Rows
    <3> QED
      BY <1>1, <2>1, <2>3, <3>1, <3>2, <3>3, RestTypes
         DEF GridInv, EditorOK, Windows, EditorHasFocus, CallbackClosesEditor,
             RefusalStands, OpenWaits
  <2> QED BY <2>2, <2>3 DEF GridInv, EditorOK
<1> QED BY <1>2, <1>3

\* A handler that ends without touching the editor.
LEMMA UntouchedIsOK ==
  ASSUME GridInv, KeepsDefs, UNCHANGED <<editorVars, alive, focus>>,
         selected' \in Nat, todo' = Done, calling' = FALSE
  PROVE  EditorOK'
<1>1. EditorOnItsRow'
  BY RowStays DEF GridInv, EditorOK, editorVars
<1> QED
  BY <1>1, RestTypes
     DEF GridInv, EditorOK, editorVars, EditorHasFocus, CallbackClosesEditor,
         RefusalStands, OpenWaits

\* An activated row has the editor, or none has.
LEMMA ActivateKeepsEditor ==
  ASSUME GridInv, NEW i, editor # NoRow => ~Unchanged /\ ~Acceptable,
         Activate(i), UNCHANGED <<selected, alive>>
  PROVE  EditorOK'
<1>1. CASE i \in Rows /\ slots[i].def.editable /\ ~slots[i].def.instant
  BY <1>1, BeginEditKeepsEditor DEF Activate
<1>2. CASE ~(i \in Rows /\ slots[i].def.editable /\ ~slots[i].def.instant)
  <2>1. KeepsDefs
    BY ActivateKeepsRows DEF GridInv
  <2>2. todo' = Done /\ calling' = FALSE /\ UNCHANGED <<editorVars, focus>>
    BY <1>2 DEF Activate
  <2> QED BY <2>1, <2>2, UntouchedIsOK DEF GridInv, EditorOK
<1> QED BY <1>1, <1>2

\* A call of the host that keeps the rows and lets the editor be.
LEMMA HostCallKeepsEditor ==
  ASSUME GridInv, HostRuns, HostFrame, KeepsDefs,
         selected' \in Nat, UNCHANGED <<editor, text, failed, orphan, focus>>
  PROVE  EditorOK'
<1>1. todo' = todo /\ calling' = calling /\ alive' = alive
  BY DEF HostFrame
<1>2. EditorOnItsRow'
  BY RowStays DEF GridInv, EditorOK
<1>3. editor # NoRow => todo = Done
  BY DEF HostRuns, GridInv, EditorOK, CallbackClosesEditor
<1> QED
  BY <1>1, <1>2, <1>3, RestTypes
     DEF GridInv, EditorOK, EditorHasFocus, CallbackClosesEditor,
         RefusalStands, OpenWaits

\* A call of the host that closes an open editor.
LEMMA HostClosesEditor ==
  ASSUME GridInv, HostRuns, HostFrame, KeepsDefs, EndEditByHost, UNCHANGED selected
  PROVE  EditorOK'
<1>1. CASE editor = NoRow
  <2>1. UNCHANGED <<editorVars, focus>>
    BY <1>1 DEF EndEditByHost
  <2> QED BY <2>1, HostCallKeepsEditor DEF GridInv, EditorOK, editorVars
<1>2. CASE editor # NoRow
  <2>1. todo = Done /\ NoEditor /\ focus' \in Windows
    BY <1>2 DEF HostRuns, GridInv, EditorOK, CallbackClosesEditor, EndEditByHost, Windows
  <2>2. /\ todo' = todo /\ calling' = calling /\ alive' = alive
    BY DEF HostFrame
  <2> QED BY <2>1, <2>2, RestTypes, ClosedIsOK DEF GridInv, EditorOK
<1> QED BY <1>1, <1>2

-----------------------------------------------------------------------------
(* The invariant is inductive *)

\* An empty grid satisfies the invariant.
LEMMA InitInv == Init => GridInv
<1> SUFFICES ASSUME Init PROVE GridInv
  OBVIOUS
<1>1. Len(<<>>) = 0 /\ <<>> \in Seq(Slots) /\ <<>> \in Seq(Texts)
  BY EmptySeq
<1>2. RowsOK
  BY <1>1 DEF Init, RowsOK, HostMirrorsRows, HostSavesApplied, Rows
<1>3. EditorOK
  BY RestTypes
     DEF Init, EditorOK, NoRow, Windows, EditorHasFocus, EditorOnItsRow,
         CallbackClosesEditor, RefusalStands, OpenWaits
<1> QED BY <1>2, <1>3 DEF GridInv

\* The calls of the host preserve it,
LEMMA HostCallsPreserve == GridInv /\ HostCalls => GridInv'
<1> SUFFICES ASSUME GridInv, HostCalls PROVE GridInv'
  OBVIOUS
<1> USE DEF GridInv
<1>1. ASSUME NEW d \in Defs, AddProperty(d) PROVE GridInv'
  <2>1. /\ RowsOK' /\ Len(slots') = Len(slots) + 1
        /\ \A i \in Rows : slots'[i] = slots[i]
    BY <1>1, AddPropertyKeepsRows
  <2>2. Rows \subseteq Rows'
    BY <2>1, RowTypes DEF Rows
  <2>3. EditorOnItsRow'
    BY <1>1, <2>1, <2>2 DEF EditorOK, EditorOnItsRow, AddProperty, editorVars
  <2>4. editor # NoRow => todo = Done
    BY <1>1 DEF AddProperty, HostRuns, EditorOK, CallbackClosesEditor
  <2>5. /\ UNCHANGED <<editor, text, failed, orphan, focus, alive, todo, calling>>
        /\ selected' \in Nat
    BY <1>1 DEF AddProperty, HostFrame, editorVars, EditorOK
  <2>6. EditorOK'
    BY <2>3, <2>4, <2>5, RestTypes
       DEF EditorOK, EditorHasFocus, CallbackClosesEditor, RefusalStands, OpenWaits
  <2> QED BY <2>1, <2>6
<1>2. ASSUME ClearModel PROVE GridInv'
  <2>1. RowsOK'
    BY <1>2, ClearModelKeepsRows
  <2>2. /\ UNCHANGED <<editor, text, failed, focus, alive, todo, calling, selected>>
        /\ orphan' = (editor # NoRow)
    BY <1>2 DEF ClearModel, HostFrame
  <2>3. editor # NoRow => todo = Done
    BY <1>2 DEF ClearModel, HostRuns, EditorOK, CallbackClosesEditor
  <2>4. EditorOK'
    BY <2>2, <2>3, RestTypes
       DEF EditorOK, EditorHasFocus, EditorOnItsRow, CallbackClosesEditor,
           RefusalStands, OpenWaits
  <2> QED BY <2>1, <2>4
<1>3. ASSUME NEW i \in Rows, NEW v \in Texts, SetValue(i, v) PROVE GridInv'
  <2>1. RowsOK' /\ KeepsDefs
    <3>1. CASE Accepts(slots[i], v)
      BY <1>3, <3>1, SetPendingKeepsRows DEF SetValue
    <3>2. CASE ~Accepts(slots[i], v)
      BY <1>3, <3>2, UnchangedKeepsRows DEF SetValue, modelVars
    <3> QED BY <3>1, <3>2
  <2>2. CASE editor = i
    BY <1>3, <2>1, <2>2, HostClosesEditor DEF SetValue
  <2>3. CASE editor # i
    BY <1>3, <2>1, <2>3, HostCallKeepsEditor DEF SetValue, EditorOK, editorVars
  <2> QED BY <2>1, <2>2, <2>3
<1>4. ASSUME ApplyAll PROVE GridInv'
  <2>1. CASE editor = NoRow
    <3>1. RowsOK' /\ KeepsDefs
      BY <1>4, <2>1, PromoteKeepsRows DEF ApplyAll
    <3> QED
      BY <1>4, <2>1, <3>1, HostCallKeepsEditor
         DEF ApplyAll, HostFrame, EditorOK, editorVars
  <2>2. CASE editor # NoRow
    <3>1. CommitEditor(focus, ToApply) /\ UNCHANGED <<selected, alive>>
      BY <1>4, <2>2 DEF ApplyAll
    <3> QED
      BY <2>2, <3>1, RestTypes, CommitKeepsRows, CommitKeepsEditor DEF EditorOK
  <2> QED BY <2>1, <2>2
<1>5. ASSUME RevertAll PROVE GridInv'
  BY <1>5, RevertAllKeepsRows, HostClosesEditor DEF RevertAll
<1>6. ASSUME NEW i \in Rows, ApplyRow(i) PROVE GridInv'
  BY <1>6, ApplyRowKeepsRows, HostCallKeepsEditor DEF ApplyRow, EditorOK, editorVars
<1>7. ASSUME NEW i \in Rows, RevertRow(i) PROVE GridInv'
  BY <1>7, RevertRowKeepsRows, HostCallKeepsEditor DEF RevertRow, EditorOK
<1>8. ASSUME NEW i \in Rows, Select(i) PROVE GridInv'
  <2>1. selected' \in Nat
    BY <1>8, RowTypes DEF Select, Selected, Rows, EditorOK
  <2> QED BY <1>8, <2>1, UnchangedKeepsRows, HostCallKeepsEditor DEF Select, editorVars
<1>9. ASSUME Create PROVE GridInv'
  <2>1. RowsOK' /\ KeepsDefs
    BY <1>9, UnchangedKeepsRows DEF Create
  <2>2. EditorOK'
    BY <1>9, <2>1, RowStays
       DEF Create, EditorOK, editorVars, modelVars, EditorHasFocus, CallbackClosesEditor,
           RefusalStands, OpenWaits, Unchanged, Acceptable, Rows
  <2> QED BY <2>1, <2>2
<1>10. ASSUME Destroy PROVE GridInv'
  <2>1. RowsOK'
    <3>1. CASE UNCHANGED <<slots, told>>
      BY <1>10, <3>1, UnchangedKeepsRows DEF Destroy, modelVars
    <3>2. CASE Acceptable /\ SetPending(editor, text)
      BY <1>10, <3>2, SetPendingKeepsRows DEF Destroy, Acceptable
    <3> QED BY <1>10, <3>1, <3>2 DEF Destroy
  <2>2. EditorOK'
    BY <1>10, RestTypes, ClosedIsOK DEF Destroy, EditorOK, Windows
  <2> QED BY <2>1, <2>2
<1> QED BY <1>1, <1>2, <1>3, <1>4, <1>5, <1>6, <1>7, <1>8, <1>9, <1>10 DEF HostCalls

\* the return from its callback does,
LEMMA ResumePreserves == GridInv /\ Resume => GridInv'
<1> SUFFICES ASSUME GridInv, Resume PROVE GridInv'
  OBVIOUS
<1> USE DEF GridInv
<1>1. CASE todo.op = "apply"
  <2>1. Promote /\ todo' = Done /\ calling' = FALSE /\ UNCHANGED <<editorVars, selected, focus, alive>>
    BY <1>1 DEF Resume
  <2> QED BY <2>1, PromoteKeepsRows, UntouchedIsOK DEF EditorOK
<1>2. CASE todo.op = "open"
  <2>1. /\ Open(todo.row) /\ todo' = Done /\ calling' = FALSE
        /\ UNCHANGED modelVars /\ UNCHANGED <<selected, alive>>
    BY <1>2 DEF Resume
  <2>2. UNCHANGED <<editorVars, focus>>
    BY <1>2, <2>1 DEF Open, EditorOK, OpenWaits
  <2> QED BY <2>1, <2>2, UnchangedKeepsRows, UntouchedIsOK DEF EditorOK
<1>3. CASE todo.op = "click"
  <2> DEFINE i == todo.row
             value == todo.value
  <2>0. ClickRest(i, value) /\ UNCHANGED alive /\ i \in Nat /\ value \in BOOLEAN
    BY <1>3 DEF Resume, EditorOK, Rests
  <2>1. editor # NoRow => ~Unchanged /\ ~Acceptable
    BY <1>3 DEF EditorOK, RefusalStands
  <2> HIDE DEF i, value
  <2>2. CASE i \in Rows /\ ~(i = selected /\ value)
    <3>1. /\ selected' = i /\ todo' = Done /\ calling' = FALSE
          /\ UNCHANGED modelVars /\ UNCHANGED <<editorVars, focus>>
      BY <2>0, <2>2 DEF ClickRest
    <3> QED BY <2>0, <3>1, UnchangedKeepsRows, UntouchedIsOK
  <2>3. CASE i \in Rows /\ i = selected /\ value
    <3>1. Activate(i) /\ UNCHANGED selected
      BY <2>0, <2>3 DEF ClickRest
    <3> QED BY <2>0, <2>1, <3>1, ActivateKeepsRows, ActivateKeepsEditor
  <2>4. CASE i \notin Rows /\ editor # NoRow
    <3>1. CommitEditor(focus, Done) /\ UNCHANGED selected
      BY <2>0, <2>4 DEF ClickRest
    <3> QED
      BY <2>0, <2>4, <3>1, RestTypes, CommitKeepsRows, CommitKeepsEditor DEF EditorOK
  <2>5. CASE i \notin Rows /\ editor = NoRow
    <3>1. /\ todo' = Done /\ calling' = FALSE
          /\ UNCHANGED modelVars /\ UNCHANGED <<editorVars, selected, focus>>
      BY <2>0, <2>5 DEF ClickRest
    <3> QED BY <2>0, <3>1, UnchangedKeepsRows, UntouchedIsOK DEF EditorOK
  <2> QED BY <2>2, <2>3, <2>4, <2>5
<1> QED
  <2>1. todo.op \in {"apply", "open", "click"}
    BY DEF Resume, EditorOK, Rests, Done, NoRow
  <2> QED BY <1>1, <1>2, <1>3, <2>1

\* and so do the messages of the window.
LEMMA MessagesPreserve == GridInv /\ Messages => GridInv'
<1> SUFFICES ASSUME GridInv, Messages PROVE GridInv'
  OBVIOUS
<1> USE DEF GridInv
<1>1. ASSUME NEW i \in 0..MaxRows, NEW value \in BOOLEAN, LButtonDown(i, value)
      PROVE  GridInv'
  <2>1. ToClick(i, value) \in Rests /\ ToClick(i, value).op = "click" /\ "grid" \in Windows
    BY RestTypes, DefsAssumption DEF Windows
  <2>2. CASE editor = NoRow \/ failed
    <3>1. /\ EndEdit /\ focus' = "grid" /\ todo' = ToClick(i, value) /\ calling' = FALSE
          /\ UNCHANGED saved /\ UNCHANGED <<selected, alive>>
      BY <1>1, <2>2 DEF LButtonDown
    <3>2. RowsOK'
      BY <3>1, EndEditCloses, UnchangedKeepsRows DEF modelVars
    <3>3. EditorOK'
      BY <2>1, <3>1, EndEditCloses, ClosedIsOK DEF EditorOK
    <3> QED BY <3>2, <3>3
  <2>3. CASE editor # NoRow /\ ~failed
    <3>1. CommitEditor("grid", ToClick(i, value)) /\ UNCHANGED <<selected, alive>>
      BY <1>1, <2>3 DEF LButtonDown
    <3> QED BY <2>1, <2>3, <3>1, CommitKeepsRows, CommitKeepsEditor DEF EditorOK
  <2> QED BY <2>2, <2>3
<1>2. ASSUME KeyDown \/ KeyUp PROVE GridInv'
  <2>1. /\ todo = Done /\ editor = NoRow
        /\ UNCHANGED modelVars /\ UNCHANGED <<editorVars, alive, focus, todo, calling>>
    BY <1>2 DEF KeyDown, KeyUp, Idle, Silent, EditorOK, EditorHasFocus
  <2>2. selected' \in Nat
    BY <1>2, RowTypes DEF KeyDown, KeyUp, Selected, Rows, EditorOK
  <2>3. RowsOK' /\ KeepsDefs
    BY <2>1, UnchangedKeepsRows
  <2>4. EditorOK'
    BY <2>1, <2>2
       DEF EditorOK, editorVars, EditorHasFocus, EditorOnItsRow, CallbackClosesEditor,
           RefusalStands, OpenWaits
  <2> QED BY <2>3, <2>4
<1>3. ASSUME KeyActivate PROVE GridInv'
  <2>1. editor = NoRow /\ Activate(selected) /\ UNCHANGED <<selected, alive>>
    BY <1>3 DEF KeyActivate, EditorOK, EditorHasFocus
  <2> QED BY <2>1, ActivateKeepsRows, ActivateKeepsEditor
<1>4. ASSUME NEW v \in Texts, Type(v) PROVE GridInv'
  <2>1. RowsOK' /\ KeepsDefs
    BY <1>4, UnchangedKeepsRows DEF Type, Silent
  <2>2. EditorOnItsRow'
    BY <1>4, <2>1, RowStays DEF Type, EditorOK
  <2>3. todo = Done /\ UNCHANGED <<todo, calling, editor, failed, orphan, selected, alive, focus>>
        /\ text' = v
    BY <1>4 DEF Type, Idle, Silent
  <2>4. EditorOK'
    BY <2>2, <2>3, RestTypes
       DEF EditorOK, EditorHasFocus, CallbackClosesEditor, RefusalStands, OpenWaits
  <2> QED BY <2>1, <2>4
<1>5. ASSUME Enter PROVE GridInv'
  <2>1. editor # NoRow /\ CommitEditor(focus, Done) /\ UNCHANGED <<selected, alive>>
    BY <1>5 DEF Enter
  <2> QED BY <2>1, RestTypes, CommitKeepsRows, CommitKeepsEditor DEF EditorOK
<1>6. ASSUME Escape PROVE GridInv'
  <2>1. /\ EndEdit /\ focus' = "grid" /\ todo = Done
        /\ UNCHANGED <<saved, selected, alive, todo, calling>>
    BY <1>6 DEF Escape, Idle
  <2>2. RowsOK'
    BY <2>1, EndEditCloses, UnchangedKeepsRows DEF modelVars
  <2>3. EditorOK'
    BY <2>1, RestTypes, EndEditCloses, ClosedIsOK DEF EditorOK, Windows
  <2> QED BY <2>2, <2>3
<1>7. ASSUME FocusLeaves PROVE GridInv'
  <2>0. todo = Done /\ UNCHANGED <<selected, alive>>
    BY <1>7 DEF FocusLeaves, Idle
  <2>1. CASE editor # NoRow /\ CommitEditor("elsewhere", Done)
    BY <2>0, <2>1, RestTypes, CommitKeepsRows, CommitKeepsEditor DEF EditorOK, Windows
  <2>2. CASE EndEdit /\ focus' = "elsewhere" /\ UNCHANGED <<saved, todo, calling>>
    <3>1. RowsOK'
      BY <2>2, EndEditCloses, UnchangedKeepsRows DEF modelVars
    <3>2. EditorOK'
      BY <2>0, <2>2, RestTypes, EndEditCloses, ClosedIsOK DEF EditorOK, Windows
    <3> QED BY <3>1, <3>2
  <2> QED BY <1>7, <2>1, <2>2 DEF FocusLeaves
<1>8. ASSUME FocusArrives PROVE GridInv'
  <2>1. /\ todo = Done /\ editor = NoRow /\ focus' = "grid"
        /\ UNCHANGED modelVars /\ UNCHANGED <<editorVars, selected, alive, todo, calling>>
    BY <1>8 DEF FocusArrives, Idle, Silent, EditorOK, EditorHasFocus
  <2>2. RowsOK'
    BY <2>1, UnchangedKeepsRows
  <2>3. EditorOK'
    BY <2>1 DEF EditorOK, editorVars, Windows, EditorHasFocus, EditorOnItsRow,
           CallbackClosesEditor, RefusalStands, OpenWaits
  <2> QED BY <2>2, <2>3
<1> QED BY <1>1, <1>2, <1>3, <1>4, <1>5, <1>6, <1>7, <1>8 DEF Messages

\* Nothing happens.
LEMMA StutterPreserves == GridInv /\ UNCHANGED vars => GridInv'
<1> SUFFICES ASSUME GridInv, UNCHANGED vars PROVE GridInv'
  OBVIOUS
<1>1. RowsOK' /\ KeepsDefs
  BY UnchangedKeepsRows DEF GridInv, vars
<1>2. EditorOK'
  BY DEF GridInv, vars, modelVars, editorVars, EditorOK, EditorHasFocus, EditorOnItsRow,
         CallbackClosesEditor, RefusalStands, OpenWaits, Unchanged, Acceptable, Rows
<1> QED BY <1>1, <1>2 DEF GridInv

-----------------------------------------------------------------------------
(* The theorems *)

\* Every reachable state of the grid satisfies the inductive invariant, for
\* every set of properties the host may add.
THEOREM GridInvariance == Spec => []GridInv
<1>1. GridInv /\ [Next]_vars => GridInv'
  BY HostCallsPreserve, MessagesPreserve, ResumePreserves, StutterPreserves DEF Next
<1> QED BY InitInv, <1>1, PTL DEF Spec

\* begin_edit, commit_editor and the focus handlers: an editor never outlives
\* the focus it was given, in spite of SetFocus and DestroyWindow re-entering.
THEOREM EditorFocused == Spec => []EditorHasFocus
<1>1. GridInv => EditorHasFocus
  BY DEF GridInv, EditorOK
<1> QED BY GridInvariance, <1>1, PTL

\* begin_edit: an editor is only ever on a row that may be edited in place.
THEOREM EditorPlaced == Spec => []EditorOnItsRow
<1>1. GridInv => EditorOnItsRow
  BY DEF GridInv, EditorOK
<1> QED BY GridInvariance, <1>1, PTL

\* The editor is focused and placed in every reachable state.
THEOREM EditorsConsistent == Spec => []EditorConsistent
<1>1. GridInv => EditorConsistent
  BY DEF GridInv, EditorOK, EditorConsistent
<1> QED BY GridInvariance, <1>1, PTL

\* on_value_changed tells the host every value a row comes to show.
THEOREM HostMirror == Spec => []HostMirrorsRows
<1>1. GridInv => HostMirrorsRows
  BY DEF GridInv, RowsOK
<1> QED BY GridInvariance, <1>1, PTL

\* on_applied is called for every value apply_all promotes.
THEOREM HostSaves == Spec => []HostSavesApplied
<1>1. GridInv => HostSavesApplied
  BY DEF GridInv, RowsOK
<1> QED BY GridInvariance, <1>1, PTL

-----------------------------------------------------------------------------
(* What the row of an open editor shows                                    *)

\* The row being edited shows what it did when its editor was opened: only
\* closing the editor, or the host, gives it another value.
OpenedOK ==
    /\ opened \in Texts \cup {NoText}
    /\ editor # NoRow /\ ~orphan => editor \in Rows /\ Display(slots[editor]) = opened

\* Whoever closes the editor ends what was opened.
LEMMA ClosedOpened == ASSUME NoEditor PROVE OpenedOK'
BY DEF NoEditor, OpenedOK

\* What leaves the row of the editor showing what it shows keeps it.
LEMMA OpenedStays ==
  ASSUME OpenedOK, UNCHANGED <<editor, orphan, opened>>,
         editor # NoRow /\ ~orphan =>
            editor \in Rows' /\ Display(slots'[editor]) = Display(slots[editor])
  PROVE  OpenedOK'
BY DEF OpenedOK

\* What leaves the rows and the editor alone does.
LEMMA OpenedUntouched ==
  ASSUME OpenedOK, UNCHANGED <<slots, editorVars>>
  PROVE  OpenedOK'
BY DEF OpenedOK, editorVars, Rows, Display

\* One row replaced by another, not the one being edited or shown as before.
LEMMA OpenedElsewhere ==
  ASSUME RowsOK, OpenedOK, NEW i \in Rows, NEW s \in Slots,
         slots' = [slots EXCEPT ![i] = s], UNCHANGED <<editor, orphan, opened>>,
         editor = i /\ ~orphan => Display(s) = Display(slots[i])
  PROVE  OpenedOK'
<1>1. /\ Rows' = Rows
      /\ \A j \in Rows : slots'[j] = IF j = i THEN s ELSE slots[j]
  BY ExceptSeq DEF RowsOK, Rows
<1>2. editor # NoRow /\ ~orphan =>
        editor \in Rows' /\ Display(slots'[editor]) = Display(slots[editor])
  BY <1>1 DEF OpenedOK
<1> QED BY <1>2, OpenedStays

\* A commit closes the editor, or refuses and changes no row.
LEMMA CommitKeepsOpened ==
  ASSUME RowsOK, OpenedOK, NEW window, NEW rest, CommitEditor(window, rest)
  PROVE  OpenedOK'
<1>1. CASE NoEditor
  BY <1>1, ClosedOpened
<1>2. CASE Refuse(window)
  BY <1>2 DEF Refuse, OpenedOK, Rows, Display
<1> QED BY <1>1, <1>2, EndEditCloses DEF CommitEditor

\* begin_edit starts from what the row shows.
LEMMA OpenKeepsOpened ==
  ASSUME RowsOK, OpenedOK, NEW i, Open(i), UNCHANGED slots
  PROVE  OpenedOK'
<1>1. CASE editor = NoRow /\ i \in Rows /\ alive
  <2>1. Display(slots[i]) \in Texts
    BY <1>1, RowTypes, SlotOperations
  <2> QED BY <1>1, <2>1 DEF Open, OpenedOK, Rows, Display
<1>2. CASE ~(editor = NoRow /\ i \in Rows /\ alive)
  BY <1>2, OpenedUntouched DEF Open
<1> QED BY <1>1, <1>2

\* A toggled row is not the one being edited: it is never edited.
LEMMA ActivateKeepsOpened ==
  ASSUME GridInv, OpenedOK, NEW i, Activate(i)
  PROVE  OpenedOK'
<1> USE DEF GridInv
<1>1. CASE BeginEdit(i)
  <2>1. CASE editor # NoRow
    BY <1>1, <2>1, CommitKeepsOpened DEF BeginEdit
  <2>2. CASE editor = NoRow
    BY <1>1, <2>2, OpenKeepsOpened DEF BeginEdit, modelVars
  <2> QED BY <2>1, <2>2
<1>2. CASE i \in Rows /\ slots[i].def.instant /\ Toggle(i) /\ UNCHANGED editorVars
  <2>1. CASE UNCHANGED slots
    BY <1>2, <2>1, OpenedUntouched
  <2>2. ASSUME NEW v, Accepts(slots[i], v), SetPending(i, v) PROVE OpenedOK'
    <3>1. [slots[i] EXCEPT !.pending = v] \in Slots
      BY <1>2, <2>2, RowTypes, SlotPending
    <3>2. slots' = [slots EXCEPT ![i] = [slots[i] EXCEPT !.pending = v]]
      BY <2>2 DEF SetPending
    <3>3. ~(editor = i /\ ~orphan)
      BY <1>2, RowTypes DEF EditorOK, EditorOnItsRow, Rows, NoRow
    <3>4. UNCHANGED <<editor, orphan, opened>>
      BY <1>2 DEF editorVars
    <3> QED BY <1>2, <3>1, <3>2, <3>3, <3>4, OpenedElsewhere
  <2> QED BY <1>2, <2>1, <2>2 DEF Toggle
<1>3. CASE UNCHANGED modelVars /\ UNCHANGED editorVars
  BY <1>3, OpenedUntouched DEF modelVars
<1> QED BY <1>1, <1>2, <1>3 DEF Activate

\* apply_all changes no row's shown value.
LEMMA PromoteKeepsOpened ==
  ASSUME RowsOK, OpenedOK, Promote, UNCHANGED editorVars
  PROVE  OpenedOK'
<1>1. /\ Rows' = Rows
      /\ \A i \in Rows : slots'[i] = Applied(slots[i])
  BY RowTypes, SlotOperations, AllRowsReplaced DEF Promote
<1>2. \A i \in Rows : Display(slots'[i]) = Display(slots[i])
  BY <1>1, RowTypes, SlotOperations
<1> QED BY <1>1, <1>2, OpenedStays DEF OpenedOK, editorVars

\* The calls of the host,
LEMMA HostCallsKeepOpened == GridInv /\ OpenedOK /\ HostCalls => OpenedOK'
<1> SUFFICES ASSUME GridInv, OpenedOK, HostCalls PROVE OpenedOK'
  OBVIOUS
<1> USE DEF GridInv
<1>1. ASSUME NEW d \in Defs, AddProperty(d) PROVE OpenedOK'
  <2>1. /\ RowsOK' /\ Len(slots') = Len(slots) + 1
        /\ \A i \in Rows : slots'[i] = slots[i]
    BY <1>1, AddPropertyKeepsRows
  <2>2. Rows \subseteq Rows'
    BY <2>1, RowTypes DEF Rows
  <2> QED BY <1>1, <2>1, <2>2, OpenedStays DEF OpenedOK, AddProperty, editorVars
<1>2. ASSUME ClearModel PROVE OpenedOK'
  BY <1>2 DEF ClearModel, OpenedOK
<1>3. ASSUME EndEditByHost, UNCHANGED slots \/ editor # NoRow PROVE OpenedOK'
  BY <1>3, ClosedOpened, OpenedUntouched DEF EndEditByHost
<1>4. ASSUME NEW i \in Rows, NEW v \in Texts, SetValue(i, v) PROVE OpenedOK'
  <2>0. i # NoRow
    BY RowTypes DEF Rows, NoRow
  <2>1. CASE editor = i
    BY <1>3, <1>4, <2>0, <2>1 DEF SetValue
  <2>2. CASE editor # i /\ Accepts(slots[i], v)
    <3>1. [slots[i] EXCEPT !.pending = v] \in Slots
      BY <2>2, RowTypes, SlotPending
    <3>2. /\ slots' = [slots EXCEPT ![i] = [slots[i] EXCEPT !.pending = v]]
          /\ UNCHANGED <<editor, orphan, opened>>
      BY <1>4, <2>2 DEF SetValue, SetPending, editorVars
    <3> QED BY <2>2, <3>1, <3>2, OpenedElsewhere
  <2>3. CASE editor # i /\ ~Accepts(slots[i], v)
    BY <1>4, <2>3, OpenedUntouched DEF SetValue
  <2> QED BY <2>1, <2>2, <2>3
<1>5. ASSUME ApplyAll PROVE OpenedOK'
  <2>1. CASE editor = NoRow
    BY <1>5, <2>1, PromoteKeepsOpened DEF ApplyAll
  <2>2. CASE editor # NoRow
    BY <1>5, <2>2, CommitKeepsOpened DEF ApplyAll
  <2> QED BY <2>1, <2>2
<1>6. ASSUME RevertAll PROVE OpenedOK'
  <2>1. CASE editor # NoRow
    BY <1>3, <1>6, <2>1 DEF RevertAll
  <2>2. CASE editor = NoRow
    BY <1>6, <2>2 DEF RevertAll, EndEditByHost, OpenedOK, editorVars
  <2> QED BY <2>1, <2>2
<1>7. ASSUME NEW i \in Rows, ApplyRow(i) PROVE OpenedOK'
  <2>1. Applied(slots[i]) \in Slots /\ Display(Applied(slots[i])) = Display(slots[i])
    BY RowTypes, SlotOperations
  <2>2. slots' = [slots EXCEPT ![i] = Applied(slots[i])] /\ UNCHANGED <<editor, orphan, opened>>
    BY <1>7 DEF ApplyRow, editorVars
  <2> QED BY <2>1, <2>2, OpenedElsewhere
<1>8. ASSUME NEW i \in Rows, RevertRow(i) PROVE OpenedOK'
  <2>1. /\ Reverted(slots[i]) \in Slots /\ slots[i].committed \in Texts
        /\ Display(Reverted(slots[i])) = slots[i].committed
    BY RowTypes, SlotOperations DEF Slots
  <2>2. /\ slots' = [slots EXCEPT ![i] = Reverted(slots[i])] /\ UNCHANGED <<editor, orphan>>
        /\ opened' = IF editor = i THEN slots[i].committed ELSE opened
    BY <1>8 DEF RevertRow
  <2>3. CASE editor # i
    BY <2>1, <2>2, <2>3, OpenedElsewhere
  <2>4. CASE editor = i
    <3>1. i \in Rows' /\ slots'[i] = Reverted(slots[i])
      BY <2>1, <2>2, ExceptSeq DEF RowsOK, Rows
    <3> QED BY <2>1, <2>2, <2>4, <3>1 DEF OpenedOK
  <2> QED BY <2>3, <2>4
<1>9. ASSUME (\E i \in Rows : Select(i)) \/ Create PROVE OpenedOK'
  BY <1>9, OpenedUntouched DEF Select, Create, modelVars
<1>10. ASSUME Destroy PROVE OpenedOK'
  BY <1>10, ClosedOpened DEF Destroy
<1> QED BY <1>1, <1>2, <1>4, <1>5, <1>6, <1>7, <1>8, <1>9, <1>10 DEF HostCalls

\* the messages of the window and what goes on after a commit keep it.
LEMMA MessagesKeepOpened == GridInv /\ OpenedOK /\ (Messages \/ Resume) => OpenedOK'
<1> SUFFICES ASSUME GridInv, OpenedOK, Messages \/ Resume PROVE OpenedOK'
  OBVIOUS
<1> USE DEF GridInv
<1>1. ASSUME NEW window, NEW rest, CommitEditor(window, rest) PROVE OpenedOK'
  BY <1>1, CommitKeepsOpened
<1>2. ASSUME EndEdit PROVE OpenedOK'
  BY <1>2, EndEditCloses, ClosedOpened
<1>3. ASSUME NEW i, Activate(i) PROVE OpenedOK'
  BY <1>3, ActivateKeepsOpened
<1>4. ASSUME UNCHANGED <<slots, editorVars>> PROVE OpenedOK'
  BY <1>4, OpenedUntouched
<1>5. ASSUME NEW v \in Texts, Type(v) PROVE OpenedOK'
  BY <1>5 DEF Type, Silent, modelVars, OpenedOK, Rows, Display
<1>6. CASE Messages
  <2>1. ASSUME NEW i \in 0..MaxRows, NEW value \in BOOLEAN, LButtonDown(i, value)
        PROVE  OpenedOK'
    BY <1>1, <1>2, <2>1 DEF LButtonDown
  <2>2. CASE KeyDown \/ KeyUp \/ FocusArrives
    BY <1>4, <2>2 DEF KeyDown, KeyUp, FocusArrives, Silent, modelVars
  <2>3. CASE KeyActivate \/ Enter \/ Escape \/ FocusLeaves
    BY <1>1, <1>2, <1>3, <2>3 DEF KeyActivate, Enter, Escape, FocusLeaves
  <2> QED BY <1>5, <1>6, <2>1, <2>2, <2>3 DEF Messages
<1>7. CASE Resume
  <2>1. CASE todo.op = "apply"
    BY <1>7, <2>1, PromoteKeepsOpened DEF Resume
  <2>2. CASE todo.op = "open"
    BY <1>7, <2>2, OpenKeepsOpened DEF Resume, modelVars
  <2>3. CASE todo.op = "click"
    <3>1. ClickRest(todo.row, todo.value)
      BY <1>7, <2>3 DEF Resume
    <3> QED BY <3>1, <1>1, <1>3, <1>4 DEF ClickRest, modelVars
  <2> QED BY <1>7, <2>1, <2>2, <2>3 DEF Resume, EditorOK, Rests
<1> QED BY <1>6, <1>7

\* So it holds in every reachable state.
THEOREM OpenedInvariance == Spec => []OpenedOK
<1>1. Init => OpenedOK
  BY DEF Init, OpenedOK
<1>2. GridInv /\ OpenedOK /\ [Next]_vars => OpenedOK'
  <2>1. ASSUME OpenedOK, UNCHANGED vars PROVE OpenedOK'
    BY <2>1, OpenedUntouched DEF vars, modelVars
  <2> QED BY <2>1, HostCallsKeepOpened, MessagesKeepOpened DEF Next
<1> QED BY GridInvariance, <1>1, <1>2, PTL DEF Spec

\* The variables of PropertyGrid and of its model keep their types.
THEOREM GridTypeCorrect == Spec => []TypeOK
<1>1. GridInv /\ OpenedOK => TypeOK
  BY DEF GridInv, RowsOK, EditorOK, OpenedOK, TypeOK
<1> QED BY GridInvariance, OpenedInvariance, <1>1, PTL

\* Escape gives back what the row and the host showed when the editor was
\* opened: no handler in between, re-entered or not, has changed that row, and
\* the focus message that destroying the editor sends commits nothing.
THEOREM CancelSafe == Spec => CancelDiscards
<1> DEFINE Back == Display(slots'[editor]) = opened /\ told'[editor] = opened
<1>1. ASSUME GridInv, OpenedOK, Escape, ~orphan PROVE Back
  <2>1. editor # NoRow /\ EndEdit
    BY <1>1 DEF Escape
  <2>2. UNCHANGED <<slots, told>>
    BY <1>1, <2>1, EndEditCloses DEF GridInv
  <2>3. editor \in Rows /\ Display(slots[editor]) = opened
    BY <1>1, <2>1 DEF OpenedOK
  <2> QED BY <1>1, <2>2, <2>3 DEF GridInv, RowsOK, HostMirrorsRows
<1>2. GridInv /\ OpenedOK /\ [Next]_vars => [Escape /\ ~orphan => Back]_vars
  BY <1>1
<1>3. CancelDiscards <=> [][Escape /\ ~orphan => Back]_vars
  BY PTL DEF CancelDiscards
<1> QED BY GridInvariance, OpenedInvariance, <1>2, <1>3, PTL DEF Spec

\* commit_editor: either the text is what the row shows already, or it is
\* accepted and shown, or the editor stays.
LEMMA CommitKeepsText ==
  ASSUME GridInv, Acceptable, NEW window, NEW rest, CommitEditor(window, rest)
  PROVE  Display(slots'[editor]) = text
<1>1. CASE Unchanged /\ EndEdit
  BY <1>1, EndEditCloses DEF Unchanged, GridInv
<1>2. CASE SetPending(editor, text)
  <2>1. slots'[editor] = [slots[editor] EXCEPT !.pending = text]
    BY <1>2, RowTypes, LenProperties DEF SetPending, Acceptable, GridInv, RowsOK, Rows
  <2> QED BY <2>1, RowTypes, SlotPending DEF Acceptable, GridInv
<1> QED BY <1>1, <1>2 DEF CommitEditor

\* commit_editor, its callers and the focus handlers: closing an editor loses
\* no text the property accepts, unless it was cancelled or refused before.
THEOREM TextKept == Spec => NoTextLost
<1> DEFINE Cancelled == \/ Escape \/ RevertAll \/ Destroy
                        \/ \E v \in Texts : SetValue(editor, v)
           Kept == Display(slots'[editor]) = text
           Closed == editor # NoRow /\ ~failed /\ Acceptable /\ editor' = NoRow
<1>1. ASSUME GridInv, Next, Closed PROVE Cancelled \/ Kept
  <2> USE <1>1
  <2>1. ASSUME NEW window, NEW rest, CommitEditor(window, rest) PROVE Kept
    BY <2>1, CommitKeepsText
  <2>2. ASSUME NEW i, Activate(i) PROVE Kept
    BY <2>2, <2>1 DEF Activate, BeginEdit, editorVars
  <2>3. CASE HostCalls
    <3>1. editor' = editor \/ ApplyAll \/ Cancelled
      BY <2>3 DEF HostCalls, AddProperty, ClearModel, SetValue, ApplyRow, RevertRow,
                  Select, Create, editorVars
    <3>2. ASSUME ApplyAll PROVE Kept
      BY <3>2, <2>1 DEF ApplyAll, editorVars
    <3> QED BY <3>1, <3>2
  <2>4. CASE Resume
    <3>1. CASE todo.op = "click"
      <4>1. ClickRest(todo.row, todo.value)
        BY <2>4, <3>1 DEF Resume
      <4> QED BY <4>1, <2>1, <2>2 DEF ClickRest, editorVars
    <3>2. CASE todo.op = "open"
      BY <2>4, <3>2 DEF Resume, Open, editorVars
    <3>3. CASE todo.op = "apply"
      BY <2>4, <3>3 DEF Resume, editorVars
    <3> QED BY <2>4, <3>1, <3>2, <3>3 DEF Resume, GridInv, EditorOK, Rests
  <2>5. CASE Messages
    <3>1. ASSUME NEW i \in 0..MaxRows, NEW value \in BOOLEAN, LButtonDown(i, value) PROVE Kept
      BY <3>1, <2>1 DEF LButtonDown
    <3>2. ASSUME FocusLeaves PROVE Kept
      BY <3>2, <2>1 DEF FocusLeaves
    <3>3. ASSUME Enter \/ KeyActivate PROVE Kept
      BY <3>3, <2>1, <2>2 DEF Enter, KeyActivate
    <3>4. \/ editor' = editor \/ Escape \/ Enter \/ KeyActivate \/ FocusLeaves
          \/ \E i \in 0..MaxRows, value \in BOOLEAN : LButtonDown(i, value)
      BY <2>5 DEF Messages, KeyDown, KeyUp, Type, FocusArrives, editorVars
    <3> QED BY <3>1, <3>2, <3>3, <3>4
  <2> QED BY <2>3, <2>4, <2>5 DEF Next
<1>2. GridInv /\ [Next]_vars => [Closed => Cancelled \/ Kept]_vars
  BY <1>1
<1>3. NoTextLost <=> [][Closed => Cancelled \/ Kept]_vars
  BY PTL DEF NoTextLost
<1> QED BY GridInvariance, <1>2, <1>3, PTL DEF Spec

-----------------------------------------------------------------------------
(* The refinement *)

\* What BufferedValues sees of an edit, an apply and a revert of one row.
LEMMA EntryOperations ==
  ASSUME NEW s \in Slots
  PROVE  /\ Entry(Applied(s)) = [Entry(s) EXCEPT !.kept = Entry(s).shown]
         /\ Entry(Reverted(s)) = [Entry(s) EXCEPT !.shown = Entry(s).kept]
         /\ \A v : Accepts(s, v) =>
                /\ v \in Entry(s).takes
                /\ Entry([s EXCEPT !.pending = v]) = [Entry(s) EXCEPT !.shown = v]
<1>1. ASSUME NEW v, Accepts(s, v)
      PROVE  /\ v \in Entry(s).takes
             /\ Entry([s EXCEPT !.pending = v]) = [Entry(s) EXCEPT !.shown = v]
  <2>1. v \in Takes(s.def)
    BY <1>1 DEF Takes, Accepts
  <2> QED BY <1>1, <2>1, SlotPending DEF Entry
<1>2. Entry(Applied(s)) = [Entry(s) EXCEPT !.kept = Entry(s).shown]
  BY SlotOperations DEF Entry
<1>3. Entry(Reverted(s)) = [Entry(s) EXCEPT !.shown = Entry(s).kept]
  BY SlotOperations DEF Entry
<1> QED BY <1>1, <1>2, <1>3

\* The rows stay: what BufferedValues sees of them afterwards.
LEMMA HeldRows ==
  ASSUME RowsOK
  PROVE  /\ DOMAIN Held = Rows /\ Values!Rows = Rows
         /\ \A i \in Rows : Held[i] = Entry(slots[i])
BY DEF Held, Values!Rows

\* set_pending.
LEMMA SetPendingIsEdit ==
  ASSUME RowsOK, NEW i \in Rows, NEW v, Accepts(slots[i], v), SetPending(i, v)
  PROVE  Values!Edit
<1>1. slots[i] \in Slots /\ slots \in Seq(Slots)
  BY RowTypes DEF RowsOK
<1>2. /\ v \in Entry(slots[i]).takes
      /\ Entry([slots[i] EXCEPT !.pending = v]) = [Entry(slots[i]) EXCEPT !.shown = v]
  BY <1>1, EntryOperations
<1>3. /\ slots' = [slots EXCEPT ![i] = [slots[i] EXCEPT !.pending = v]]
      /\ [slots[i] EXCEPT !.pending = v] \in Slots
  BY <1>1, SlotPending DEF SetPending
<1>4. /\ Rows' = Rows
      /\ \A j \in Rows : slots'[j] = IF j = i THEN [slots[i] EXCEPT !.pending = v] ELSE slots[j]
  BY <1>1, <1>3, ExceptSeq DEF Rows
<1>5. Held' = [Held EXCEPT ![i].shown = v]
  BY <1>2, <1>4 DEF Held
<1> QED BY <1>2, <1>5, HeldRows DEF Values!Edit

\* apply_all.
LEMMA PromoteIsKeep ==
  ASSUME RowsOK, Promote
  PROVE  Values!Keep
<1>1. /\ Rows' = Rows
      /\ \A i \in Rows : slots'[i] = Applied(slots[i])
  BY RowTypes, SlotOperations, AllRowsReplaced DEF Promote
<1>2. \A i \in Rows : Entry(slots'[i]) = [Held[i] EXCEPT !.kept = Held[i].shown]
  BY <1>1, RowTypes, HeldRows, EntryOperations
<1>3. Held' = [i \in Rows |-> [Held[i] EXCEPT !.kept = Held[i].shown]]
  BY <1>1, <1>2 DEF Held
<1> QED BY <1>3, HeldRows DEF Values!Keep, Values!KeepThe

\* revert_all.
LEMMA RevertAllIsRestore ==
  ASSUME RowsOK, slots' = [i \in Rows |-> Reverted(slots[i])]
  PROVE  Values!Restore
<1>1. /\ Rows' = Rows
      /\ \A i \in Rows : slots'[i] = Reverted(slots[i])
  BY RowTypes, SlotOperations, AllRowsReplaced
<1>2. \A i \in Rows : Entry(slots'[i]) = [Held[i] EXCEPT !.shown = Held[i].kept]
  BY <1>1, RowTypes, HeldRows, EntryOperations
<1>3. Held' = [i \in Rows |-> [Held[i] EXCEPT !.shown = Held[i].kept]]
  BY <1>1, <1>2 DEF Held
<1> QED BY <1>3, HeldRows DEF Values!Restore, Values!RestoreThe

\* apply.
LEMMA ApplyRowIsKeep ==
  ASSUME RowsOK, NEW i \in Rows, slots' = [slots EXCEPT ![i] = Applied(@)]
  PROVE  Values!Keep
<1>1. slots[i] \in Slots /\ Applied(slots[i]) \in Slots /\ slots \in Seq(Slots)
  BY RowTypes, SlotOperations DEF RowsOK
<1>2. /\ Rows' = Rows
      /\ \A j \in Rows : slots'[j] = IF j = i THEN Applied(slots[i]) ELSE slots[j]
  BY <1>1, ExceptSeq DEF Rows
<1>3. \A j \in Rows :
        Entry(slots'[j]) = IF j \in {i} THEN [Held[j] EXCEPT !.kept = Held[j].shown] ELSE Held[j]
  BY <1>1, <1>2, HeldRows, EntryOperations
<1>4. Held' = [j \in Rows |->
                IF j \in {i} THEN [Held[j] EXCEPT !.kept = Held[j].shown] ELSE Held[j]]
  BY <1>2, <1>3 DEF Held
<1> QED BY <1>4, HeldRows DEF Values!Keep, Values!KeepThe

\* revert.
LEMMA RevertRowIsRestore ==
  ASSUME RowsOK, NEW i \in Rows, slots' = [slots EXCEPT ![i] = Reverted(@)]
  PROVE  Values!Restore
<1>1. slots[i] \in Slots /\ Reverted(slots[i]) \in Slots /\ slots \in Seq(Slots)
  BY RowTypes, SlotOperations DEF RowsOK
<1>2. /\ Rows' = Rows
      /\ \A j \in Rows : slots'[j] = IF j = i THEN Reverted(slots[i]) ELSE slots[j]
  BY <1>1, ExceptSeq DEF Rows
<1>3. \A j \in Rows :
        Entry(slots'[j]) = IF j \in {i} THEN [Held[j] EXCEPT !.shown = Held[j].kept] ELSE Held[j]
  BY <1>1, <1>2, HeldRows, EntryOperations
<1>4. Held' = [j \in Rows |->
                IF j \in {i} THEN [Held[j] EXCEPT !.shown = Held[j].kept] ELSE Held[j]]
  BY <1>2, <1>3 DEF Held
<1> QED BY <1>4, HeldRows DEF Values!Restore, Values!RestoreThe

\* add_property.
LEMMA AddPropertyIsAdd ==
  ASSUME RowsOK, NEW d \in Defs, AddProperty(d)
  PROVE  Values!Add
<1> DEFINE s == [def |-> d, committed |-> d.value, pending |-> NoText]
           e == [takes |-> Entry(s).takes, shown |-> d.value, kept |-> d.value]
<1>1. d \in Definitions /\ d.value \in Texts /\ s \in Slots
  BY DefsAssumption DEF Definitions, Slots
<1>2. Entry(s) = e /\ Entry(s).takes \in SUBSET Texts
  BY <1>1 DEF Entry, Takes, Display, Slots, Definitions
<1>3. slots' = Append(slots, s) /\ slots \in Seq(Slots) /\ Len(slots) \in Nat
  BY RowTypes DEF AddProperty, RowsOK
<1> HIDE DEF s, e
<1>4. /\ Len(slots') = Len(slots) + 1
      /\ \A i \in Rows : slots'[i] = slots[i]
      /\ slots'[Len(slots) + 1] = s
  BY <1>1, <1>3, AppendedSeq DEF Rows
<1> DEFINE S == {Held[i] : i \in Rows} \cup {e}
           longer == Append(Held, e)
<1>5. Held \in Seq(S) /\ Len(Held) = Len(slots) /\ e \in S
  BY <1>3, FunctionIsSeq DEF Held, Rows
<1> HIDE DEF S
<1>6. /\ longer \in Seq(S) /\ Len(longer) = Len(slots) + 1
      /\ \A i \in Rows : longer[i] = Held[i]
      /\ longer[Len(slots) + 1] = e
  BY <1>5, AppendedSeq DEF Rows
<1> HIDE DEF longer
<1>7. longer = [i \in 1..(Len(slots) + 1) |-> longer[i]]
  BY <1>6, LenProperties
<1>8. \A i \in 1..(Len(slots) + 1) : Entry(slots'[i]) = longer[i]
  BY <1>2, <1>3, <1>4, <1>6, HeldRows DEF Rows
<1>9. Held' = longer
  BY <1>4, <1>7, <1>8 DEF Held, Rows
<1> QED BY <1>1, <1>2, <1>9 DEF Values!Add, e, longer

\* clear.
LEMMA ClearModelIsClear == ClearModel => Values!Clear
<1> SUFFICES ASSUME ClearModel PROVE Held' = <<>>
  BY DEF Values!Clear
<1>1. slots' = <<>> /\ Len(<<>>) = 0
  BY DEF ClearModel
<1> QED BY <1>1 DEF Held, Rows

\* Rows that are not touched.
LEMMA UntouchedHeld == UNCHANGED slots => UNCHANGED Held
BY DEF Held, Rows

\* commit_editor.
LEMMA CommitIsEdit ==
  ASSUME RowsOK, NEW window, NEW rest, CommitEditor(window, rest)
  PROVE  Values!Edit \/ UNCHANGED Held
<1>1. CASE UNCHANGED slots
  BY <1>1, UntouchedHeld
<1>2. CASE Acceptable /\ SetPending(editor, text)
  BY <1>2, SetPendingIsEdit DEF Acceptable
<1> QED BY <1>1, <1>2, EndEditCloses DEF CommitEditor, Refuse

\* activate.
LEMMA ActivateIsEdit ==
  ASSUME RowsOK, NEW i, Activate(i)
  PROVE  Values!Edit \/ UNCHANGED Held
<1>1. CASE UNCHANGED slots
  BY <1>1, UntouchedHeld
<1>2. CASE i \in Rows /\ Toggle(i)
  <2>1. ASSUME NEW v, Accepts(slots[i], v), SetPending(i, v) PROVE Values!Edit
    BY <1>2, <2>1, SetPendingIsEdit
  <2> QED BY <1>1, <1>2, <2>1 DEF Toggle
<1>3. CASE BeginEdit(i)
  <2>1. UNCHANGED slots \/ CommitEditor(focus, ToOpen(i))
    BY <1>3 DEF BeginEdit, modelVars
  <2> QED BY <1>1, <2>1, CommitIsEdit
<1> QED BY <1>1, <1>2, <1>3 DEF Activate, modelVars

\* Every call of the host is a step of the buffered values, or none of them,
LEMMA HostCallsImplement == RowsOK /\ HostCalls => [Values!Next]_Held
<1> SUFFICES ASSUME RowsOK, HostCalls PROVE [Values!Next]_Held
  OBVIOUS
<1> USE DEF Values!Next
<1>1. ASSUME NEW d \in Defs, AddProperty(d) PROVE [Values!Next]_Held
  BY <1>1, AddPropertyIsAdd
<1>2. ASSUME ClearModel PROVE [Values!Next]_Held
  BY <1>2, ClearModelIsClear
<1>3. ASSUME NEW i \in Rows, NEW v \in Texts, SetValue(i, v) PROVE [Values!Next]_Held
  BY <1>3, SetPendingIsEdit, UntouchedHeld DEF SetValue
<1>4. ASSUME ApplyAll PROVE [Values!Next]_Held
  BY <1>4, PromoteIsKeep, CommitIsEdit DEF ApplyAll
<1>5. ASSUME RevertAll PROVE [Values!Next]_Held
  BY <1>5, RevertAllIsRestore DEF RevertAll
<1>6. ASSUME NEW i \in Rows, ApplyRow(i) \/ RevertRow(i) PROVE [Values!Next]_Held
  BY <1>6, ApplyRowIsKeep, RevertRowIsRestore DEF ApplyRow, RevertRow
<1>7. ASSUME (\E i \in Rows : Select(i)) \/ Create PROVE [Values!Next]_Held
  BY <1>7, UntouchedHeld DEF Select, Create, modelVars
<1>8. ASSUME Destroy PROVE [Values!Next]_Held
  BY <1>8, UntouchedHeld, SetPendingIsEdit DEF Destroy, Acceptable
<1> QED BY <1>1, <1>2, <1>3, <1>4, <1>5, <1>6, <1>7, <1>8 DEF HostCalls

\* every message is,
LEMMA MessagesImplement == RowsOK /\ Messages => [Values!Next]_Held
<1> SUFFICES ASSUME RowsOK, Messages PROVE [Values!Next]_Held
  OBVIOUS
<1> USE DEF Values!Next
<1>1. CASE UNCHANGED slots
  BY <1>1, UntouchedHeld
<1>2. ASSUME NEW window, NEW rest, CommitEditor(window, rest) PROVE [Values!Next]_Held
  BY <1>2, CommitIsEdit
<1>3. CASE Activate(selected)
  BY <1>3, ActivateIsEdit
<1>4. ASSUME NEW i \in 0..MaxRows, NEW value \in BOOLEAN, LButtonDown(i, value)
      PROVE  [Values!Next]_Held
  BY <1>1, <1>2, <1>4, EndEditCloses DEF LButtonDown
<1>5. CASE KeyDown \/ KeyUp \/ Escape \/ FocusArrives \/ \E v \in Texts : Type(v)
  BY <1>1, <1>5, EndEditCloses DEF KeyDown, KeyUp, Type, Escape, FocusArrives, Silent, modelVars
<1>6. CASE KeyActivate \/ Enter \/ FocusLeaves
  BY <1>1, <1>2, <1>3, <1>6, EndEditCloses DEF KeyActivate, Enter, FocusLeaves
<1> QED BY <1>4, <1>5, <1>6 DEF Messages

\* and so is what goes on after the host has been told.
LEMMA ResumeImplements == GridInv /\ Resume => [Values!Next]_Held
<1> SUFFICES ASSUME GridInv, Resume PROVE [Values!Next]_Held
  OBVIOUS
<1> USE DEF Values!Next
<1>0. RowsOK
  BY DEF GridInv
<1>1. CASE UNCHANGED slots
  BY <1>1, UntouchedHeld
<1>2. CASE todo.op = "apply"
  BY <1>0, <1>2, PromoteIsKeep DEF Resume
<1>3. CASE todo.op = "open"
  BY <1>1, <1>3 DEF Resume, modelVars
<1>4. CASE todo.op = "click"
  <2>1. ClickRest(todo.row, todo.value)
    BY <1>4 DEF Resume
  <2>2. UNCHANGED slots \/ Activate(todo.row) \/ CommitEditor(focus, Done)
    BY <2>1 DEF ClickRest, modelVars
  <2> QED BY <1>0, <1>1, <2>2, ActivateIsEdit, CommitIsEdit
<1> QED
  <2>1. todo.op \in {"apply", "open", "click"}
    BY DEF Resume, GridInv, EditorOK, Rests
  <2> QED BY <1>2, <1>3, <1>4, <2>1

\* PropertyGrid with its model: through focus messages that commit in the
\* middle of a handler and hosts that call back, the rows behave as buffered
\* values do, for every set of properties and any number of rows.
THEOREM GridImplementsBufferedValues == Spec => ImplementsBufferedValues
<1>1. Init => Values!Init
  BY DEF Init, Values!Init, Held, Rows
<1>2. GridInv /\ [Next]_vars => [Values!Next]_Held
  BY HostCallsImplement, MessagesImplement, ResumeImplements, UntouchedHeld
     DEF Next, GridInv, vars, modelVars
<1> QED
  BY GridInvariance, <1>1, <1>2, PTL DEF Spec, ImplementsBufferedValues, Values!Spec
=============================================================================
