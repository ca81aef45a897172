---------------------------- MODULE PropertyGrid ----------------------------
(***************************************************************************)
(* PropertyGrid.cpp: a grid of properties, the buffered values behind it   *)
(* (committed and pending) and the in-place editor.                        *)
(*                                                                         *)
(* A step is a call of the host or a window message.  What makes it more   *)
(* than sequential code is re-entrance.  SetFocus and DestroyWindow send   *)
(* WM_KILLFOCUS to the editor before they return, so the editor may be     *)
(* committed in the middle of another handler; and a commit calls the host *)
(* back, which may call the grid again before that handler goes on.  A     *)
(* handler that still has work to do after a commit leaves it in todo.     *)
(*                                                                         *)
(* Rows are numbered from 1 and NoRow is 0 (in the code: from 0, and -1).  *)
(* Values are canonical texts; what is drawn and where is left out.        *)
(***************************************************************************)
EXTENDS Integers, Sequences

CONSTANTS
    Texts,          \* canonical texts, valid or not
    NoText,         \* has_pending is false; no editor
    Defs,           \* the properties the host adds
    MaxRows         \* bound: rows the host adds at most

NoRow == 0

\* PropertyDef.  accepts is what validate_property_value lets pass; a boolean
\* is a choice between two texts.
Definitions ==
    [editable : BOOLEAN,
     instant : BOOLEAN,         \* boolean or choice: toggled, never edited
     choices : Seq(Texts),
     accepts : SUBSET Texts,
     value : Texts]

ASSUME TextsAssumption == NoText \notin Texts
ASSUME DefsAssumption == Defs \subseteq Definitions /\ MaxRows \in Nat

VARIABLES
    slots,          \* PropertyGridModel::slots_
    selected,       \* selected_
    alive,          \* hwnd() # nullptr
    editor,         \* editing_index_ while editor_ # nullptr, else NoRow
    text,           \* what the editor contains
    failed,         \* editor_error_, FALSE while there is no editor
    focus,          \* the window with the keyboard focus
    todo,           \* rest of the handler in which the editor was committed
    calling,        \* that commit has the host in its callback
    told,           \* history: the display values the host was told
    saved,          \* history: the committed values as of the last on_applied
    orphan,         \* history: the rows were cleared under the open editor
    opened          \* history: what the editor's row showed when it was opened,
                    \* or what the host has reverted it to since

modelVars == <<slots, told, saved>>
editorVars == <<editor, text, failed, orphan, opened>>
vars == <<modelVars, editorVars, selected, alive, focus, todo, calling>>

Slots == [def : Definitions, committed : Texts, pending : Texts \cup {NoText}]
Windows == {"grid", "editor", "elsewhere"}

Done == [op |-> "done", row |-> NoRow, value |-> FALSE]
ToApply == [Done EXCEPT !.op = "apply"]
ToOpen(i) == [Done EXCEPT !.op = "open", !.row = i]
ToClick(i, value) == [op |-> "click", row |-> i, value |-> value]
Rests ==
    {rest \in [op : {"done", "apply", "open", "click"}, row : Nat, value : BOOLEAN] :
        rest.op = "done" => rest = Done}

Rows == 1..Len(slots)

-----------------------------------------------------------------------------
(* PropertyGridModel *)

Display(s) == IF s.pending = NoText THEN s.committed ELSE s.pending

Dirty(s) == s.pending # NoText /\ s.pending # s.committed
AnyDirty_FirstPending ==   \* slip: returns at the first pending row
    \E i \in Rows : Dirty(slots[i]) /\ \A j \in 1..(i - 1) : slots[j].pending = NoText
AnyDirty == \E i \in Rows : Dirty(slots[i])

Accepts_ReadOnly(s, v) == v \in s.def.accepts   \* slip: editable not checked
Accepts(s, v) == s.def.editable /\ v \in s.def.accepts

Applied(s) == [s EXCEPT !.committed = Display(s), !.pending = NoText]
Reverted(s) == [s EXCEPT !.pending = NoText]

SetPending_Silently(i, v) ==   \* slip: on_value_changed not called
    /\ slots' = [slots EXCEPT ![i].pending = v]
    /\ UNCHANGED told

\* An accepted edit, and on_value_changed.
SetPending(i, v) ==
    /\ slots' = [slots EXCEPT ![i].pending = v]
    /\ told' = [told EXCEPT ![i] = v]

-----------------------------------------------------------------------------
(* The editor *)

NoEditor ==
    /\ editor' = NoRow /\ text' = NoText /\ failed' = FALSE
    /\ orphan' = FALSE /\ opened' = NoText

\* The WM_KILLFOCUS that DestroyWindow sends, when the grid takes row for the
\* one being edited: acceptable text is committed on the way out.
KillFocusCommits(row) ==
    IF row \in Rows /\ ~failed /\ Accepts(slots[row], text)
    THEN SetPending(row, text)
    ELSE UNCHANGED <<slots, told>>

EndEdit_KeepsPointer ==   \* slip: editor_ still set during DestroyWindow
    NoEditor /\ KillFocusCommits(editor)

\* end_edit: editor_ is nulled first, so the WM_KILLFOCUS that DestroyWindow
\* sends finds no row being edited.
EndEdit == NoEditor /\ KillFocusCommits(NoRow)

Unchanged_Committed ==   \* slip: compared with the committed value
    editor \in Rows /\ text = slots[editor].committed
Unchanged == editor \in Rows /\ text = Display(slots[editor])
Acceptable == editor \in Rows /\ Accepts(slots[editor], text)

Refuse_StaysAway(window) ==   \* slip: no SetFocus on the refused editor
    /\ failed' = TRUE
    /\ focus' = window
    /\ UNCHANGED <<slots, told, editor, text, orphan, opened>>

\* The editor stays open, marked, and takes the focus back from window.
Refuse(window) ==
    /\ failed' = TRUE
    /\ focus' = "editor"
    /\ UNCHANGED <<slots, told, editor, text, orphan, opened>>

\* commit_editor while window has the focus, after which the handler has rest
\* to do.
CommitEditor(window, rest) ==
    /\ todo' = rest
    /\ \/ /\ Unchanged
          /\ EndEdit
          /\ focus' = "grid"
          /\ calling' = FALSE
       \/ /\ ~Unchanged /\ Acceptable
          /\ SetPending(editor, text)
          /\ NoEditor
          /\ focus' = "grid"
          /\ calling' = (rest # Done)
       \/ /\ ~Unchanged /\ ~Acceptable
          /\ Refuse(window)
          /\ calling' = FALSE
    /\ UNCHANGED saved

\* The rest of begin_edit: the editor is created and takes the focus.
Open(i) ==
    IF editor = NoRow /\ i \in Rows /\ alive
    THEN /\ editor' = i
         /\ text' = Display(slots[i])
         /\ failed' = FALSE /\ orphan' = FALSE
         /\ opened' = Display(slots[i])
         /\ focus' = "editor"
    ELSE UNCHANGED <<editorVars, focus>>

\* begin_edit
BeginEdit(i) ==
    IF editor # NoRow THEN CommitEditor(focus, ToOpen(i))
    ELSE /\ Open(i)
         /\ todo' = Done /\ calling' = FALSE
         /\ UNCHANGED modelVars

\* toggle_or_cycle: the choice after the displayed one.
NextChoice(d, shown) ==
    LET at == {k \in DOMAIN d.choices : d.choices[k] = shown}
    IN  IF at = {} THEN d.choices[1]
        ELSE d.choices[((CHOOSE k \in at : \A l \in at : k <= l) % Len(d.choices)) + 1]

Toggle(i) ==
    LET d == slots[i].def
        next == NextChoice(d, Display(slots[i]))
    IN  IF d.choices # <<>> /\ Accepts(slots[i], next)
        THEN SetPending(i, next)
        ELSE UNCHANGED <<slots, told>>

\* activate
Activate(i) ==
    IF i \in Rows /\ slots[i].def.editable /\ ~slots[i].def.instant THEN BeginEdit(i)
    ELSE /\ todo' = Done /\ calling' = FALSE
         /\ IF i \in Rows /\ slots[i].def.editable
            THEN Toggle(i) /\ UNCHANGED saved
            ELSE UNCHANGED modelVars
         /\ UNCHANGED <<editorVars, focus>>

-----------------------------------------------------------------------------
(* Calls of the host: between messages, or from its callbacks in the middle *)
(* of one.                                                                  *)

HostRuns == todo = Done \/ calling
HostFrame == UNCHANGED <<alive, todo, calling>>

\* Destroying the editor while it has the focus leaves the focus to the
\* parent or to nobody.
EndEditByHost ==
    IF editor # NoRow THEN NoEditor /\ focus' \in {"grid", "elsewhere"}
    ELSE UNCHANGED <<editorVars, focus>>

AddProperty(d) ==
    /\ HostRuns /\ Len(slots) < MaxRows
    /\ slots' = Append(slots, [def |-> d, committed |-> d.value, pending |-> NoText])
    /\ told' = Append(told, d.value)
    /\ saved' = Append(saved, d.value)
    /\ selected' = IF selected = NoRow THEN 1 ELSE selected
    /\ HostFrame /\ UNCHANGED <<editorVars, focus>>

\* model().clear(): neither the selection nor an open editor is told.
ClearModel ==
    /\ HostRuns
    /\ slots' = <<>> /\ told' = <<>> /\ saved' = <<>>
    /\ orphan' = (editor # NoRow)
    /\ HostFrame /\ UNCHANGED <<editor, text, failed, opened, selected, focus>>

\* set_value drops an editor on the same row, also if it then refuses.
SetValue(i, v) ==
    /\ HostRuns /\ i \in Rows
    /\ IF Accepts(slots[i], v) THEN SetPending(i, v) ELSE UNCHANGED <<slots, told>>
    /\ IF editor = i THEN EndEditByHost ELSE UNCHANGED <<editorVars, focus>>
    /\ HostFrame /\ UNCHANGED <<selected, saved>>

\* apply_all after its commit: on_applied is called if a row was dirty.
Promote ==
    /\ slots' = [i \in Rows |-> Applied(slots[i])]
    /\ saved' = IF AnyDirty THEN [i \in Rows |-> Display(slots[i])] ELSE saved
    /\ UNCHANGED told

\* An editor that refuses to commit does not keep the other rows from being
\* applied.
ApplyAll ==
    /\ HostRuns
    /\ IF editor = NoRow
       THEN Promote /\ UNCHANGED <<editorVars, focus, todo, calling>>
       ELSE CommitEditor(focus, ToApply)
    /\ UNCHANGED <<selected, alive>>

RevertAll ==
    /\ HostRuns
    /\ slots' = [i \in Rows |-> Reverted(slots[i])]
    /\ told' = [i \in Rows |-> slots[i].committed]
    /\ EndEditByHost
    /\ HostFrame /\ UNCHANGED <<selected, saved>>

\* model().apply and model().revert.
ApplyRow(i) ==
    /\ HostRuns /\ i \in Rows
    /\ slots' = [slots EXCEPT ![i] = Applied(@)]
    /\ saved' = [saved EXCEPT ![i] = Display(slots[i])]
    /\ HostFrame /\ UNCHANGED <<editorVars, selected, focus, told>>

RevertRow(i) ==
    /\ HostRuns /\ i \in Rows
    /\ slots' = [slots EXCEPT ![i] = Reverted(@)]
    /\ told' = [told EXCEPT ![i] = slots[i].committed]
    /\ opened' = IF editor = i THEN slots[i].committed ELSE opened
    /\ HostFrame /\ UNCHANGED <<editor, text, failed, orphan, selected, focus, saved>>

\* select
Selected(i) == IF i \in Rows THEN i ELSE selected

Select(i) ==
    /\ HostRuns
    /\ selected' = Selected(i)
    /\ HostFrame /\ UNCHANGED <<modelVars, editorVars, focus>>

Create ==
    /\ ~alive /\ HostRuns
    /\ alive' = TRUE
    /\ UNCHANGED <<modelVars, editorVars, selected, focus, todo, calling>>

\* The window goes, the rows stay.  Whether the editor gets a WM_KILLFOCUS,
\* and so commits, before it goes with its parent is up to the system.
Destroy ==
    /\ alive /\ todo = Done
    /\ alive' = FALSE
    /\ focus' = "elsewhere"
    /\ NoEditor
    /\ \/ UNCHANGED <<slots, told>>
       \/ editor # NoRow /\ ~failed /\ Acceptable /\ SetPending(editor, text)
    /\ UNCHANGED <<saved, selected, todo, calling>>

-----------------------------------------------------------------------------
(* Window messages *)

Idle == todo = Done /\ alive
Silent == UNCHANGED <<modelVars, todo, calling>>

\* WM_LBUTTONDOWN after its SetFocus.
ClickRest(i, value) ==
    CASE i \in Rows /\ ~(i = selected /\ value) ->
            selected' = i /\ todo' = Done /\ calling' = FALSE
            /\ UNCHANGED <<modelVars, editorVars, focus>>
      [] i \in Rows /\ i = selected /\ value ->
            Activate(i) /\ UNCHANGED selected
      [] i \notin Rows /\ editor # NoRow ->
            CommitEditor(focus, Done) /\ UNCHANGED selected
      [] OTHER ->
            todo' = Done /\ calling' = FALSE
            /\ UNCHANGED <<modelVars, editorVars, selected, focus>>

\* SetFocus first: an open editor gets WM_KILLFOCUS and commits, or is given
\* up if it was refused before.
LButtonDown(i, value) ==
    /\ Idle
    /\ IF editor = NoRow \/ failed
       THEN EndEdit /\ focus' = "grid" /\ todo' = ToClick(i, value) /\ calling' = FALSE
            /\ UNCHANGED saved
       ELSE CommitEditor("grid", ToClick(i, value))
    /\ UNCHANGED <<selected, alive>>

\* The handler goes on after the commit and the host's callback.
Resume ==
    /\ todo # Done
    /\ CASE todo.op = "apply" ->
                Promote /\ todo' = Done /\ calling' = FALSE
                /\ UNCHANGED <<editorVars, selected, focus>>
         [] todo.op = "open" ->
                Open(todo.row) /\ todo' = Done /\ calling' = FALSE
                /\ UNCHANGED <<modelVars, selected>>
         [] todo.op = "click" -> ClickRest(todo.row, todo.value)
    /\ UNCHANGED alive

KeyDown ==
    /\ Idle /\ focus = "grid" /\ Rows # {}
    /\ selected' = Selected(IF selected < Len(slots) THEN selected + 1 ELSE Len(slots))
    /\ Silent /\ UNCHANGED <<editorVars, alive, focus>>

KeyUp ==
    /\ Idle /\ focus = "grid" /\ Rows # {}
    /\ selected' = Selected(IF selected > 1 THEN selected - 1 ELSE 1)
    /\ Silent /\ UNCHANGED <<editorVars, alive, focus>>

\* Space, Enter, F2.
KeyActivate ==
    /\ Idle /\ focus = "grid" /\ Rows # {}
    /\ Activate(selected)
    /\ UNCHANGED <<selected, alive>>

Type(v) ==
    /\ Idle /\ editor # NoRow /\ focus = "editor"
    /\ text' = v
    /\ Silent /\ UNCHANGED <<editor, failed, orphan, opened, selected, alive, focus>>

Enter ==
    /\ Idle /\ editor # NoRow /\ focus = "editor"
    /\ CommitEditor(focus, Done)
    /\ UNCHANGED <<selected, alive>>

Escape ==
    /\ Idle /\ editor # NoRow /\ focus = "editor"
    /\ EndEdit
    /\ focus' = "grid"
    /\ UNCHANGED <<saved, selected, alive, todo, calling>>

\* The focus goes to another window.  A commit takes it back to the grid.
FocusLeaves ==
    /\ Idle /\ focus # "elsewhere"
    /\ \/ /\ editor # NoRow /\ ~failed
          /\ CommitEditor("elsewhere", Done)
       \/ /\ editor = NoRow \/ failed
          /\ EndEdit
          /\ focus' = "elsewhere"
          /\ UNCHANGED <<saved, todo, calling>>
    /\ UNCHANGED <<selected, alive>>

FocusArrives ==
    /\ Idle /\ focus = "elsewhere"
    /\ focus' = "grid"
    /\ Silent /\ UNCHANGED <<editorVars, selected, alive>>

-----------------------------------------------------------------------------
(* Behaviours *)

Init ==
    /\ slots = <<>> /\ told = <<>> /\ saved = <<>>
    /\ selected = NoRow /\ alive = FALSE
    /\ editor = NoRow /\ text = NoText /\ failed = FALSE
    /\ orphan = FALSE /\ opened = NoText
    /\ focus = "elsewhere"
    /\ todo = Done /\ calling = FALSE

HostCalls ==
    \/ \E d \in Defs : AddProperty(d)
    \/ ClearModel
    \/ \E i \in Rows, v \in Texts : SetValue(i, v)
    \/ ApplyAll \/ RevertAll
    \/ \E i \in Rows : ApplyRow(i) \/ RevertRow(i) \/ Select(i)
    \/ Create \/ Destroy

Messages ==
    \/ \E i \in 0..MaxRows, value \in BOOLEAN : LButtonDown(i, value)
    \/ KeyDown \/ KeyUp \/ KeyActivate
    \/ \E v \in Texts : Type(v)
    \/ Enter \/ Escape
    \/ FocusLeaves \/ FocusArrives

Next == HostCalls \/ Messages \/ Resume

Spec == Init /\ [][Next]_vars

-----------------------------------------------------------------------------
(* Properties *)

\* Every variable holds a value of its C++ type; the histories have one entry
\* for each row.
TypeOK ==
    /\ slots \in Seq(Slots)
    /\ told \in Seq(Texts) /\ Len(told) = Len(slots)
    /\ saved \in Seq(Texts) /\ Len(saved) = Len(slots)
    /\ selected \in Nat /\ alive \in BOOLEAN
    /\ editor \in Nat /\ text \in Texts \cup {NoText}
    /\ failed \in BOOLEAN
    /\ orphan \in BOOLEAN /\ opened \in Texts \cup {NoText}
    /\ focus \in Windows
    /\ todo \in Rests /\ calling \in BOOLEAN

\* An open editor has the focus, whatever window the user or the grid turned
\* to: each change of focus has closed it, or was taken back because the text
\* was refused.  No second editor is opened over one that is still open.
EditorHasFocus == editor # NoRow => alive /\ focus = "editor"

\* The editor sits on an editable row that is not toggled, also if rows were
\* changed while the commit of another editor had the host in its callback
\* (but not if the host clears the model under the open editor).
EditorOnItsRow ==
    editor # NoRow /\ ~orphan =>
        editor \in Rows /\ slots[editor].def.editable /\ ~slots[editor].def.instant

\* The editor has the focus and a row it may be on, through all re-entrance.
EditorConsistent == EditorHasFocus /\ EditorOnItsRow

\* The host that mirrors on_value_changed, and knows what it reverted itself,
\* shows the same values as the grid, also inside its callbacks.
HostMirrorsRows == \A i \in Rows : told[i] = Display(slots[i])

\* The host that saves all values on on_applied has saved every committed one,
\* also those apply_all took from an editor that was still open.
HostSavesApplied == \A i \in Rows : saved[i] = slots[i].committed

\* Text that the property accepts is never lost by closing its editor, unless
\* the user or the host cancelled it, or the editor was refused before.
NoTextLost ==
    [][ /\ editor # NoRow /\ ~failed /\ Acceptable
        /\ editor' = NoRow
        => \/ Escape \/ RevertAll \/ Destroy
           \/ \E v \in Texts : SetValue(editor, v)
           \/ Display(slots'[editor]) = text ]_vars

\* Escape takes back the whole edit: the row, and the host that mirrors it,
\* show what they showed when the editor was opened (or what the host has
\* reverted the row to since), whatever was typed, tried and refused in
\* between, though the other rows were toggled, applied or reverted meanwhile,
\* and though destroying the editor sends it one more loss of focus.  Not if
\* the host cleared the rows under the open editor.
CancelDiscards ==
    [][ Escape /\ ~orphan
        => Display(slots'[editor]) = opened /\ told'[editor] = opened ]_vars

-----------------------------------------------------------------------------
(* The rows implement the specification of buffered values                 *)

\* The texts a property takes, and what BufferedValues sees of a row.
Takes(d) == IF d.editable THEN d.accepts ELSE {}
Entry(s) == [takes |-> Takes(s.def), shown |-> Display(s), kept |-> s.committed]

Held == [i \in Rows |-> Entry(slots[i])]
Values == INSTANCE BufferedValues WITH rows <- Held

\* Whatever interrupts what, every step of the grid is to its rows one of
\* BufferedValues: one edit of one row, or one apply or revert of one row or
\* of all, or nothing.  A handler that goes on after a commit and a callback
\* never applies half of the rows, nor shows what a row does not take.
ImplementsBufferedValues == Values!Spec

-----------------------------------------------------------------------------
(* What the documentation promises and the code does not do                *)

\* "Invalid input keeps the editor open with a danger border instead of
\* committing" (PropertyGrid.hpp:82): a click on the grid does not close an
\* editor whose text the property does not accept.
InvalidKeepsEditor ==
    [][ /\ editor # NoRow /\ ~orphan /\ ~Unchanged /\ ~Acceptable
        /\ \E i \in 0..MaxRows : \E value \in BOOLEAN : LButtonDown(i, value)
        => editor' = editor ]_vars
=============================================================================
