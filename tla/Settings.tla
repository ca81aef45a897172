------------------------------ MODULE Settings -----------------------------
(***************************************************************************)
(* The settings sample (samples/NativeFrameUISettingsDemo) and its state   *)
(* file (src/persistence/Persistence.cpp): a form that is loaded when the  *)
(* program starts, marked dirty by every change, and written when the user *)
(* asks for it, by a process that may fail or die while it writes.         *)
(*                                                                         *)
(* A text is known by its length: what the program does to one is to cut   *)
(* it to its buffer and to refuse it when it is too long to be read.  The  *)
(* boxes stand together as one field.                                      *)
(***************************************************************************)
EXTENDS Pixels

CONSTANTS Lengths,      \* lengths of the texts a user enters
          Starts        \* the themes a command line asks for by --theme

BufferLength == 255     \* of the buffer the texts are gathered in
LongestRead == 4096     \* what decode_string_field accepts
Defaults == [text |-> 14, boxes |-> "defaults", category |-> 0]

NoTheme == "none"       \* a command line without --theme

Absent == [kind |-> "absent"]
Empty == [kind |-> "empty"]      \* truncated, nothing written
Torn == [kind |-> "torn"]        \* written in part

VARIABLE win
(***************************************************************************)
(* up, saving: the process runs; it has truncated the file to write it.    *)
(* form: texts, boxes and category; combo: the theme's index.              *)
(* mode, palette: the theme of the window and what was resolved from it;   *)
(*   broker: that of the process.                                          *)
(* dirty: the form says "Unsaved changes"; failed: the last write failed;  *)
(*   saved (a history): this process has written the file.                 *)
(* file: what is stored.                                                   *)
(* asked: the surfaces the last handler asked to repaint.                  *)
(***************************************************************************)
Quiet(w) == [w EXCEPT !.asked = {}]
Asking(w, surfaces) == [w EXCEPT !.asked = @ \cup surfaces]

-----------------------------------------------------------------------------
(* The state that is stored.                                               *)

ModeForIndex(index) ==
    IF index = 0 THEN "light" ELSE IF index = 1 THEN "dark" ELSE "system"

\* High contrast is shown as "System".
IndexForMode(mode) == IF mode = "light" THEN 0 ELSE IF mode = "dark" THEN 1 ELSE 2

\* gather_state reads the texts into a buffer.
\* Slip: the texts are taken whole.
GatherState_whole(w) ==
    [kind |-> "state", text |-> w.form.text, boxes |-> w.form.boxes,
     category |-> w.form.category, theme |-> w.combo]

GatherState(w) ==
    [kind |-> "state", text |-> Smaller(w.form.text, BufferLength),
     boxes |-> w.form.boxes, category |-> w.form.category, theme |-> w.combo]

\* load_state_from_file and decode_settings_state refuse a file that is not
\* there, has nothing in it, ends early or has a text that is too long.
Decodes(file) == file.kind = "state" /\ file.text <= LongestRead /\ file.theme \in 0..2

\* What a start makes of a file: all of it or nothing.
Restored(file) ==
    IF Decodes(file)
    THEN [text |-> file.text, boxes |-> file.boxes, category |-> file.category]
    ELSE Defaults

\* parse_theme of wWinMain.
ParseTheme(cli) == IF cli = NoTheme THEN "light" ELSE cli

\* set_initial_theme and create_main.  What parse_theme makes of a command line
\* without --theme counts as asked for too, and the stored theme is never used.
Started(cli, file) ==
    LET mode == ParseTheme(cli)
    IN [up |-> TRUE, saving |-> FALSE, form |-> Restored(file),
        combo |-> IndexForMode(mode), mode |-> mode, palette |-> mode, broker |-> mode,
        dirty |-> FALSE, failed |-> FALSE, saved |-> FALSE, file |-> file, asked |-> {}]

Init == \E cli \in Starts \cup {NoTheme} : win = Started(cli, Absent)

Running == win.up /\ ~win.saving

-----------------------------------------------------------------------------
(* The form.                                                               *)

MarkDirty(w) == Asking([w EXCEPT !.dirty = TRUE], {"main"})

EnterText ==
    /\ Running
    /\ \E n \in Lengths : win' = MarkDirty([Quiet(win) EXCEPT !.form.text = n])

ClickBox ==
    /\ Running
    /\ win' = MarkDirty([Quiet(win) EXCEPT !.form.boxes =
                             IF @ = "defaults" THEN "others" ELSE "defaults"])

SelectCategory ==
    /\ Running
    /\ \E c \in 0..2 \ {win.form.category} :
           win' = MarkDirty([Quiet(win) EXCEPT !.form.category = c])

ApplyTheme(w, mode) ==
    IF w.mode = mode THEN w
    ELSE Asking([w EXCEPT !.mode = mode, !.palette = mode], {"main", "children"})

\* ThemeBroker::set_theme, for the one window that is registered: the message,
\* for which it asks the broker, and the call of its handler.
BrokerSet(w, mode) ==
    IF mode = w.broker THEN w
    ELSE ApplyTheme(ApplyTheme([w EXCEPT !.broker = mode], mode), mode)

\* A press on a segment of the theme: nothing happens on the selected one.
\* Slip: the combo box is left to follow the theme.
SegmentClick_uncombined(w, index) ==
    IF index = w.combo THEN w ELSE MarkDirty(BrokerSet(w, ModeForIndex(index)))

SegmentClick(w, index) ==
    IF index = w.combo THEN w
    ELSE MarkDirty(BrokerSet([w EXCEPT !.combo = index], ModeForIndex(index)))

PickTheme == Running /\ \E index \in 0..2 : win' = SegmentClick(Quiet(win), index)

\* WM_THEMECHANGED of the system.
ThemeChanged == Running /\ win' = ApplyTheme(Quiet(win), win.broker)

-----------------------------------------------------------------------------
(* The file.                                                               *)

\* "Save snapshot": whatever becomes of the write, the form is clean.
Cleaned(w) == Asking([w EXCEPT !.dirty = FALSE, !.saving = FALSE], {"main"})

\* There is no path, or the file cannot be opened for writing.
SaveRefused == Running /\ win' = Cleaned([Quiet(win) EXCEPT !.failed = TRUE])

\* CREATE_ALWAYS: what was stored is gone before anything is written.
SaveTruncates == Running /\ win' = [Quiet(win) EXCEPT !.saving = TRUE, !.file = Empty]

SaveWrites ==
    /\ win.up /\ win.saving
    /\ win' = Cleaned([Quiet(win) EXCEPT !.file = GatherState(win), !.failed = FALSE, !.saved = TRUE])

SaveFails ==
    /\ win.up /\ win.saving
    /\ \E file \in {Empty, Torn} :
           win' = Cleaned([Quiet(win) EXCEPT !.file = file, !.failed = TRUE])

\* The process ends, in the middle of a write or not.
Crash ==
    /\ win.up
    /\ \E file \in IF win.saving THEN {Empty, Torn, GatherState(win)} ELSE {win.file} :
           win' = [Quiet(win) EXCEPT !.up = FALSE, !.saving = FALSE, !.file = file]

Restart == ~win.up /\ \E cli \in Starts \cup {NoTheme} : win' = Started(cli, win.file)

-----------------------------------------------------------------------------
Next ==
    \/ EnterText
    \/ ClickBox
    \/ SelectCategory
    \/ PickTheme
    \/ ThemeChanged
    \/ SaveRefused
    \/ SaveTruncates
    \/ SaveWrites
    \/ SaveFails
    \/ Crash
    \/ Restart

Spec == Init /\ [][Next]_win

-----------------------------------------------------------------------------
(* Properties.                                                             *)

\* "All changes saved" is true unless the last write failed: a start would find
\* the texts, boxes and category as they are, but for what does not fit the buffer
\* of a text.  The theme is stored with them as it is shown, once this process has
\* saved; but no start brings it back, as it takes its theme for an explicit one.
CleanIsStored ==
    win.up /\ ~win.saving /\ ~win.dirty /\ ~win.failed =>
        /\ Restored(win.file) = [win.form EXCEPT !.text = Smaller(@, BufferLength)]
        /\ win.saved => Decodes(win.file) /\ win.file.theme = win.combo

\* The index that is shown and stored, the theme of the window, its palette and
\* the theme of the process are one.
ThemesAgree ==
    /\ win.palette = win.mode /\ win.mode = win.broker
    /\ win.combo = IndexForMode(win.mode)

HeaderFace(w) == <<w.palette, w.dirty>>
SidebarFace(w) == <<w.palette, w.form.category>>

\* The help below the path says whether it is one; that below the theme says
\* what the theme comes to.
CardFace(w) == <<w.palette, w.form.category, w.form.text, w.mode>>
SegmentsFace(w) == <<w.palette, w.combo>>

Face(w) == [main |-> <<HeaderFace(w), SidebarFace(w), CardFace(w), SegmentsFace(w)>>,
            children |-> w.palette]

\* What changes on a surface is repainted.
Repainted ==
    win.up /\ win'.up =>
        \A s \in {"main", "children"} :
            Face(win)[s] # Face(win')[s] => s \in win'.asked
=============================================================================
