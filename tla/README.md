# NativeFrameUI in TLA+

NativeFrameUI is a static C++20 library of Win32 windows, controls and charts.
This directory holds TLA+ models of the parts of it that carry logic of their
own, TLC runs that check them on small instances, and proofs that TLAPS checks
for every instance.

## 1. The system

Everything runs on the UI thread: the message loop (`Application.cpp`) hands
one message at a time to a window procedure (`Window.cpp`), which passes it to a
C++ object; the host program calls the objects between messages and from their
callbacks. Two handlers therefore never overlap *except by re-entrance*: some
Win32 calls (`ReleaseCapture`, `SetFocus`, `DestroyWindow`, `SendMessage`) deliver
another message before they return, and host callbacks may call back. What
varies is the order of messages: a timer message that was queued before
`KillTimer`, another window that takes the mouse capture, the host that replaces
data in the middle of a gesture.

| Component | State | Operations | Interacts with | Hard behaviour |
|---|---|---|---|---|
| Chart interaction (`charts/ChartInteraction.cpp`, `internal/InteractionState.cpp`, `internal/ChartAnimator.hpp`, `ChartView.cpp`) | gesture phase, dragged point, view and home range, axis animation, selection, undo and redo stacks, tooltip; of the window: capture, timers | `enable/disable_interaction`, `set_series`, `set_axis`, `set_visible_range`, `reset_view`, `undo`, `redo`; mouse, key, timer and capture messages | host callbacks, chart group observers, window manager | re-entrant `WM_CAPTURECHANGED`, stale `WM_TIMER`, overlapping buttons, data replaced under a drag |
| Chart groups (`charts/ChartGroup.cpp`) | entries, primary, two switches | `add/remove_chart`, `clear`, `link_x_axis`, `sync_cursor`, `set_primary_x_axis`, two observers | the charts' controllers | ranges propagated into running animations, a chart in two groups, promotion |
| Property grid (`controls/PropertyGrid.cpp`) | committed and pending value per row, selection, in-place editor and its error mark | `set_value`, `apply_all`, `revert_all`, edit, keys, clicks | native EDIT child, focus, host callbacks | `WM_KILLFOCUS` re-enters commit and end of edit |
| Theme broker (`theme/ThemeBroker.cpp`) | current theme, registry of handlers | `set_theme`, `register_hwnd`, `unregister_hwnd`, broadcast | every registered window | nested broadcasts, handlers that (un)register, dead windows |
| Persistence (`persistence/Persistence.cpp`) | state files | encode, decode, save, load | file system | truncate-then-write and a crash, limits that differ between encode and decode |
| Window core (`core/Window.cpp`, `Dialog.cpp`, `Application.cpp`) | HWND ownership, modal flag | create, destroy, attach, message reflection | window manager | destruction inside a handler |
| Control base, hover, buttons (`controls/Controls.cpp`, `core/HoverState.cpp`, `Button.cpp`, `CheckBox.cpp`, `RadioButton.cpp`) | hover, pressed, animation and its timer | mouse, timer and destroy messages | `TrackMouseEvent`, timers | leave messages that never come, timers that outlive |
| Splitter, scrollbar, slider | position, drag, pulse timer | mouse messages | capture | capture that is not released |
| Menus, commands (`menu/Menu.cpp`, `command/Command.cpp`) | menu handles, item payloads, command handlers and states | builder, owner-draw, `route` | window | ownership of popups and payloads |
| Layout (`layout/Layout.cpp`) | none | splits, rows, columns, anchors | | clamping at the bounds |
| Chart renderers (`charts/*View.cpp`, `ChartLayout`) | none besides the chart's data | layout, points, bars | hit test of the interaction | rounding, hidden series, labels of any width |
| Sample programs (`samples/*`) | per window: size and resolution, where its children and painted parts are, a theme and what was derived from it, hover and focus, and the program's own data | window messages, commands, dialogs, files | broker, controls, charts, dialogs, persistence | several copies of one theme or one series, painting and hit test computed apart, resolution changes, an early return that skips a refresh |
| Lists, trees, tabs, edits, display controls | mostly in the native control | wrappers | | custom draw |
| Painting, themes, resources, fonts, DPI, icons | tables and handles | drawing | GDI | |

What makes each correct: a chart's gesture, capture and button agree and its
edit history stays walkable; linked charts show one range; a property edit is
neither lost nor applied twice; after a theme change all windows have the same
theme; a saved state can be loaded; a control's timers and capture end with what
started them; what is painted is found by the mouse, and every change is
repainted. `PROJECT.json` lists the hazards line by line.

## 2. Plan

The order is that of what can go wrong: first what is re-entrant and keeps state
over many messages, then what several objects share, then what is pure, then the
programs that use all of it.

| # | Modules | What | Status |
|---|---|---|---|
| 1 | `Viewport`, `ChartViewport`, `EditHistory`, `ChartInteraction` | one chart and its controller, and the abstract specifications of its view and of its edits | checked, proved |
| 2 | `ChartGroup` | groups over charts reduced to `Viewport` records | checked, proved |
| 3 | `BufferedValues`, `PropertyGrid` | pending values, in-place editor, host callbacks, and the abstract specification of the values | checked, proved |
| 4 | `Control` | one control with its window: hover, press, fade, timer, check state | checked, proved |
| 5 | `ThemeBroker` | a registry and a stack of nested broadcasts | checked, proved |
| 6 | `Layout`, `ScrollThumb`, `SliderRail`, `ChartPainting` | geometry, with the objects that use it | checked, proved except what charts place |
| 7 | `Settings`, `SettingsForm` | a form, its file, a crash in a save | checked, proved |
| 8 | `Dashboard`, `DashboardPanels` | the largest program: data and themes; pointer and layout | checked, proved |
| 9 | `Workbench`, `DarkStudio`, `CodeTokens`, `ThemeDemo`, `ComponentGallery`, `NavTiles`, `Playground`, `ResourceGallery`, `DialogTour` | the other programs | checked; proved except `LaidOut` of `ThemeDemo`, `ComponentGallery` and `Playground` |
| 10 | `Menu` | menus, their brushes, their captions | checked, proved |
| 11 | Lists, trees, display controls; `CommandRouter`; the showcase | | not modelled (section 9) |

The abstract specifications are `ChartViewport` (the range of one chart, implemented by the
controller and by each member of a group), `EditHistory` (undo and redo) and `BufferedValues`
(the values of a property grid).

## 3. Modules and code

A step of a model is one call of the host or one window message, with
everything the handler calls. Re-entrance is the exception to "one handler, one
step": where a Win32 call delivers another message inside a handler, the effect of
that message is part of the step, and where a handler calls the host back and
then goes on, the step ends at the callback (`todo`, `calling` in `PropertyGrid`).

**Viewport** is a record with what a chart remembers about its range:
`view`, `home`, the axis, whether it is `moving` to a `goal`, whether the controller
is there (`live`), is routed messages (`on`), animates (`smooth`), was seeded. Its
operators are the C++ functions that write these fields: `Materialised`
(`ensure_interaction`), `Attached` (`attach_group_observers`), `EnabledAs`,
`Disabled`, `Placed` (`set_visible_range`), `MovedTo` (the animated or direct zoom),
`ResetHome`, `Settled`. x and y are one abstract range: the code always moves both.

**ChartViewport** is what one chart promises about its range, as a
specification over one such record. **ChartInteraction** implements it, and
**ChartGroup** is built from the same operators; each of its charts implements it too
(`View(c)`, `ChartsImplementViewport`).

**EditHistory** is what a chart promises about edits: the commands in order (`history`), how
many of them are in force (`place`), and what the host was told of each point (`told`). A
commit cuts the history off at the place, appends its command and may forget the oldest; undo
and redo move the place over one command and tell the value on that side of it. In
**ChartInteraction** the history is the undo stack followed by the redo stack turned around,
and the place is the length of the undo stack (`Edits`, `ImplementsEditHistory`).

**ChartInteraction** has the fields of `InteractionImpl` and `InteractionState`
one for one (each variable is commented with its field), and of the window the
capture, the buttons, the running timers and the `WM_TIMER`s already in the queue
(`due`). Points are slots that hold a value or are `Absent`; a position of the
cursor is the point it hits. Two history variables are read by no action: `told`,
the data as a host knows them that mirrors `on_point_edited`, and `tainted`, the
points whose drag was cut off (capture lost, series replaced, controller dropped)
and about which the edit properties say nothing.

**ChartGroup** has the entries, the primary and the switches of each group and, of
each chart, its viewport, whether a pan is in progress, its observers and its
crosshair. `strayed` is a history variable: the charts that a named cause (host placement, a
controller that is not there, an animation the chart runs itself, a pan) moved
apart from their group; `LinkedChartsAgree` speaks about the others.

**PropertyGrid** has the slots, the selection, the editor with its row, text and
error mark, and the keyboard focus. `CommitEditor(window, rest)` is
`commit_editor` while `window` has just received the focus; `rest` is what the
calling handler does afterwards. If the commit called the host back
(`calling`) the host's operations are enabled before `Resume` goes on. A property
is the set of texts it accepts, so that the type check and the host's own rule are
one; booleans and choices are rows that step through a list. `orphan` marks an
editor whose rows were cleared under it, and `opened` is what the row of the editor showed when it
was opened, or what the host reverted it to since. `KillFocusCommits` is the loss of focus that
`DestroyWindow` sends the editor.

**BufferedValues** is what a grid promises about the values behind it: each row shows one text
and keeps one; an edit changes what one row shows to a text it takes; keeping and restoring copy
one to the other, for one row or all at once. In **PropertyGrid** a row shows its pending value
and keeps its committed one (`Held`), and nothing is seen of the editor, the focus, the handlers
that commit in the middle of others and the callbacks (`ImplementsBufferedValues`).

**Control** is one object of class `Control` and its window: `hover`, `tracking`,
`pressed` of `HoverState`, the timer, the palette, and the fields of the leaf it is
(`kind`): the fade of `Button`, the mark of `CheckBox` and `RadioButton`, the drag of
`Splitter`. Of the window there is what the code relies on: whether it is enabled,
has the focus, is to be painted, has the mouse over it, and what holds the native
button down (`grip`); of the loop, the leave message that is owed or queued and the
timer message that is queued. `shown` is what the last paint was computed from, so
that "the screen is current" is an equation, `shown = Look`. A fade is where it goes,
in which palette, and how many frames are left; its frames in between all look
alike. Three history variables mark what the code makes no promise about: a window
created over an object that was not at rest (`inherited`), a press whose capture was
taken away (`cut`), a change that asks for no paint (`unasked`).

**ThemeBroker** has the registry, the theme of the process and a stack of
broadcasts. A broadcast takes a snapshot and goes through it; at each window it sends
the message (`heard`, what the window finds when it asks) and calls the handler
(`told`, the mode it is called with), and in each the window may do anything the
interface offers: set a theme, which pushes a broadcast, register, unregister,
destroy. `crossed` is a history variable: the theme was changed inside a
broadcast, after which the outer one goes on with the mode it read before.

**Programs.** `Programs` runs one `program` at a time (`MCPrograms` only gives the instances
their values): the dashboard, any program at all that uses the broker, or one of the others,
whose state is the record `win`. The records share their conventions. `size`, `dpi` and `laid`
are the client area, its scale, and where the program last put its parts: `laid` changes only
where the code lays out, so that a handler that forgets it leaves it stale. The pointer goes to
the middle of what is painted, and the hit test of the code, computed as the code does, decides
what it means. `asked` holds the surfaces that the last handler asked to repaint, and each
module's `Repainted` says that what a surface shows (its *face*) changes only with it. A theme
is there as often as the program keeps it. Colours are named by the mode they were resolved
from, texts by what they say. Where a window asks to be told that the pointer left, the request may
fail (`Tracked`): the dashboard, the settings and the resource gallery keep what `TrackMouseEvent`
returned and ask again at the next movement, the workbench and the dialog tour do not. Some fields
are histories that decide nothing: `refused` (that request failed), `parted` (the settings dialog
changed the dashboard's mode without its palette), `cycled` (the pill changed the dark studio's mode
without its palette), `saved` (this process has saved the settings), `plain` (popups without a brush).

* **Pixels**: rectangles, `PtInRect`, truncating division, scaling by resolution.
* **Dashboard** (themes, series, tiles, settings dialog; one record `board` with every
  copy of a theme and of the data, and `cut`, the series whose drag was cut off) and
  **DashboardPanels** (toolbar, info panel, cards, status strip).
* **Workbench**: columns, toolbar hit where it was last painted, status bar, slider,
  list, theme menu.
* **Settings**: the form, its dirty mark, `save_state` in two steps (truncate, write)
  between which the process may die or the write fail, and the restart, with a theme on its command
  line or none, that reads the file with the decoder's limits; **SettingsForm**: the page, its columns and segments.
* **DarkStudio**: navigation, theme pill, cards; **CodeTokens**: the reader of its code
  preview, run on every line of up to four classes of character.
* **ThemeDemo** and **ComponentGallery** build on **StateMatrix**, the grid of control
  states both paint. **NavTiles**: the tiles of the playground with focus, press, hover and
  keys; **Playground**: its cross-fade, controls added at run time, log and status bar.
* **ResourceGallery**: groups, rows, the `Open` button. **DialogTour**: the main window, a
  modal dialog that runs a loop inside a handler, a modeless one that destroys itself, the
  wrapper's handle and the handle the message loop routes keys to.
* **Layout**: all functions of `Layout.cpp`, with a window that is resized, a splitter
  that is dragged, and a child with anchors. **ScrollThumb** and **SliderRail**: the thumb
  and its hit test; the rail, the filled part and the disc.
* **ChartPainting**: `compute_chart_layout` with the labels the renderer measured, the
  points of lines, areas and splines, the bars of both bar charts, stacked and grouped,
  and beside them the hit test of the interaction with the plot that *it* computes.
* **Menu**: the menus that exist with their parents, entries and brushes (who made each
  and whether it was deleted), the captions of the dispatcher, and the builder during one
  statement, which may have got no brush for its popups. `SetMenuInfo` and `DestroyMenu` reach what is below a menu: `Below`, the least set
  that holds the menu and the children of its members.

Some properties are conjunctions of named ones that belong to one question:
`GestureConsistent`, `ViewConsistent` (`ChartInteraction`), `MembersConsistent`
(`ChartGroup`), `EditorConsistent` (`PropertyGrid`), `TransientsEnd` (`Control`), `SeriesAgree` (`Dashboard`). In
`Programs` a property says of each program what the module of that program defines
under that name or the name given there.

Operators whose name has an underscore and a suffix, marked *slip*, are not part of
the models: each is a plausible mistake in the code, and the property named for it in
`PROJECT.json` fails when it is used.

## 4. Runs

| Run | Instance | States | Question |
|---|---|---|---|
| `chart_gestures` | two series of one point, all modes, no animation | 462 k | Do gesture, capture, button, hover and tooltip stay consistent when buttons overlap, the capture is taken away, series are hidden or replaced and old timer messages arrive? |
| `chart_edit` | two points, two values, depth 2 | 1.15 M | Do undo and redo walk the values the points had, do the two stacks implement `EditHistory`, and can a host mirror the values? |
| `chart_view` | two ranges, animations of two ticks, fair | 73 k | Does the chart implement `ChartViewport`, do animations end and tooltips come? |
| `group_link` | two charts, one group, two ranges | 1.48 M | Do linked charts come to rest on the primary's range, and does each of them implement `ChartViewport`? |
| `group_members` | two charts, two groups | 834 k | Observers, primaries and crosshairs under joins, removals, promotion, clear. |
| `grid_edit` | two rows of three kinds of property, three texts, one of them invalid | 14 k | Is the editor where it should be, is accepted text kept and cancelled text dropped, does the host know all values, and does the grid implement `BufferedValues`? |
| `control_states` | each of four kinds of control, three palettes of which one is high contrast, fades of one frame, fair | 906 k | Do hover, press and fades end, is every change painted, does a control come to rest? |
| `programs` | every program, the broker under any program, every widget of section 3 | 627 k | Do themes reach every window and every copy, does the mouse find what is painted, does hover end, do parts keep apart at every size and scale, is what is shown as saved what a restart reads, do tiles, dialogs, status bars and menus say what is so, and is every change repainted? |
| `chart_card`, `group_pan`, `grid_invalid`, `studio_theme` | the same instances | | The findings of section 8. |

Why the bounds are enough. A gesture involves one point and what may interfere is
another one, so two points, on two series where visibility matters. The undo
stacks need a full stack, one more push, and two points in one history: depth 2.
An animation needs a start, a middle and an end: two ticks. A link needs a range
that is right and one that is wrong. What a chart does to a third chart in its
group it does to the second, except for the promotion of a new primary, for which
two entries leave one; `PrimaryLeads` is proved for any number. In the grid one row
is edited and one changes meanwhile. A fade can be out of date only in a palette
that animates and differs from the present one, which takes two such palettes and the
high-contrast one that does not animate; one frame gives a fade that runs, one whose
time is over, and one that has ended.

`programs` gives each program one to four client areas (the one it opens with,
that at twice the resolution, and a small one; the settings form also one with a theme of five
pixels, the narrowest whose segments are hit) and two or three of the scales 96,
120, 144 and 192: the arithmetic is monotone in both, and the small one is where the
`Larger`s and `Smaller`s of the code bite. The dashboard has two series of two values,
because what can differ is one copy from another of one series, and one series from
another. The broker has two windows, two themes and two
broadcasts at most, one inside the other: a change in the handler of one window while the
other is still to be told. Lines of code have up to four characters, each of
any class: the longest opening and closing there is. Texts are 14 characters long, or 5000, which is more than the buffer
(255) and the decoder (4096). Charts have none to three series of one to four points with
negative and equal values, ranges that are wider and that are empty, and the default tolerance of
eight pixels. In the workbench the pointer goes to the two tools either side of the gap in its bar
(`ToolsAreHit` looks at all six), in the resource gallery the user to the first and the last of its
groups. The playground adds
two controls, the tiles are pressed by one act at a time, menus have two entries.

All runs keep the deadlock check on: the host
or the user can always do something. Charts in a group are interchangeable, and so
are groups: `ChartSymmetry` and `MemberSymmetry` are used only in runs without
liveness properties, and each property there says the same of every chart.

## 5. Fairness

`chart_view` needs weak fairness of
`TimerElapses`, `TimerIgnored`, `TooltipTimer` and `AnimationTimer`. `SetTimer` is
periodic until `KillTimer` and the message loop keeps dispatching, so a running timer
elapses and a queued `WM_TIMER` is handled. Nothing the user or the host does is
fair: that is why `AnimationEnds` exempts a user who zooms forever. For
`TooltipAppears` fairness of the timer supposes that the cursor comes to rest, as
each move over a point restarts the hover delay.

`control_states` assumes that the clock goes on, a running timer elapses, queued
messages are handled, the window manager posts the leave message it owes and a
window with an update region is painted: what a message loop does of itself.
`ComesToRest` exempts an endless series of steps of the user or the host. The other
runs state safety only and assume no fairness.

## 6. Proofs

The proofs hold for every set of points, values, ranges, options, charts, groups,
texts, windows, menus and properties that satisfies the assumptions in the modules: point slots
have a series and an index, the host's lists have no gaps, it does not enable interaction
with no mode (it calls `disable_interaction` for that), and special values are not
ordinary ones.

* `ChartInteractionProofs`. `Invariance` proves the inductive invariant `IndInv`:
  the type invariant, capture, buttons, timers, seeding, tooltip, the bound of
  the stacks and the host's mirror, with what these need of each other. None of
  them is inductive alone: that capture and gesture agree needs that the dragged
  point is set in a drag; that a mouse-up ends the gesture needs that the button
  is still down; the bound of the stacks needs the depth under which they grew.
  From it follow `TypeCorrect`, `CaptureDiscipline`, `GesturesEnd`, `Seeding`,
  `TimerDiscipline`, `ResetCarried`, `TooltipSafe`, `UndoDepth`, `HostMirror`.
  `HistoryChained` adds `HistoryInv`, the chain of one point as three facts: neighbouring
  commands of it share a value, the last one in force ends at the present value of the point,
  and the first one undone begins there (`Linked`); in a drag the present value is
  the one at its begin. Undo and redo move the place over one link, a commit puts one at the
  end, and a point of which neither history nor drag knows may change freely; that the
  history is the same function before and after an undo (`UndoKeepsHistory`) carries the facts over.
  `HistoryRefinement`: `Spec` implies `Edits!Spec`. The commit is the step with work in it: the
  stack after the push is the abstract sequence, cut off, appended to and shifted by the
  command that was forgotten (`CommitShifts`, `CommitContinues`).
  `ViewRefinement`: `Spec` implies `Viewport!Spec` under the mapping `AsViewport`. Each action
  maps to the step its name suggests or to a stutter.
* `ChartGroupProofs`. `GroupInvariance` proves `TypeOK`, `PrimaryLeads`,
  `NoDanglingObserver` and `CrosshairNeedsGroup` together: observers need the
  entries to be as `PrimaryLeads` says, crosshairs need both. The work is in the
  sequences of entries (`RemoveAt`, promotion). `LinkedAgreement` adds to that, for each linked
  group, that a member which did not stray has a controller and heads for the range the
  primary heads for, as has the primary, and that a chart that reports to a group has a
  controller. The controllers are needed because one that is made anew begins at another
  range than the chart without one showed. Steps on one chart keep the agreement of the groups in
  which they leave it alone or mark it as strayed; a promotion makes all others strays.
  `ChartsKeepTheirPromise` shows that what a group does to its members (placing, animating,
  moving a cursor, dropping a controller) is to each chart a step of `ChartViewport` or none.
* `PropertyGridProofs`. `GridInvariance` adds three facts to the properties:
  a commit calls the host only after it has closed the editor; a handler that goes
  on with an open editor goes on because the text was refused and will be refused
  again; and `begin_edit` waits only for an editor that refuses. Without
  them a host callback could change the rows between the check that a row may be
  edited and the editor that is opened on it. `CancelSafe` and `TextKept` are the
  action properties. `CancelSafe` rests on one more invariant (`OpenedInvariance`): while an editor is
  open, its row shows what it showed when the editor was opened, and so does the host's mirror,
  through every handler and callback that comes in between. `GridImplementsBufferedValues` is the refinement: a commit is an edit of the
  row the editor is on, as its text was accepted by that row; an apply that first commits is two
  steps with the host's callback between them, and what goes on after a callback (`Resume`, which
  needs the invariant for what there is to do) is again one step of the buffered values or none.
* `ControlProofs`. `ControlInvariance` ties four properties together: the
  last frame of a fade is current because the fade leads to the face that would be
  painted without it (`FadeLeadsHome`), and it is painted because a fade has a
  timer; the next hover asks for a leave message because tracking ends with hover.
  `HoverIsEnded`, `FadesAreDriven`, `PressesEnd` and `ScreenIsCurrent` follow, and with the switches
  of the control `ControlTypeCorrect`.
* `DashboardProofs`. `DashboardInvariance` proves `TypeOK /\ Settled /\ Known`: between two
  messages the copies of a theme agree, but for the palettes after an Apply that left them behind, and the host has the chart's points, except under
  the mouse or after a drag that was cut off. The properties are parts of it, and none is
  inductive alone: a palette follows the broker because the mode of the application
  does; the host has the edits because undo and redo report what the chart holds.
  `EditsReachTheHost`, `BoxesFollowSeries` (together `SeriesStayInStep`), `PaletteIsTheBrokers`, `ThemeCopiesAgree` follow,
  for every set of series and values. `BoardsAreRepainted` is the action property that a change
  of what a surface shows is asked to be painted: the theme and the settings dialog ask for all,
  edits for the chart and the shell (`ThemeAsks`, `ApplyAsks`, `EditAsks`).
* `ProgramProofs`. `BrokerInvariance` proves `BrokerOK /\ OneCarriesIt /\ CaughtUp`, for any
  number of windows, themes and nested broadcasts. As long as no theme was set inside a
  broadcast there is at most one and it carries the theme of the process; that is what makes
  `CaughtUp` inductive. `WindowsCatchUp` and `AtRestAllAgree` (with no broadcast going on,
  every registered window has the theme) follow. `ProgramInvariance` has one invariant for each of
  the other programs, for the scroll bar, the slider and the menus, whatever their sizes, resolutions,
  rows and palettes. Most say which fields the record has, so that a step changes what it names
  and nothing else, and the properties: copies of a theme change together, hover is set only where
  the leave message is asked for, or asking failed, the text that is saved is the text in the file unless the form is dirty.
  The tiles need that a press holds the focus, the dialog tour that the routed handle is that of the
  live dialog. For the menus (`MenuInv`) it is more: a menu that lives is the
  child of one, a brush of a menu is given to menus below it only, so that deleting it with a
  palette replaced everywhere below leaves no menu with it, unless the new one could not be made;
  what opens from the bar has its palette, but for popups that were hung without a brush;
  entries keep the order in which they came, but for separators that the host draws, and items
  that it draws have their caption. `SavedIsStored`, `PressesAreHeld`, `StatusesAreTrue`,
  `DialogsAreRouted`, `HoversEnd`, `ProgramsAgree`, `MenuBrushesLive`, `MenuItemsArePainted` follow;
  `WindowsAreRepainted` goes through the handlers of thirteen programs.
  `ProgramAssumption` says that lengths of texts are naturals, that the number by which the model
  knows a separator is no command's (`Menu.cpp` tells them apart by `MF_SEPARATOR`), and that
  every item has a text, which `item` and `check_item` take.
  `LinesAreRead` needs that the line of the preview is one that can be typed (`CodeInv`), and then
  is `TypedLineIsRead` of the next module.
* `CodeTokensProofs`. The reader of the code preview is a loop over the line, and `LineIsRead`
  compares the tokens it draws with the characters of the line. The tokens of a line and the end of a
  string are recursive functions that go on at a later place. That there are such functions, and what
  holds of them, goes down from the end of the line (`Downward`, from the fact that a set of naturals
  has a least element): a string ends at its first quote that is not escaped (`CloseEnds`: the code
  skips two characters at a backslash, the property counts the backslashes before a quote, and
  `EscapedNext` relates the two), each token ends where what it begins with ends
  (`TokenIsRead`), and they divide the line (`TokensDivide`), for lines of any length.
* `GeometryProofs`. That what is painted is hit and nothing covers anything else, in windows
  of any size, at any resolution of at least 96 and with any positions, rows and data.
  The invariant (`GeometryInv`) is of one kind in each program: sizes and scales are what a window can have, and
  each part is where the code last put it, for the size and the scale of that time. The work is the
  arithmetic: scaling by resolution divides and truncates, so lemmas say how far (`QuotientsClose`,
  monotonicity of scaling, the sum of two scaled lengths against their scaled sum), and each window
  adds up its parts. `TargetsAlwaysHit` is the whole property `TargetsAreHit`. For a row of buttons that is:
  the rectangle is not empty and the hit test, which takes the first that holds the point, meets no other
  one before. For a chart (`MarkersFound`): the plot of the renderer and that of the mouse
  are at most eight and six pixels apart, which is at most ten pixels from where the mouse
  looks for a marker; where that is within the tolerance, whatever it is, of the finitely many points
  within it the nearest is found, by a least element, as the code's loop finds it. `ControlsLaidOutAtAnySize` proves
  `LaidOut` of nine programs: dashboard panels, workbench, settings form, dark studio, resource
  gallery, dialog tour, layout, scroll bar, slider. For the layouts of the library: a lemma bounds
  the share of a pane for every ratio, also one out of range, from which `SplitTilesAcross` and
  `SplitTilesDown` show that the panes and the splitter fill the bounds; `RowKeepsItsGap` and
  `ColumnKeepsItsGap` that neighbours of a row keep their gap, by induction over the items;
  `PanesAlwaysTile`, `ChildStaysAnchored` and `WindowStaysLaidOut` the same of a window that is
  resized and whose splitter is dragged.

Theorems about the conjunctions of section 3 (`GesturesConsistent`, `ViewsConsistent`,
`MembershipsConsistent`, `EditorsConsistent`, `TransientsAreEnded`) combine the theorems about
their parts.

## 7. Only model-checked

Liveness, which is beyond the prover: `AnimationEnds`, `TooltipAppears`, `ComesToRest`. Of
`LaidOut` the parts of four programs: the theme demo, the component gallery and the playground,
whose invariants would be like those of the other windows, and the charts (points inside the plot,
splines between their neighbours, bars apart, entries of the legend). They are arithmetic over the sizes
and data of the run. Everything else that a run checks and expects to hold is a theorem. Where a proof
needs induction, it takes the least number for which the claim fails, in the step itself; no recursive
operator is used.

## 8. Findings

Each is a run that TLC must find violated.

* `chart_card`: the range summary card never outlives the mouse-up that shows it.
  `ReleaseCapture` sends `WM_CAPTURECHANGED` before it returns, whose handler resets
  the state again.
* `group_pan`: of the ways a pan ends only the middle-button release tells the group.
* `grid_invalid`: invalid text keeps its editor open once; the second loss of focus
  closes it. As the error mark stays while the user types, text that has been
  corrected is dropped as well.
* `studio_theme`: `cycle_theme` of the dark studio stores the new mode before it tells the
  broker; `apply_theme`, called back, takes the mode for its own and returns, so the label
  names a theme in which the window is not painted.

### Met while modelling

In the library, true of the models: an animated `reset_view` on a controller without
modes stays pending, as its timer messages are not routed to it (`ChartView.cpp:150`,
`ChartInteraction.cpp:279`); a check box toggles on every mouse-up it receives, also on
one whose press was elsewhere, and on one outside of it that calls its press off
(`CheckBox.cpp:80`); a capture
lost in a drag leaves the point where the mouse was without a command or a callback; a
reset that is animated fires neither `on_view_changed` nor the group observer; a
wheel turn during a pending reset makes `on_view_reset` fire away from home;
`set_visible_range` is overwritten by the next frame of a running animation;
linking during an animation copies the range of that moment; a chart that joins a
linked group is not aligned; lowering `undo_depth` leaves a longer stack until the
next commit; committing a drag whose point was removed records a zero point, and a move of it
indexes the series without a check (`ChartInteraction.cpp:493`; the release does check); a
commit on loss of focus pulls the focus back to the grid; `apply_all` applies the
other rows although the open editor refused; rows cleared and added again under an open
editor receive its text; `HoverState::attach` and `detach` are never called, so
a control whose window is created again starts with the hover and press of the old
one; a press whose capture is lost, or whose control is disabled, stays
pressed until the next mouse-up; a radio button that is on and is let go
outside stays painted as pressed; `Button::set_style` asks for no paint;
`set_indeterminate` sets the mixed mark on a box with two states. A window that is told a
mode inside a nested change of theme keeps a stale one (`ThemeBroker.cpp:66`). A splitter wider
than its bounds gives a second pane of negative width (`Layout.cpp:26`; only tests call it). The
press on a scroll bar's thumb captures the mouse and nothing releases it, its hover never
ends when the mouse leaves, and the track of a horizontal one is transposed, so that its thumb
is not hit where it is painted (`Scrollbar.cpp:262`); `TargetsAreHit` speaks of vertical ones. The
radius of a slider's disc is scaled for the rail and not for the disc. `Dialog::show_modal` marks
the object for good, after which `end_modeless` does nothing (`Dialog.cpp:10`).

Charts: the mouse goes by a plot computed from the gutters alone (`ChartInteraction.cpp:374`), the
renderers by the labels they measured; the two differ by up to eight and six pixels, so that a
marker in the corner of the plot is ten pixels from where it is looked for, beyond the default
tolerance of eight ("Max cursor-to-point distance for a hit", `ChartInteraction.hpp:156`; the
interactive sample sets 12); `TargetsAreHit` says how far they are apart, and that what is within the
tolerance is found. Grouped bars are placed by their number among all series in a slot
sized for those shown (`BarChartView.cpp:348`, comment at 215-217), so that hiding an
earlier series moves bars into the next band; `LaidOut` holds while only the last
ones are hidden. Stacks begin at the minimum of the axis, so that with one above zero the top is
cut; `LaidOut` speaks of stacks on axes from zero. With more bars than pixels all bars are empty. One point of an
area or a spline is hit but not painted. `set_series`, `set_axis` and `set_stacked` ask for no paint.

Menus: the builder of a popup does not know its `Menu`, so that the entries of popups are
never drawn by the host although `Menu.hpp:140-141` says "and every popup child it creates"
(`Menu.cpp:166`); separators that the host draws go to the top and have no caption
(`Menu.cpp:202`); captions are kept by command, so that of two items of one command, as the workbench
has, both show the later one; `apply_palette` deletes the old brush before it knows that there
is a new one; the captions given as item data, said to be freed in the destructor
(`Menu.cpp:42-44`), and the brushes of builders are not freed; moving a `Menu` leaves its dispatcher with the palette of the old one.

Programs:

* *Dashboard*: Apply in the settings dialog sets the mode before it calls `apply_theme`, which returns
  at once (`NativeFrameUIChartsInteractive.cpp:1072`): the series are recoloured for the new mode and
  everything around them keeps the old palette, although they are to "stay coherent with the shell"
  (1229-1230); nor is the broker told, after which the theme pill does nothing (comment at 1785).
  `CopiesAgree` compares the palette with the mode until then. A theme change while the dialog
  is open is undone by it; it resets axis labels, the hit tolerance and the duration of
  animations; the info panel asks for no leave message, so that a row keeps its ring; its boxes are
  painted 21 pixels below the top of their targets (273, comments at 270 and 278), the first one outside
  of every target; tiles show old values after an edit until the
  next theme change.
* *Workbench*: a failed request for the leave message is taken for granted and not repeated, so
  that a tool stays hovered (`NativeFrameUIWorkbench.cpp:417-418`); the window is not registered with the broker whose theme its menu sets; the
  status bar names the old resolution; a slider move wipes the text of the selection; the
  menus keep the brush of the old theme.
* *Settings*: the saved theme is never shown again, as `wWinMain` always sets one and that counts as
  explicit (`NativeFrameUISettingsDemo.cpp:255`; comments at 248-251, 1001-1002); a write that failed is shown as "All changes saved"; a crash between truncation and write
  loses the old and the new state; a text of more than 4096 characters could be saved and not read,
  were it not cut to 255; high contrast is shown as "System"; in a theme control of three or four
  pixels a segment is hit beside where it is painted. `CleanIsStored` exempts the failed
  write, says what the buffer cuts, and of the theme only that the file has the one shown.
* *Dark studio*: comments in the preview are painted as text, against its header comment; `//`
  after punctuation is no comment; the cards are cut off at the size the window opens with.
* *Theme demo, component gallery*: columns of the list keep their width when the resolution
  changes; the gallery resizes itself to another height than it was created with (1120 and 900).
* *Playground*: the headers are painted for other columns than the controls are laid out in;
  the title leaves 272 pixels for buttons that take 402; a tile keeps the look of focus when focus
  leaves, and acts on a release whose press was elsewhere; added controls push the log over the status bar.
* *Resource gallery*: going to another group does not lay out again, so that rows are missing or
  left over (`NativeFrameUIResourceGallery.cpp:546`), and keeps the number of the selected row; the `Open` button is painted
  four pixels beside where it is hit.
* *Dialog tour*: a failed request for the leave message is not repeated
  (`NativeFrameUIDialogTour.cpp:758-759`); closing the preferences by Cancel or by the cross is not told to the window, whose
  link to close them stays (its header comment, line 13); the main loop's routing stops while the
  modal dialog runs; the card does not fit its window at twice the resolution.

Where one of these bears on a property, the property names the exception and the comment
above it says so.

## 9. Not modelled

Lists, trees, tabs and edits, whose state is in a native control; display controls, icons,
fonts, resources and palettes (drawing, tables and handles); `Window` and `Application` (one
handle each); `CommandRouter` (two maps, one lookup; a handler that replaces itself while it runs destroys
itself, `Command.cpp:36`); the state of the workbench in `Persistence.cpp`, which only tests write; the
showcase and the smaller samples, which show controls and keep no state; tests and tools.

Of the charts: colours, ticks, texts, sparklines and tiles, image export, cursor shapes and the
option fields that only change what is drawn. In `ChartInteraction` a position of the cursor is the
point it hits; where that is on the screen is `ChartPainting`. Of
the grid: `WM_SIZE` and the parsing of integers. Of the controls: captions, fonts, the
focus ring of `Button`, the ratio of `Splitter` (and its hover: a STATIC without
`SS_NOTIFY` gets no mouse messages). Of the menus: greyed and checked items and the painting. Of the
programs: what native controls do in them, and texts beyond what tells two states apart.

## 10. Assumptions about the platform and the host

`ReleaseCapture` sends `WM_CAPTURECHANGED` before it returns, `SetCapture` on the
window that has the capture sends none, `KillTimer` leaves queued `WM_TIMER`s in the
queue. `SetFocus` and `DestroyWindow` send `WM_KILLFOCUS` before they return, and a
`SetFocus` inside it wins. `WM_MOUSELEAVE` of one chart precedes the moves of
the next. Creating the editor's window succeeds. The host may give fewer points, down to a series
without any, but the number of series is that of the model: what `series_[st.drag_series]` does when
there are fewer (`ChartInteraction.cpp:493`) is undefined, and of its outcomes the models have the one
in which no point is found there. The host passes options with at least one mode, does not call back into a chart from the
chart's own callbacks, does not destroy the grid from its callbacks, and lets the charts
of a group pan and zoom whenever they interact at all. `set_visible_range` fires
no observer, so the recursion guard `broadcasting_` never decides anything and has
no variable.

The native button beneath a control sets its pushed state and the capture on a press
or the space bar, gives both up on release, loss of focus or when it is disabled
(`WM_CANCELMODE`), asks for a paint whenever its pushed state, focus or enabled
state changes, and, being owner-drawn, only notifies its parent of
`WM_LBUTTONDBLCLK`. The window manager posts `WM_MOUSELEAVE` some time after the mouse
has left or the window was disabled, if `TrackMouseEvent` asked for it. The mouse is not
pressed over a control while the space bar holds it down, and `create` is not called on
a control that has a window.

A handle that was destroyed is not given to the next window while the dialog tour
still has it. A menu builder lives as long as the statement it is in. `WM_DPICHANGED` comes with the new
size. `CreateMenu` and `AppendMenu` succeed; `CreatePopupMenu`, `CreateSolidBrush` (in `apply_palette` and
in `builder`), `TrackMouseEvent` and the write of a file may fail.
The host of `ChartPainting` gives a chart sorted points.

`SizesAssumption` is what the geometry is proved from: resolutions are at least 96; client areas
have no negative side, and those of the form, the scroll bar and the slider are not empty; ranges are not
upside down; children, radii, labels and their ticks are naturals, and points, axes, ratios and
positions integers; the groups chosen in the resource gallery are groups it has; and the tolerance
of a chart is a natural.
