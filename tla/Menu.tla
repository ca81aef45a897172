-------------------------------- MODULE Menu -------------------------------
(***************************************************************************)
(* Menus (src/menu/Menu.cpp): a bar, a context menu that comes and goes,   *)
(* and the popups that a builder hangs below them; the brush behind each   *)
(* menu, and the captions that a host paints for the items it draws.       *)
(*                                                                         *)
(* A menu does not own the brush it is painted with.  One that is deleted  *)
(* while a menu still has it is marked dead.  Checks, greyed items and the *)
(* painting itself are left out.                                           *)
(***************************************************************************)
EXTENDS Integers, Sequences, FiniteSets, Functions

CONSTANTS Palettes,
          Captions,  \* Pairs of a command and the text of an item for it.
          MostItems, \* The bound on the entries of all menus together.
          Popups     \* The handles of the popups that a builder makes.

Bar == "bar"
Context == "context"
Builder == "builder"
None == "none"
Commands == {c[1] : c \in Captions}
Separator == -1
Opener == 0    \* The entry that opens a popup.

VARIABLE win
(***************************************************************************)
(* palette: of the Menu.                                                   *)
(* drawing: there is a dispatcher; captions: what it has for each command. *)
(* menus: of each handle that exists, its parent, its entries, with the    *)
(*   number that each had when it was added and whether the host draws it, *)
(*   and its background: who made the brush, its palette, whether it died. *)
(* builder: the menu it was made for, the one it fills, whether it draws,  *)
(*   whether it knows the Menu, whether it got a brush for its popups.     *)
(* Histories: current, the bar was given the palette since that changed;   *)
(*   failed, the menus that got no new brush for the one that was deleted; *)
(*   plain, the popups that were hung without a brush and got none since;  *)
(*   renamed, the commands of which two captions were registered.          *)
(***************************************************************************)
NoBrush == [by |-> None, palette |-> None, dead |-> FALSE]
NoBuilder == [menu |-> None, target |-> None, draws |-> FALSE, parent |-> FALSE, brushed |-> FALSE]
NewMenu(parent, brush) == [parent |-> parent, entries |-> <<>>, background |-> brush]
Joined(menus, h, menu) == [k \in DOMAIN menus \cup {h} |-> IF k = h THEN menu ELSE menus[k]]

-----------------------------------------------------------------------------
(* Brushes.                                                                *)

\* S lacks nothing that opens from one of its menus, or h if there is one.
Closed(menus, h, S) ==
    \A m \in DOMAIN menus : m = h \/ menus[m].parent \in S => m \in S

\* A menu and all that open from it.
Below(menus, h) ==
    {m \in DOMAIN menus : \A S \in SUBSET DOMAIN menus : Closed(menus, h, S) => m \in S}

\* DeleteObject of the brush that h has of its own.
Deleted(menus, h) ==
    [m \in DOMAIN menus |-> IF menus[m].background.by = h
                            THEN [menus[m] EXCEPT !.background.dead = TRUE] ELSE menus[m]]

\* SetMenuInfo with MIM_APPLYTOSUBMENUS.
ApplyMenubarPalette(menus, h, brush) ==
    [m \in DOMAIN menus |-> IF m \in Below(menus, h)
                            THEN [menus[m] EXCEPT !.background = brush] ELSE menus[m]]

\* The old brush is deleted before it is known whether there will be a new one.
ApplyPalette(w, h, made) ==
    LET menus == Deleted(w.menus, h)
        brush == [by |-> h, palette |-> w.palette, dead |-> FALSE]
    IN IF made THEN [w EXCEPT !.menus = ApplyMenubarPalette(menus, h, brush),
                                !.failed = @ \ {h}, !.plain = @ \ Below(menus, h)]
       ELSE [w EXCEPT !.menus = menus, !.failed = @ \cup {h}]

\* Slip: what builders made for their popups is deleted with them.
MakeBuilder_owning(w, h, made) ==
    [w EXCEPT !.menus = Deleted(@, Builder),
              !.builder = [menu |-> h, target |-> h, draws |-> w.drawing, parent |-> TRUE, brushed |-> made]]

\* Nobody deletes the brush that a builder makes for its popups, if it gets one.
MakeBuilder(w, h, made) ==
    [w EXCEPT !.builder = [menu |-> h, target |-> h, draws |-> w.drawing, parent |-> TRUE, brushed |-> made]]

-----------------------------------------------------------------------------
(* Entries.                                                                *)

Entry(w, command, text, drawn) ==
    [command |-> command, text |-> text, drawn |-> drawn,
     at |-> Len(w.menus[w.builder.target].entries)]

Appended(w, entry) == [w EXCEPT !.menus[w.builder.target].entries = Append(@, entry)]

\* Whether entries are MF_OWNERDRAW.  The builder of a popup does not know the
\* Menu any more, so the entries of popups never are.
Draws(w) == w.builder.draws /\ w.builder.parent /\ w.drawing

RegisterLabel(w, command, text) ==
    [w EXCEPT !.captions[command] = text,
              !.renamed = IF w.captions[command] \in {None, text} THEN @ ELSE @ \cup {command}]

\* append_owner_draw_item registers the caption.
Item(w, c) ==
    LET added == Appended(w, Entry(w, c[1], c[2], Draws(w)))
    IN IF Draws(w) THEN RegisterLabel(added, c[1], c[2]) ELSE added

\* check_item adds it by itself.
\* Slip: and does not register the caption.
CheckItem_unregistered(w, c) == Appended(w, Entry(w, c[1], c[2], Draws(w)))

CheckItem(w, c) ==
    LET added == Appended(w, Entry(w, c[1], c[2], Draws(w)))
    IN IF Draws(w) THEN RegisterLabel(added, c[1], c[2]) ELSE added

\* One that the host draws goes to the top of the menu, and has no caption.
AddSeparator(w) ==
    IF Draws(w) THEN [w EXCEPT !.menus[w.builder.target].entries = <<Entry(w, Separator, "", TRUE)>> \o @]
    ELSE Appended(w, Entry(w, Separator, "", FALSE))

\* A popup is not given a background by a builder that got no brush.
\* The builder goes on with the popup, or with nothing if there is none.  One
\* that has nothing to go on with hangs the next popup below the menu that it
\* was made for.
Popup(w, handle) ==
    LET above == IF w.builder.target # None THEN w.builder.target ELSE w.builder.menu
        brush == IF w.builder.brushed THEN [by |-> Builder, palette |-> w.palette, dead |-> FALSE]
                 ELSE NoBrush
        filling == [w EXCEPT !.builder.target = above]
        opened == [Appended(filling, Entry(filling, Opener, "", FALSE)) EXCEPT
                       !.menus = Joined(@, handle, NewMenu(above, brush)),
                       !.plain = IF w.builder.brushed THEN @ ELSE @ \cup {handle}]
    IN [(IF handle = None THEN w ELSE opened) EXCEPT !.builder.target = handle, !.builder.parent = FALSE]

\* A call on the builder.
Called(w, call) ==
    CASE call.of = "popup" -> Popup(w, call.handle)
      [] call.of # "popup" /\ w.builder.target = None -> w
      [] call.of = "item" /\ w.builder.target # None -> Item(w, call.caption)
      [] call.of = "check_item" /\ w.builder.target # None -> CheckItem(w, call.caption)
      [] call.of = "separator" /\ w.builder.target # None -> AddSeparator(w)

Calls == [of : {"item", "check_item"}, caption : Captions] \cup [of : {"separator"}]
         \cup [of : {"popup"}, handle : Popups \cup {None}]

-----------------------------------------------------------------------------
(* A host: it makes one context menu at a time; a builder lives as long as *)
(* the statement that it is in.                                            *)

Init ==
    \E palette \in Palettes :
        win = [palette |-> palette, drawing |-> FALSE, captions |-> [c \in Commands |-> None],
               menus |-> [h \in {Bar} |-> NewMenu(None, NoBrush)], builder |-> NoBuilder,
               current |-> FALSE, failed |-> {}, plain |-> {}, renamed |-> {}]

SetPalette ==
    \E palette \in Palettes \ {win.palette} :
        win' = [win EXCEPT !.palette = palette, !.current = FALSE]

ApplyToBar ==
    \E made \in BOOLEAN :
        win' = [ApplyPalette(win, Bar, made) EXCEPT !.current = made]

EnableOwnerDraw == win' = [win EXCEPT !.drawing = TRUE]

MakePopup ==
    /\ Context \notin DOMAIN win.menus
    /\ \E made \in BOOLEAN :
           win' = ApplyPalette([win EXCEPT !.menus = Joined(@, Context, NewMenu(None, NoBrush))], Context, made)

\* The OwnedMenu goes with the handler that made it: DestroyMenu, which takes
\* the popups along, then the brush.
Reset ==
    /\ Context \in DOMAIN win.menus
    /\ LET gone == Below(win.menus, Context)
       IN win' = [win EXCEPT !.menus = Restrict(Deleted(@, Context), DOMAIN @ \ gone), !.failed = @ \ gone,
                           !.plain = @ \ gone]

Entries(w) == UNION {{<<h, i>> : i \in DOMAIN w.menus[h].entries} : h \in DOMAIN w.menus}

\* A statement of two calls.  with_owner_draw would change nothing: a builder draws
\* as soon as there is a dispatcher, and without one nothing is drawn.  A brush that
\* could not be made matters to popups only.
Build ==
    \E h \in {Bar, Context} \cap DOMAIN win.menus, calls \in Calls \X Calls, brushed \in BOOLEAN :
        LET made == MakeBuilder(win, h, brushed)
            first == Called(made, calls[1])
            built == Called(first, calls[2])
        IN /\ ~brushed => "popup" \in {calls[1].of, calls[2].of}
           /\ calls[1].of = "popup" => calls[1].handle \notin DOMAIN win.menus
           /\ calls[2].of = "popup" => calls[2].handle \notin DOMAIN first.menus
           /\ Cardinality(Entries(built)) <= MostItems
           /\ win' = [built EXCEPT !.builder = NoBuilder]

Next == SetPalette \/ ApplyToBar \/ EnableOwnerDraw \/ MakePopup \/ Reset \/ Build

Spec == Init /\ [][Next]_win

-----------------------------------------------------------------------------
(* Properties.                                                             *)

\* The host finds the caption of every item that it is asked to draw, unless
\* two items of one command have different ones; entries stay in the order in
\* which they were added, but for the separators that go to the top.
ItemsArePainted ==
    \A h \in DOMAIN win.menus : LET entries == win.menus[h].entries IN
        /\ \A i \in DOMAIN entries :
               entries[i].drawn /\ entries[i].command \in Commands \ win.renamed =>
                   win.captions[entries[i].command] = entries[i].text
        /\ \A i, j \in DOMAIN entries :
               i < j /\ ~(entries[i].drawn /\ entries[i].command = Separator)
                   => entries[i].at < entries[j].at /\ ~(entries[j].drawn /\ entries[j].command = Separator)

\* No menu has a brush that was deleted, unless one could not be made in its
\* place, whichever menus and builders come and go.
BrushesLive ==
    \A h \in DOMAIN win.menus :
        win.menus[h].background.dead => win.menus[h].background.by \in win.failed

\* Once the bar was given the palette, all that opens from it has it, also what is
\* added later, but for the popups of a builder that got no brush.
ThemesAgree ==
    win.current => \A h \in Below(win.menus, Bar) \ win.plain :
                       win.menus[h].background.palette = win.palette
=============================================================================
