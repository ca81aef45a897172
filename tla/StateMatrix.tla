----------------------------- MODULE StateMatrix ---------------------------
(***************************************************************************)
(* The thumbnails of the interaction-state matrix (StateMatrix.hpp of the  *)
(* galleries): where the parts of each one are painted in its cell.  A     *)
(* part is the rectangle around what is drawn; what it is drawn with, and  *)
(* the frames around the cell, are left out.                               *)
(***************************************************************************)
EXTENDS Pixels

Controls == {"check_box", "radio_button", "edit", "combo_box",
             "list_view", "tree_view", "tab_control"}

\* inset_rect: an empty one stays at its left and top.
Inset(r, dx, dy) == Rect(r.left + dx, r.top + dy, Larger(r.left + dx, r.right - dx),
                         Larger(r.top + dy, r.bottom - dy))

Width(r) == r.right - r.left
Height(r) == r.bottom - r.top
Painted(rects) == {r \in rects : Width(r) > 0 /\ Height(r) > 0}

-----------------------------------------------------------------------------
\* A square of at most 18, centred, and its mark.
Square(cell, dpi) ==
    LET side == Smaller(Height(cell) - 2 * Scaled(dpi, 6), Scaled(dpi, 18))
    IN Box(cell.left + Scaled(dpi, 6), cell.top + Div(Height(cell) - side, 2), side, side)

\* The caption that follows it.
Caption(cell, square, dpi) ==
    LET x == square.right + Scaled(dpi, 6)
    IN Box(x, square.top + Div(Height(square), 2) - Scaled(dpi, 3),
           cell.right - Scaled(dpi, 6) - x, Scaled(dpi, 3))

CheckBox(cell, dpi) ==
    LET square == Square(cell, dpi)
    IN [frame |-> square, inside |-> {Inset(square, Scaled(dpi, 2), Scaled(dpi, 2))},
        beside |-> {Caption(cell, square, dpi)}]

RadioButton(cell, dpi) ==
    LET ring == Square(cell, dpi)
        quarter == Div(Height(ring), 4)
    IN [frame |-> ring, inside |-> {Inset(ring, quarter, quarter)},
        beside |-> {Caption(cell, ring, dpi)}]

\* A field of at most 22, centred.
FieldBox(cell, dpi) ==
    LET height == Smaller(Height(cell) - 2 * Scaled(dpi, 6), Scaled(dpi, 22))
    IN Rect(cell.left + Scaled(dpi, 6), cell.top + Div(Height(cell) - height, 2),
            cell.right - Scaled(dpi, 6), cell.top + Div(Height(cell) - height, 2) + height)

\* The caret and the text.
Edit(cell, dpi) ==
    LET box == FieldBox(cell, dpi)
        y == box.top + Div(Height(box), 2) - Scaled(dpi, 2)
    IN [frame |-> box, beside |-> {},
        inside |-> {Box(box.left + Scaled(dpi, 5), y, Scaled(dpi, 3), Scaled(dpi, 4)),
                    Box(box.left + Scaled(dpi, 11), y, Div(Width(box), 2), Scaled(dpi, 3))}]

\* The text and the chevron.
ComboBox(cell, dpi) ==
    LET box == FieldBox(cell, dpi)
        cx == box.right - Scaled(dpi, 9)
        cy == box.top + Div(Height(box), 2)
        r == Scaled(dpi, 4)
    IN [frame |-> box, beside |-> {},
        inside |-> {Box(box.left + Scaled(dpi, 6), cy - Scaled(dpi, 2), Div(Width(box), 2), Scaled(dpi, 3)),
                    Rect(cx - r, cy - Div(r, 2), cx + r, cy + r)}]

Pane(cell, dpi) == Inset(cell, Scaled(dpi, 6), Scaled(dpi, 5))

\* The header, the selected row and the row below it, if there is room.
ListView(cell, dpi) ==
    LET S(v) == Scaled(dpi, v)
        box == Pane(cell, dpi)
        header == Larger(S(7), Div(Height(box), 4))
        rows == box.top + header + S(2)
        row == Larger(S(5), Div(box.bottom - rows - S(2), 2))
        bottom == Smaller(box.bottom - 1, rows + row)
        below == bottom + S(3)
    IN [frame |-> box, beside |-> {},
        inside |-> {Rect(box.left + 1, box.top + 1, box.right - 1, box.top + header),
                    Rect(box.left + 1, rows, box.right - 1, bottom)}
            \cup IF below + S(2) < box.bottom - 1
                 THEN {Box(box.left + S(4), below, Div(Width(box) * 2, 5), S(2))} ELSE {}]

\* The arrow and the root, the selected child and the other one.
TreeView(cell, dpi) ==
    LET S(v) == Scaled(dpi, v)
        box == Pane(cell, dpi)
        x == box.left + S(5)
        y == box.top + S(5)
        child == [x |-> x + S(10), y |-> y + S(9)]
        selected == Rect(child.x - S(2), child.y - S(2),
                         Smaller(box.right - S(4), child.x + Div(Width(box), 2)), child.y + S(6))
        other == child.y + S(9)
    IN [frame |-> box, beside |-> {},
        inside |-> {Box(x, y, S(4), S(4)),
                    Box(x + S(4) + S(3), y + Div(S(4), 2) - S(1), Div(Width(box), 3), S(2))}
            \cup (IF selected.bottom < box.bottom THEN {selected} ELSE {})
            \cup (IF other + S(2) < box.bottom - S(3)
                  THEN {Box(child.x, other, Div(Width(box), 4), S(2))} ELSE {})]

\* The active tab and the idle one, which overlap the body by two pixels.
TabControl(cell, dpi) ==
    LET S(v) == Scaled(dpi, v)
        box == Pane(cell, dpi)
        height == Larger(S(9), Div(Height(box), 3))
        width == Smaller(Div(Width(box), 2) - S(2), S(26))
        active == Box(box.left, box.top, width, height + S(2))
        idle == Rect(active.right + S(2), box.top + S(2),
                     Smaller(box.right, active.right + S(2) + width), box.top + height + S(2))
    IN [frame |-> box, beside |-> {},
        inside |-> IF width <= 0 THEN {}
                   ELSE {active, idle, Box(box.left + S(5), box.top + height + S(5),
                                           Div(Width(box), 2), S(2))}]

\* paint_matrix_cell.
Thumbnail(control, cell, dpi) ==
    CASE control = "check_box" -> CheckBox(cell, dpi)
      [] control = "radio_button" -> RadioButton(cell, dpi)
      [] control = "edit" -> Edit(cell, dpi)
      [] control = "combo_box" -> ComboBox(cell, dpi)
      [] control = "list_view" -> ListView(cell, dpi)
      [] control = "tree_view" -> TreeView(cell, dpi)
      [] control = "tab_control" -> TabControl(cell, dpi)

-----------------------------------------------------------------------------
Within(r, s) == /\ s.left <= r.left /\ r.right <= s.right
                /\ s.top <= r.top /\ r.bottom <= s.bottom

\* Every part of a thumbnail is in its frame, which is in the cell, what is
\* beside the frame is in the cell, and the parts do not cover one another.
Fits(t, cell) ==
    LET outer == {t.frame} \cup t.beside
    IN /\ \A r \in Painted(t.inside) : Within(r, t.frame)
       /\ \A r \in Painted(outer) : Within(r, cell)
       /\ \A r, s \in Painted(t.inside) : r # s => Apart(r, s)
       /\ \A r, s \in Painted(outer) : r # s => Apart(r, s)
       /\ Painted(t.inside) # {} /\ Width(t.frame) > 0

Legible(control, cell, dpi) == Fits(Thumbnail(control, cell, dpi), cell)
=============================================================================
