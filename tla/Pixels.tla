------------------------------- MODULE Pixels ------------------------------
(* Rectangles and points of the screen, and scaling to its resolution.     *)
EXTENDS Integers

Rect(l, t, r, b) == [left |-> l, top |-> t, right |-> r, bottom |-> b]
Box(x, y, width, height) == Rect(x, y, x + width, y + height)

\* As PtInRect: the right and bottom edges are outside.
Contains(r, p) == /\ r.left <= p.x /\ p.x < r.right
                  /\ r.top <= p.y /\ p.y < r.bottom

Middle(r) == [x |-> (r.left + r.right) \div 2, y |-> (r.top + r.bottom) \div 2]

Apart(r, s) == \/ r.right <= s.left \/ s.right <= r.left
               \/ r.bottom <= s.top \/ s.bottom <= r.top

Larger(a, b) == IF a >= b THEN a ELSE b
Smaller(a, b) == IF a <= b THEN a ELSE b

\* Division of C++ truncates.
Div(a, b) == IF a >= 0 THEN a \div b ELSE -((-a) \div b)

\* DpiScale::logical_to_pixels, of lengths, which are not negative.
Scaled(dpi, logical) == (logical * dpi + 48) \div 96
=============================================================================
