---------------------------- MODULE PopoverPlace ----------------------------
(***************************************************************************)
(* Where the popover goes (src/apps/rust/src/shell/position.rs): the point *)
(* it belongs to, the edge of the work area it hangs on, and its size and  *)
(* place when its content grows.  Lengths are whole logical pixels, so the *)
(* code's floor and ceil change nothing; a quotient is rounded as f32      *)
(* does, half away from zero.                                              *)
(***************************************************************************)
EXTENDS Integers

CONSTANTS
    NotFinite,      \* a coordinate that is NaN or infinite
    None            \* no bounds of the tray, no place chosen by the user

ASSUME NotNumbers == NotFinite \notin Int /\ None \notin Int

Point == [x : Int, y : Int]
Size == [width : Int, height : Int]
Rect == [x : Int, y : Int, width : Int, height : Int]

Larger(a, b) == IF a >= b THEN a ELSE b
Smaller(a, b) == IF a <= b THEN a ELSE b
Distance(a, b) == IF a >= b THEN a - b ELSE b - a

\* round(n / 2)
Half(n) == IF n >= 0 THEN (n + 1) \div 2 ELSE -((1 - n) \div 2)

Overlaps(first, second) ==
    /\ first.x < second.x + second.width
    /\ first.x + first.width > second.x
    /\ first.y < second.y + second.height
    /\ first.y + first.height > second.y

\* An upper bound below the lower one counts for nothing.
Clamp(value, minimum, maximum) ==
    Smaller(Larger(value, minimum), Larger(minimum, maximum))

\* The middle of the tray icon if it is on a screen, otherwise the cursor.
Anchor(tray, displays, cursor) ==
    IF /\ tray # None /\ NotFinite \notin {tray.x, tray.y, tray.width, tray.height}
       /\ tray.width > 0 /\ tray.height > 0
       /\ \E display \in displays : Overlaps(tray, display)
    THEN [x |-> Half(2 * tray.x + tray.width), y |-> Half(2 * tray.y + tray.height)]
    ELSE cursor

\* A height that is not one, or not a positive one, counts as the minimum.
PopoverHeight(requested, minimum, available) ==
    LET maximum == IF available > 0 THEN available ELSE minimum
        natural == IF requested # NotFinite /\ requested > 0
                   THEN requested ELSE minimum
    IN  Smaller(Larger(natural, minimum), maximum)

Distances(anchor, area) ==
    [top    |-> Distance(anchor.y, area.y),
     bottom |-> Distance(area.y + area.height, anchor.y),
     left   |-> Distance(anchor.x, area.x),
     right  |-> Distance(area.x + area.width, anchor.x)]

\* The nearest edge; the first of top, bottom, left and right among equals.
Edge(anchor, area) ==
    LET d == Distances(anchor, area)
    IN  CASE d.top <= d.bottom /\ d.top <= d.left /\ d.top <= d.right -> "top"
          [] d.bottom < d.top /\ d.bottom <= d.left /\ d.bottom <= d.right -> "bottom"
          [] d.left < d.top /\ d.left < d.bottom /\ d.left <= d.right -> "left"
          [] OTHER -> "right"

\* Centred on the anchor along the edge, and within the work area.
Position(anchor, area, size) ==
    LET edge  == Edge(anchor, area)
        lastX == area.x + area.width - size.width
        lastY == area.y + area.height - size.height
        x == CASE edge = "left" -> area.x
               [] edge = "right" -> lastX
               [] OTHER -> anchor.x - Half(size.width)
        y == CASE edge = "top" -> area.y
               [] edge = "bottom" -> lastY
               [] OTHER -> anchor.y - Half(size.height)
    IN  [x |-> Clamp(x, area.x, lastX), y |-> Clamp(y, area.y, lastY)]

\* Mutant: the coordinates become finite only.
AnywhereFinite(position, size, area) ==
    [x |-> IF position.x = NotFinite THEN area.x ELSE position.x,
     y |-> IF position.y = NotFinite THEN area.y ELSE position.y]

\* Both coordinates become finite ones within the work area.
WithinArea(position, size, area) ==
    LET x == IF position.x = NotFinite THEN area.x ELSE position.x
        y == IF position.y = NotFinite THEN area.y ELSE position.y
    IN  [x |-> Clamp(x, area.x, Larger(area.x, area.x + area.width - size.width)),
         y |-> Clamp(y, area.y, Larger(area.y, area.y + area.height - size.height))]

\* A compact view may be low; a full one is at least 360 high, if there is room.
Dimensions(requested, area) ==
    LET low     == requested # NotFinite /\ requested < 304
        minimum == IF low THEN Larger(requested, 124) ELSE 360
    IN  [width  |-> Smaller(480, area.width),
         height |-> PopoverHeight(requested, minimum, Larger(area.height - 4, 1))]

\* The place the user chose is corrected for this size only, never replaced.
Place(requested, custom, anchor, area) ==
    LET size == Dimensions(requested, area)
    IN  IF custom # None THEN WithinArea(custom, size, area)
        ELSE Position(anchor, area, size)

Inside(place, size, area) ==
    /\ place.x >= area.x /\ place.x + size.width <= area.x + area.width
    /\ place.y >= area.y /\ place.y + size.height <= area.y + area.height

\* The popover touches the edge that is nearest to the anchor.
Touches(place, size, area, edge) ==
    CASE edge = "top" -> place.y = area.y
      [] edge = "bottom" -> place.y + size.height = area.y + area.height
      [] edge = "left" -> place.x = area.x
      [] OTHER -> place.x + size.width = area.x + area.width
=============================================================================
