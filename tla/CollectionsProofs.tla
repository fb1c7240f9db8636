-------------------------- MODULE CollectionsProofs --------------------------
(***************************************************************************)
(* Proofs about the algorithms of Collections, for every input of each:    *)
(* any screens and places, any status pages, any files and directories,    *)
(* any lines and answers of the CLIs.                                      *)
(***************************************************************************)
EXTENDS Collections, SequenceTheorems, FiniteSetTheorems, FunctionTheorems,
        WellFoundedInduction, TLAPS

Below == {pair \in Nat \X Nat : pair[1] < pair[2]}

\* A set of numbers that is not empty has a least element.
LEMMA Smallest ==
  ASSUME NEW T \in SUBSET Nat, T # {}
  PROVE  \E m \in T : \A k \in T : m <= k
<1>1. IsWellFoundedOn(Below, Nat)  BY NatLessThanWellFounded DEF OpToRel, Below
<1>2. PICK m \in T : \A k \in T : ~(<<k, m>> \in Below)  BY <1>1, WFMin
<1>3. \A k \in T : ~(k < m)  BY <1>2 DEF Below
<1> QED  BY <1>2, <1>3

LEMMA MinIsLeast ==
  ASSUME NEW T \in SUBSET Nat, T # {}
  PROVE  Min(T) \in T /\ \A k \in T : Min(T) <= k
<1>1. \E m \in T : \A k \in T : m <= k  BY Smallest
<1> QED  BY <1>1 DEF Min

\* The first of some places is the least.
LEMMA FirstOfPlaces ==
  ASSUME NEW I \in SUBSET Nat
  PROVE  /\ I = {} => FirstOf(I) = 0
         /\ I # {} => FirstOf(I) \in I /\ \A i \in I : FirstOf(I) <= i
  BY MinIsLeast DEF FirstOf

\* r is what is at the places I of s, in order: its k-th comes from at[k].
Picks(r, at, s, I) ==
    /\ at \in [1 .. Len(r) -> I]
    /\ \A i \in I : \E k \in 1 .. Len(r) : at[k] = i
    /\ \A k, l \in 1 .. Len(r) : k < l => at[k] < at[l]
    /\ \A k \in 1 .. Len(r) : r[k] = s[at[k]]

\* Induction over the indices of a sequence, with the set of those for which
\* something holds.
LEMMA IndexInduction ==
  ASSUME NEW n \in Nat, NEW P, 0 \in P, \A i \in 1 .. n : i - 1 \in P => i \in P
  PROVE  \A i \in 0 .. n : i \in P
<1> DEFINE T == {i \in 0 .. n : i \notin P}
<1> SUFFICES ASSUME T # {} PROVE FALSE  OBVIOUS
<1>1. T \in SUBSET Nat  OBVIOUS
<1>2. PICK m \in T : \A k \in T : m <= k
  <2> HIDE DEF T
  <2> QED  BY <1>1, Smallest
<1>3. m \in 1 .. n /\ m \notin P  OBVIOUS
<1>4. m - 1 \in 0 .. n /\ m - 1 \notin T  BY <1>2, <1>3
<1> QED  BY <1>3, <1>4

\* f is what n steps from base come to; step has the values in S.
Folded(f, S, base, n, step) ==
    /\ f \in [0 .. n -> S] /\ f[0] = base
    /\ \A i \in 1 .. n : f[i] = step[<<i, f[i - 1]>>]

\* A function defined from the value before each index exists.
LEMMA FoldExists ==
  ASSUME NEW S, NEW base \in S, NEW n \in Nat, NEW step \in [(1 .. n) \X S -> S]
  PROVE  \E f : Folded(f, S, base, n, step)
<1> DEFINE P == {k \in 0 .. n : \E f : Folded(f, S, base, k, step)}
<1>1. 0 \in P
  <2> DEFINE f == [i \in 0 .. 0 |-> base]
  <2>1. f \in [0 .. 0 -> S] /\ f[0] = base  OBVIOUS
  <2> HIDE DEF f
  <2>2. Folded(f, S, base, 0, step)  BY <2>1 DEF Folded
  <2> QED  BY <2>2
<1>2. ASSUME NEW k \in 1 .. n, k - 1 \in P PROVE k \in P
  <2>0. PICK h : Folded(h, S, base, k - 1, step)  BY <1>2
  <2>1. /\ h \in [0 .. k - 1 -> S] /\ h[0] = base
        /\ \A i \in 1 .. k - 1 : h[i] = step[<<i, h[i - 1]>>]
    BY <2>0 DEF Folded
  <2> DEFINE last == step[<<k, h[k - 1]>>]
             f == [i \in 0 .. k |-> IF i = k THEN last ELSE h[i]]
  <2>2. last \in S
    <3>1. h[k - 1] \in S  BY <2>1
    <3> QED  BY <3>1
  <2>3. f \in [0 .. k -> S]
    <3> HIDE DEF last
    <3> QED  BY <2>1, <2>2
  <2>4. f[0] = base
    <3>1. 0 \in 0 .. k - 1 /\ h[0] = base  BY <2>1
    <3> QED  BY <3>1
  <2>5. ASSUME NEW i \in 1 .. k PROVE f[i] = step[<<i, f[i - 1]>>]
    <3>1. CASE i = k
      <4>1. f[k] = last /\ f[k - 1] = h[k - 1]  OBVIOUS
      <4> HIDE DEF f
      <4> QED  BY <3>1, <4>1
    <3>2. CASE i # k
      <4>1. i \in 1 .. k - 1 /\ i \in 0 .. k - 1 /\ i - 1 \in 0 .. k - 1  BY <3>2
      <4>2. h[i] = step[<<i, h[i - 1]>>]  BY <2>1, <4>1
      <4>3. f[i] = h[i] /\ f[i - 1] = h[i - 1]  BY <3>2, <4>1
      <4> QED  BY <4>2, <4>3
    <3> QED  BY <3>1, <3>2
  <2> HIDE DEF f
  <2>6. Folded(f, S, base, k, step)  BY <2>3, <2>4, <2>5 DEF Folded
  <2> QED  BY <2>6
<1>3. n \in P
  <2> HIDE DEF P
  <2> QED  BY <1>1, <1>2, IndexInduction
<1> QED  BY <1>3

\* A case is one of the inputs, and stays it.
LEMMA CaseStays == Spec => [](case \in Cases)
<1>1. Init => case \in Cases  BY DEF Init
<1>2. case \in Cases /\ [Next]_case => (case \in Cases)'  BY DEF Next
<1> QED  BY <1>1, <1>2, PTL DEF Spec

-----------------------------------------------------------------------------
(* Where the popover goes.                                                  *)

\* A value clamped between bounds in order is between them, and is the value
\* itself if that already is.
LEMMA ClampBetween ==
  ASSUME NEW v \in Int, NEW a \in Int, NEW b \in Int, a <= b
  PROVE  /\ Clamp(v, a, b) \in Int /\ a <= Clamp(v, a, b) /\ Clamp(v, a, b) <= b
         /\ a <= v /\ v <= b => Clamp(v, a, b) = v
  BY DEF Clamp, Larger, Smaller

LEMMA HalfInt == ASSUME NEW n \in Int PROVE Half(n) \in Int
  BY DEF Half

\* A popover is never empty and never larger than the work area.
THEOREM SizeFits ==
  ASSUME NEW area \in WorkArea, NEW requested \in Length
  PROVE  LET size == Dimensions(requested, area)
         IN  /\ size \in Size
             /\ 1 <= size.width /\ size.width <= area.width
             /\ 1 <= size.height /\ size.height <= area.height
<1> DEFINE low == requested # NotFinite /\ requested < 304
           minimum == IF low THEN Larger(requested, 124) ELSE 360
           available == Larger(area.height - 4, 1)
           height == PopoverHeight(requested, minimum, available)
<1>1. area.width \in Int /\ area.height \in Int /\ area.width >= 1 /\ area.height >= 1
  BY DEF WorkArea, Rect
<1>2. minimum \in Int /\ minimum >= 124  BY NotNumbers DEF Length, Larger
<1>3. available \in Int /\ 1 <= available /\ available <= area.height  BY <1>1 DEF Larger
<1>4. height \in Int /\ 1 <= height /\ height <= available
  <2> HIDE DEF minimum, available
  <2> QED  BY <1>2, <1>3, NotNumbers DEF Length, PopoverHeight, Larger, Smaller
<1>5. LET width == Smaller(480, area.width)
      IN  width \in Int /\ 1 <= width /\ width <= area.width
  BY <1>1 DEF Smaller
<1>6. Dimensions(requested, area) = [width |-> Smaller(480, area.width), height |-> height]
  BY DEF Dimensions
<1> HIDE DEF height, available
<1> QED  BY <1>1, <1>3, <1>4, <1>5, <1>6 DEF Size

\* A size that fits leaves a place for its corner.
LEMMA Room ==
  ASSUME NEW area \in WorkArea, NEW size \in Size,
         size.width <= area.width, size.height <= area.height
  PROVE  /\ area.x \in Int /\ area.y \in Int
         /\ area.x + area.width - size.width \in Int /\ area.y + area.height - size.height \in Int
         /\ area.x <= area.x + area.width - size.width
         /\ area.y <= area.y + area.height - size.height
  BY DEF WorkArea, Rect, Size

LEMMA PositionInside ==
  ASSUME NEW area \in WorkArea, NEW anchor \in Point, NEW size \in Size,
         size.width <= area.width, size.height <= area.height
  PROVE  Inside(Position(anchor, area, size), size, area)
<1> DEFINE lastX == area.x + area.width - size.width
           lastY == area.y + area.height - size.height
           edge == Edge(anchor, area)
           x == CASE edge = "left" -> area.x [] edge = "right" -> lastX
                  [] OTHER -> anchor.x - Half(size.width)
           y == CASE edge = "top" -> area.y [] edge = "bottom" -> lastY
                  [] OTHER -> anchor.y - Half(size.height)
<1>1. /\ area.x \in Int /\ area.y \in Int /\ lastX \in Int /\ lastY \in Int
      /\ area.x <= lastX /\ area.y <= lastY
  BY Room
<1>2. anchor.x - Half(size.width) \in Int /\ anchor.y - Half(size.height) \in Int
  BY HalfInt DEF Point, Size
<1>3. Position(anchor, area, size) = [x |-> Clamp(x, area.x, lastX), y |-> Clamp(y, area.y, lastY)]
  BY DEF Position
<1>4. x \in Int /\ y \in Int
  <2> HIDE DEF edge, lastX, lastY
  <2> QED  BY <1>1, <1>2
<1>5. /\ Clamp(x, area.x, lastX) \in Int /\ area.x <= Clamp(x, area.x, lastX)
      /\ Clamp(x, area.x, lastX) <= lastX
      /\ Clamp(y, area.y, lastY) \in Int /\ area.y <= Clamp(y, area.y, lastY)
      /\ Clamp(y, area.y, lastY) <= lastY
  <2> HIDE DEF x, y, lastX, lastY
  <2> QED  BY <1>1, <1>4, ClampBetween
<1> HIDE DEF x, y, edge
<1> QED  BY <1>3, <1>5 DEF Inside, WorkArea, Rect, Size

LEMMA WithinInside ==
  ASSUME NEW area \in WorkArea, NEW place \in ChosenPlace, NEW size \in Size,
         size.width <= area.width, size.height <= area.height
  PROVE  /\ Inside(WithinArea(place, size, area), size, area)
         /\ place \in Point /\ Inside(place, size, area) => WithinArea(place, size, area) = place
<1> DEFINE lastX == area.x + area.width - size.width
           lastY == area.y + area.height - size.height
           x == IF place.x = NotFinite THEN area.x ELSE place.x
           y == IF place.y = NotFinite THEN area.y ELSE place.y
<1>1. /\ area.x \in Int /\ area.y \in Int /\ lastX \in Int /\ lastY \in Int
      /\ area.x <= lastX /\ area.y <= lastY
  BY Room
<1>2. x \in Int /\ y \in Int  BY <1>1 DEF ChosenPlace, Length
<1>3. WithinArea(place, size, area)
        = [x |-> Clamp(x, area.x, lastX), y |-> Clamp(y, area.y, lastY)]
  BY <1>1 DEF WithinArea, Larger
<1>4. /\ Clamp(x, area.x, lastX) \in Int /\ area.x <= Clamp(x, area.x, lastX)
      /\ Clamp(x, area.x, lastX) <= lastX
      /\ area.x <= x /\ x <= lastX => Clamp(x, area.x, lastX) = x
      /\ Clamp(y, area.y, lastY) \in Int /\ area.y <= Clamp(y, area.y, lastY)
      /\ Clamp(y, area.y, lastY) <= lastY
      /\ area.y <= y /\ y <= lastY => Clamp(y, area.y, lastY) = y
  <2> HIDE DEF x, y, lastX, lastY
  <2> QED  BY <1>1, <1>2, ClampBetween
<1>5. Inside(WithinArea(place, size, area), size, area)
  <2> HIDE DEF x, y
  <2> QED  BY <1>3, <1>4 DEF Inside, WorkArea, Rect, Size
<1>6. ASSUME place \in Point, Inside(place, size, area)
      PROVE  WithinArea(place, size, area) = place
  <2>1. x = place.x /\ y = place.y  BY <1>6, NotNumbers DEF Point
  <2>2. area.x <= x /\ x <= lastX /\ area.y <= y /\ y <= lastY
    BY <1>6, <2>1 DEF Inside, WorkArea, Rect, Size, Point
  <2>3. WithinArea(place, size, area) = [x |-> x, y |-> y]
    <3> HIDE DEF x, y, lastX, lastY
    <3> QED  BY <1>3, <1>4, <2>2
  <2> QED  BY <1>6, <2>1, <2>3 DEF Point
<1> QED  BY <1>5, <1>6

\* However high the content, wherever the tray or the cursor is and whatever
\* place was saved: the whole popover is on the work area.
THEOREM PlacedInside ==
  ASSUME NEW area \in WorkArea, NEW requested \in Length, NEW anchor \in Point,
         NEW custom \in ChosenPlace \cup {None}
  PROVE  Inside(Place(requested, custom, anchor, area), Dimensions(requested, area), area)
<1>1. Dimensions(requested, area) \in Size
      /\ Dimensions(requested, area).width <= area.width
      /\ Dimensions(requested, area).height <= area.height
  BY SizeFits
<1>2. CASE custom # None  BY <1>1, <1>2, WithinInside DEF Place
<1>3. CASE custom = None  BY <1>1, <1>3, PositionInside DEF Place
<1> QED  BY <1>2, <1>3

\* A place the user chose, where the whole popover is on the work area, is kept.
THEOREM ChosenPlaceKept ==
  ASSUME NEW area \in WorkArea, NEW requested \in Length, NEW anchor \in Point,
         NEW custom \in Point, custom # None, Inside(custom, Dimensions(requested, area), area)
  PROVE  Place(requested, custom, anchor, area) = custom
<1>1. Dimensions(requested, area) \in Size
      /\ Dimensions(requested, area).width <= area.width
      /\ Dimensions(requested, area).height <= area.height
  BY SizeFits
<1>2. custom \in ChosenPlace  BY DEF Point, ChosenPlace, Length
<1> QED  BY <1>1, <1>2, WithinInside DEF Place

\* Without a place of the user's the popover hangs on the edge of the work area
\* that is nearest to the anchor.
THEOREM HangsOnNearestEdge ==
  ASSUME NEW area \in WorkArea, NEW requested \in Length, NEW anchor \in Point
  PROVE  LET edge == Edge(anchor, area)
             d == Distances(anchor, area)
         IN  /\ \A other \in DOMAIN d : d[edge] <= d[other]
             /\ Touches(Place(requested, None, anchor, area), Dimensions(requested, area), area, edge)
<1> DEFINE size == Dimensions(requested, area)
           d == Distances(anchor, area)
           edge == Edge(anchor, area)
           lastX == area.x + area.width - size.width
           lastY == area.y + area.height - size.height
<1>1. size \in Size /\ size.width <= area.width /\ size.height <= area.height
  BY SizeFits
<1>2. /\ area.x \in Int /\ area.y \in Int /\ lastX \in Int /\ lastY \in Int
      /\ area.x <= lastX /\ area.y <= lastY
  BY <1>1, Room
<1>3. d.top \in Int /\ d.bottom \in Int /\ d.left \in Int /\ d.right \in Int
      /\ DOMAIN d = {"top", "bottom", "left", "right"}
  BY DEF Distances, Distance, Point, WorkArea, Rect
<1>4. \A other \in DOMAIN d : d[edge] <= d[other]
  <2> HIDE DEF d
  <2>1. edge = CASE d.top <= d.bottom /\ d.top <= d.left /\ d.top <= d.right -> "top"
                 [] d.bottom < d.top /\ d.bottom <= d.left /\ d.bottom <= d.right -> "bottom"
                 [] d.left < d.top /\ d.left < d.bottom /\ d.left <= d.right -> "left"
                 [] OTHER -> "right"
    BY DEF Edge, d
  <2> HIDE DEF edge
  <2> QED  BY <1>3, <2>1
<1>5. edge \in {"top", "bottom", "left", "right"}  BY DEF Edge
<1>6. Place(requested, None, anchor, area) = Position(anchor, area, size)  BY DEF Place
<1>7. Clamp(area.x, area.x, lastX) = area.x /\ Clamp(lastX, area.x, lastX) = lastX
      /\ Clamp(area.y, area.y, lastY) = area.y /\ Clamp(lastY, area.y, lastY) = lastY
  <2> HIDE DEF lastX, lastY
  <2> QED  BY <1>2 DEF Clamp, Larger, Smaller
<1>8. Touches(Position(anchor, area, size), size, area, edge)
  <2> HIDE DEF size, edge
  <2> USE DEF WorkArea, Rect, Size
  <2>1. CASE edge = "top"     BY <1>7, <2>1 DEF Position, Touches, edge
  <2>2. CASE edge = "left"    BY <1>7, <2>2 DEF Position, Touches, edge
  <2>3. CASE edge = "bottom"  BY <1>1, <1>7, <2>3 DEF Position, Touches, edge
  <2>4. CASE edge = "right"   BY <1>1, <1>7, <2>4 DEF Position, Touches, edge
  <2> QED  BY <1>5, <2>1, <2>2, <2>3, <2>4
<1> QED  BY <1>4, <1>6, <1>8

LEMMA HalfWithin ==
  ASSUME NEW x \in Int, NEW w \in Int, w > 0
  PROVE  Half(2 * x + w) \in x .. x + w
BY DEF Half

\* Invariant PopoverOnScreen: see its definition.
THEOREM PopoverSafe == Spec => []PopoverOnScreen
<1> DEFINE Placed ==
      LET size == Dimensions(case.requested, case.area)
          place == Place(case.requested, case.custom, case.anchor, case.area)
          d == Distances(case.anchor, case.area)
      IN  /\ Inside(place, size, case.area)
          /\ case.custom = None =>
               \E edge \in DOMAIN d : /\ \A other \in DOMAIN d : d[edge] <= d[other]
                                     /\ Touches(place, size, case.area, edge)
          /\ (/\ case.custom # None
              /\ NotFinite \notin {case.custom.x, case.custom.y}
              /\ Inside(case.custom, size, case.area)) => place = case.custom
<1>1. ASSUME case \in PlaceCase PROVE Placed
  <2>1. /\ case.area \in WorkArea /\ case.anchor \in Point /\ case.requested \in Length
        /\ case.custom \in ChosenPlace \cup {None}
    BY <1>1 DEF PlaceCase
  <2>2. Inside(Place(case.requested, case.custom, case.anchor, case.area),
               Dimensions(case.requested, case.area), case.area)
    BY <2>1, PlacedInside
  <2>3. ASSUME case.custom = None
        PROVE  LET place == Place(case.requested, case.custom, case.anchor, case.area)
                   d == Distances(case.anchor, case.area)
               IN  \E edge \in DOMAIN d :
                     /\ \A other \in DOMAIN d : d[edge] <= d[other]
                     /\ Touches(place, Dimensions(case.requested, case.area), case.area, edge)
    <3>1. Edge(case.anchor, case.area) \in DOMAIN Distances(case.anchor, case.area)
      BY DEF Edge, Distances
    <3> QED  BY <2>1, <2>3, <3>1, HangsOnNearestEdge
  <2>4. ASSUME case.custom # None, NotFinite \notin {case.custom.x, case.custom.y},
               Inside(case.custom, Dimensions(case.requested, case.area), case.area)
        PROVE  Place(case.requested, case.custom, case.anchor, case.area) = case.custom
    <3>1. case.custom \in Point  BY <2>1, <2>4 DEF ChosenPlace, Length, Point
    <3> QED  BY <2>1, <2>4, <3>1, ChosenPlaceKept
  <2> QED  BY <2>2, <2>3, <2>4
<1> DEFINE Anchored ==
      LET point == Anchor(case.tray, case.displays, case.cursor)
      IN  point = case.cursor
          \/ /\ case.tray # None /\ \E d \in case.displays : Overlaps(case.tray, d)
             /\ point.x \in case.tray.x..case.tray.x + case.tray.width
             /\ point.y \in case.tray.y..case.tray.y + case.tray.height
<1>2. ASSUME case \in TrayCase PROVE Anchored
  <2>1. case.tray \in Bounds \cup {None}  BY <1>2 DEF TrayCase
  <2> DEFINE tray == case.tray
             valid == /\ tray # None /\ NotFinite \notin {tray.x, tray.y, tray.width, tray.height}
                      /\ tray.width > 0 /\ tray.height > 0
                      /\ \E display \in case.displays : Overlaps(tray, display)
  <2>2. CASE ~valid
    <3>1. Anchor(tray, case.displays, case.cursor) = case.cursor  BY <2>2 DEF Anchor
    <3> QED  BY <3>1
  <2>3. CASE valid
    <3>1. /\ tray.x \in Int /\ tray.width \in Int /\ tray.width > 0
          /\ tray.y \in Int /\ tray.height \in Int /\ tray.height > 0
      BY <2>1, <2>3 DEF Bounds, Length
    <3>2. Anchor(tray, case.displays, case.cursor)
            = [x |-> Half(2 * tray.x + tray.width), y |-> Half(2 * tray.y + tray.height)]
      BY <2>3 DEF Anchor
    <3>3. Half(2 * tray.x + tray.width) \in tray.x .. tray.x + tray.width
          /\ Half(2 * tray.y + tray.height) \in tray.y .. tray.y + tray.height
      BY <3>1, HalfWithin
    <3> QED  BY <2>3, <3>2, <3>3
  <2> QED  BY <2>2, <2>3
<1>3. case \in Cases => PopoverOnScreen
  BY <1>1, <1>2, CasesOK DEF PopoverOnScreen
<1> QED  BY <1>3, CaseStays, PTL

-----------------------------------------------------------------------------
(* The vendors' status.                                                     *)

\* What selecting the first element of a kind gives: its index, or 0.
First(at, s, I) ==
    /\ I = {} => at = 0
    /\ I # {} => at \in I /\ at \in DOMAIN s /\ \A i \in I : at <= i

LEMMA ReadableFirst ==
  ASSUME NEW T, NEW pages \in Seq(T)
  PROVE  First(FirstReadable(pages), pages, {i \in DOMAIN pages : Readable(pages[i])})
<1> DEFINE I == {i \in 1 .. Len(pages) : Readable(pages[i])}
<1>1. I = {} \/ (Min(I) \in I /\ \A i \in I : Min(I) <= i)
  <2>1. I \in SUBSET Nat  OBVIOUS
  <2> HIDE DEF I
  <2> QED  BY <2>1, MinIsLeast
<1>2. FirstReadable(pages) = IF I # {} THEN Min(I) ELSE 0  BY DEF FirstReadable, SelectInSeq
<1>3. I = {i \in DOMAIN pages : Readable(pages[i])} /\ I \subseteq DOMAIN pages  OBVIOUS
<1> HIDE DEF I
<1> QED  BY <1>1, <1>2, <1>3 DEF First

LEMMA FirstOngoingIncident ==
  ASSUME NEW T, NEW incidents \in Seq(T)
  PROVE  First(SelectInSeq(incidents, Ongoing), incidents,
               {i \in DOMAIN incidents : Ongoing(incidents[i])})
<1> DEFINE I == {i \in 1 .. Len(incidents) : Ongoing(incidents[i])}
<1>1. I = {} \/ (Min(I) \in I /\ \A i \in I : Min(I) <= i)
  <2>1. I \in SUBSET Nat  OBVIOUS
  <2> HIDE DEF I
  <2> QED  BY <2>1, MinIsLeast
<1>2. SelectInSeq(incidents, Ongoing) = IF I # {} THEN Min(I) ELSE 0  BY DEF SelectInSeq
<1>3. I = {i \in DOMAIN incidents : Ongoing(incidents[i])} /\ I \subseteq DOMAIN incidents
  OBVIOUS
<1> HIDE DEF I
<1> QED  BY <1>1, <1>2, <1>3 DEF First

LEMMA AboutGoogleAIFirst ==
  ASSUME NEW T, NEW incidents \in Seq(T)
  PROVE  First(FirstAboutGoogleAI(incidents), incidents,
               {i \in DOMAIN incidents : AboutGoogleAI(incidents[i])})
<1> DEFINE I == {i \in 1 .. Len(incidents) : AboutGoogleAI(incidents[i])}
<1>1. I = {} \/ (Min(I) \in I /\ \A i \in I : Min(I) <= i)
  <2>1. I \in SUBSET Nat  OBVIOUS
  <2> HIDE DEF I
  <2> QED  BY <2>1, MinIsLeast
<1>2. FirstAboutGoogleAI(incidents) = IF I # {} THEN Min(I) ELSE 0
  BY DEF FirstAboutGoogleAI, SelectInSeq
<1>3. I = {i \in DOMAIN incidents : AboutGoogleAI(incidents[i])} /\ I \subseteq DOMAIN incidents
  OBVIOUS
<1> HIDE DEF I
<1> QED  BY <1>1, <1>2, <1>3 DEF First

LEMMA Ranks ==
  /\ Indicators = {"unknown", "operational", "minor", "major", "critical"}
  /\ Rank["unknown"] = 0 /\ Rank["operational"] = 1 /\ Rank["minor"] = 2
  /\ Rank["major"] = 3 /\ Rank["critical"] = 4
BY DEF Indicators, Rank

LEMMA MeaningKnown == \A word : Meaning(word) \in Indicators
BY Ranks DEF Meaning

\* Combining keeps the worse one.
LEMMA CombineWorse ==
  ASSUME NEW a \in Indicators, NEW b \in Indicators
  PROVE  /\ Combine(a, b) \in {a, b} /\ Combine(a, b) \in Indicators
         /\ Rank[a] <= Rank[Combine(a, b)] /\ Rank[b] <= Rank[Combine(a, b)]
BY Ranks DEF Combine

Signals(components, n) ==
    {"unknown"} \cup {Meaning(components[i].status) : i \in {j \in 1 .. n : components[j].relevant}}

\* The worst of any number of components.
LEMMA WorstOfAll ==
  ASSUME NEW components \in Seq(Component)
  PROVE  /\ Worst(components) \in Signals(components, Len(components))
         /\ Worst(components) \in Indicators
         /\ \A s \in Signals(components, Len(components)) : Rank[s] <= Rank[Worst(components)]
<1> DEFINE n == Len(components)
           After(ind, i) == IF components[i].relevant
                            THEN Combine(ind, Meaning(components[i].status)) ELSE ind
           step == [p \in (1 .. n) \X Indicators |-> After(p[2], p[1])]
           Fold(f) == f = [i \in 0 .. n |-> IF i = 0 THEN "unknown" ELSE After(f[i - 1], i)]
<1>0. n \in Nat  OBVIOUS
<1>1. \A ind \in Indicators, i \in 1 .. n : After(ind, i) \in Indicators
  BY MeaningKnown, CombineWorse
<1>2. step \in [(1 .. n) \X Indicators -> Indicators]
  <2> HIDE DEF After
  <2> QED  BY <1>1
<1>3. PICK f : Folded(f, Indicators, "unknown", n, step)
  <2>1. "unknown" \in Indicators  BY Ranks
  <2> HIDE DEF step, n
  <2> QED  BY <1>0, <1>2, <2>1, FoldExists
<1>4. Fold(f)
  <2>1. f \in [0 .. n -> Indicators] /\ \A i \in 1 .. n : f[i - 1] \in Indicators
    <3> HIDE DEF n, step
    <3> QED  BY <1>0, <1>3 DEF Folded
  <2>2. \A i \in 1 .. n : f[i] = After(f[i - 1], i)
    <3> HIDE DEF After, n
    <3> QED  BY <1>3, <2>1 DEF Folded
  <2>3. f = [i \in 0 .. n |-> f[i]]  BY <2>1
  <2> HIDE DEF After, n
  <2>4. \A i \in 0 .. n : f[i] = IF i = 0 THEN "unknown" ELSE After(f[i - 1], i)
    <3> HIDE DEF step
    <3> QED  BY <1>0, <1>3, <2>2 DEF Folded
  <2> QED  BY <2>3, <2>4
<1>5. PICK g : Fold(g) /\ Worst(components) = g[n]
  <2> DEFINE c == CHOOSE g : Fold(g)
  <2>1. Worst(components) = c[n]  BY DEF Worst
  <2> HIDE DEF Fold
  <2>2. Fold(c)  BY <1>4
  <2> HIDE DEF c
  <2> QED  BY <2>1, <2>2
<1>6. g[0] = "unknown" /\ \A i \in 1 .. n : g[i] = After(g[i - 1], i)
  <2> HIDE DEF After, n
  <2>1. 0 \in 0 .. n /\ \A i \in 1 .. n : i \in 0 .. n /\ i # 0  BY <1>0
  <2>2. g[0] = "unknown"  BY <1>5, <2>1
  <2>3. \A i \in 1 .. n : g[i] = After(g[i - 1], i)  BY <1>5, <2>1
  <2> QED  BY <2>2, <2>3
<1> DEFINE Good(i) == /\ g[i] \in Signals(components, i) /\ g[i] \in Indicators
                      /\ \A s \in Signals(components, i) : Rank[s] <= Rank[g[i]]
           P == {i \in 0 .. n : Good(i)}
<1>7. 0 \in P
  <2>1. g[0] = "unknown"  BY <1>6
  <2>2. Signals(components, 0) = {"unknown"}  BY DEF Signals
  <2> QED  BY <2>1, <2>2, Ranks
<1>8. ASSUME NEW i \in 1 .. n, i - 1 \in P PROVE i \in P
  <2> DEFINE m == Meaning(components[i].status)
  <2>1. g[i] = After(g[i - 1], i)  BY <1>6
  <2>2. Good(i - 1) /\ m \in Indicators  BY <1>8, MeaningKnown
  <2>3. CASE components[i].relevant
    <3>1. Signals(components, i) = Signals(components, i - 1) \cup {m}  BY <2>3 DEF Signals
    <3>2. g[i] = Combine(g[i - 1], m)  BY <2>1, <2>3
    <3> HIDE DEF m
    <3>3. \A s \in Signals(components, i - 1) : s \in Indicators  BY MeaningKnown, Ranks DEF Signals
    <3> QED  BY <2>2, <3>1, <3>2, <3>3, CombineWorse, Ranks
  <2>4. CASE ~components[i].relevant
    <3>1. Signals(components, i) = Signals(components, i - 1)  BY <2>4 DEF Signals
    <3> QED  BY <2>1, <2>2, <2>4, <3>1
  <2> QED  BY <2>3, <2>4
<1>9. n \in P
  <2> HIDE DEF P, n
  <2>1. \A i \in 0 .. n : i \in P  BY <1>0, <1>7, <1>8, IndexInduction
  <2> QED  BY <1>0, <2>1
<1> QED  BY <1>5, <1>9

LEMMA SummaryShowsTheWorst ==
  ASSUME NEW page \in StatusPage
  PROVE  ShowsTheWorst(Summary(page), page)
<1> DEFINE own == Meaning(page.indicator)
           worst == Worst(page.components)
           shown == Combine(own, worst)
           named == {Meaning(page.components[i].status) :
                       i \in {j \in DOMAIN page.components : page.components[j].relevant}}
<1>1. page.components \in Seq(Component) /\ page.incidents \in Seq(Incident)  BY DEF StatusPage
<1>2. Signals(page.components, Len(page.components)) = {"unknown"} \cup named
  BY <1>1 DEF Signals
<1>3. /\ own \in Indicators /\ worst \in Indicators /\ worst \in {"unknown"} \cup named
      /\ \A s \in {"unknown"} \cup named : Rank[s] <= Rank[worst]
  BY <1>1, <1>2, WorstOfAll, MeaningKnown
<1>4. Summary(page).indicator = shown /\ Summary(page).incident = FirstOngoing(page.incidents)
  BY DEF Summary, Status
<1>5. \A s \in named : s \in Indicators  BY MeaningKnown
<1>6. shown \in {own} \cup named /\ \A s \in {own} \cup named : Rank[s] <= Rank[shown]
  <2> HIDE DEF own, worst, named
  <2>1. shown \in {own, worst} /\ Rank[own] <= Rank[shown] /\ Rank[worst] <= Rank[shown]
        /\ shown \in Indicators
    BY <1>3, CombineWorse
  <2>2. \A s \in named : Rank[s] <= Rank[shown]  BY <1>3, <1>5, <2>1, Ranks
  <2>3. CASE worst \in named  BY <2>1, <2>2, <2>3
  <2>4. CASE worst = "unknown"
    <3>1. shown = own  BY <1>3, <2>4, Ranks DEF Combine
    <3> QED  BY <2>1, <2>2, <3>1
  <2> QED  BY <1>3, <2>3, <2>4
<1>7. FirstOngoing(page.incidents) # "none" =>
        \E i \in DOMAIN page.incidents : /\ page.incidents[i].name = FirstOngoing(page.incidents)
                                         /\ Ongoing(page.incidents[i])
  BY <1>1, FirstOngoingIncident DEF First, FirstOngoing
<1> HIDE DEF shown, named, own
<1> QED  BY <1>4, <1>6, <1>7 DEF ShowsTheWorst, own, named

LEMMA NothingSimulated ==
  ASSUME NEW target, NEW provider \in {"claude", "codex", "antigravity"}
  PROVE  Simulated(target, provider) # "none" => Rank[Simulated(target, provider)] >= 2
BY Ranks DEF Simulated

\* Invariant WorstSignalShown: see its definition.
THEOREM WorstSafe == Spec => []WorstSignalShown
<1> DEFINE status == VendorStatus(case.provider, case.target, case.pages)
           readable == {i \in DOMAIN case.pages : Readable(case.pages[i])}
           simulated == Simulated(case.target, case.provider)
           Worse == IF case.provider = "antigravity"
                    THEN \E first \in readable : /\ \A i \in readable : first <= i
                                                 /\ NeverHidesAnIncident(status, case.pages[first])
                    ELSE \E first \in readable : /\ \A i \in readable : first <= i
                                                 /\ ShowsTheWorst(status, case.pages[first])
           Shows == IF simulated # "none" THEN Rank[status.indicator] >= 2
                    ELSE IF readable = {} THEN status.indicator = "unknown" ELSE Worse
<1>1. ASSUME HealthCase(case), case.provider = "claude" PROVE Shows
  <2>1. case.pages \in Seq(StatusPage \cup NoPage)  BY <1>1 DEF HealthCase
  <2>2. status = ClaudeStatus(case.target, case.pages)  BY <1>1 DEF VendorStatus
  <2> DEFINE at == FirstReadable(case.pages)
  <2>3. First(at, case.pages, readable)  BY <2>1, ReadableFirst
  <2>4. CASE simulated # "none"
    BY <1>1, <2>2, <2>4, NothingSimulated DEF ClaudeStatus, Status
  <2>5. CASE simulated = "none" /\ readable = {}
    BY <1>1, <2>2, <2>3, <2>5 DEF ClaudeStatus, Status, Unreachable, First
  <2>6. CASE simulated = "none" /\ readable # {}
    <3>1. at \in readable /\ at \in DOMAIN case.pages /\ at # 0 /\ \A i \in readable : at <= i
      BY <2>1, <2>3, <2>6 DEF First
    <3>2. case.pages[at] \in StatusPage
      BY <2>1, <3>1 DEF NoPage, Readable
    <3>3. status = Summary(case.pages[at])  BY <1>1, <2>2, <2>6, <3>1 DEF ClaudeStatus
    <3> QED  BY <1>1, <2>6, <3>1, <3>2, <3>3, SummaryShowsTheWorst
  <2> QED  BY <2>4, <2>5, <2>6
<1>2. ASSUME HealthCase(case), case.provider = "codex" PROVE Shows
  <2>1. case.pages \in Seq(StatusPage \cup NoPage) /\ Len(case.pages) = 1
    BY <1>2 DEF HealthCase
  <2>2. status = CodexStatus(case.target, case.pages[1])  BY <1>2 DEF VendorStatus
  <2>3. readable = IF Readable(case.pages[1]) THEN {1} ELSE {}  BY <2>1
  <2>4. CASE simulated # "none"
    BY <1>2, <2>2, <2>4, NothingSimulated DEF CodexStatus, Status
  <2>5. CASE simulated = "none" /\ readable = {}
    BY <1>2, <2>2, <2>3, <2>5 DEF CodexStatus, Status, Unreachable
  <2>6. CASE simulated = "none" /\ readable # {}
    <3>1. readable = {1} /\ Readable(case.pages[1])  BY <2>3, <2>6
    <3>2. case.pages[1] \in StatusPage  BY <2>1, <3>1 DEF NoPage, Readable
    <3>3. status = Summary(case.pages[1])  BY <1>2, <2>2, <2>6, <3>1 DEF CodexStatus
    <3> QED  BY <1>2, <2>6, <3>1, <3>2, <3>3, SummaryShowsTheWorst
  <2> QED  BY <2>4, <2>5, <2>6
<1>3. ASSUME HealthCase(case), case.provider = "antigravity" PROVE Shows
  <2>1. case.pages \in Seq(IncidentPage \cup NoPage) /\ Len(case.pages) = 1
    BY <1>3 DEF HealthCase
  <2>2. status = AntigravityStatus(case.target, case.pages[1])  BY <1>3 DEF VendorStatus
  <2>3. readable = IF Readable(case.pages[1]) THEN {1} ELSE {}  BY <2>1
  <2>4. CASE simulated # "none"
    BY <1>3, <2>2, <2>4, NothingSimulated DEF AntigravityStatus, Status
  <2>5. CASE simulated = "none" /\ readable = {}
    BY <1>3, <2>2, <2>3, <2>5 DEF AntigravityStatus, Status, Unreachable
  <2>6. CASE simulated = "none" /\ readable # {}
    <3> DEFINE page == case.pages[1]
               about == {i \in DOMAIN page.incidents : AboutGoogleAI(page.incidents[i])}
               at == FirstAboutGoogleAI(page.incidents)
    <3>1. readable = {1} /\ Readable(page)  BY <2>3, <2>6
    <3>2. page \in IncidentPage  BY <2>1, <3>1 DEF NoPage, Readable
    <3>3. page.incidents \in Seq(OpenIncident)  BY <3>2 DEF IncidentPage
    <3>4. First(at, page.incidents, about)  BY <3>3, AboutGoogleAIFirst
    <3>5. (about = {}) = (\A i \in DOMAIN page.incidents :
                            page.incidents[i].ended \/ ~page.incidents[i].relevant)
      BY <3>3 DEF AboutGoogleAI, OpenIncident
    <3>6. (status.indicator = "operational") = (about = {})
      <4>1. CASE about = {}
        <5>1. status.indicator = "operational"
          BY <1>3, <2>2, <2>6, <3>1, <3>4, <4>1 DEF AntigravityStatus, Status, First
        <5> QED  BY <4>1, <5>1
      <4>2. CASE about # {}
        <5>1. at # 0  BY <3>3, <3>4, <4>2 DEF First
        <5>2. status.indicator \in {"critical", "minor"}
          BY <1>3, <2>2, <2>6, <3>1, <5>1 DEF AntigravityStatus, Status
        <5> QED  BY <4>2, <5>2
      <4> QED  BY <4>1, <4>2
    <3>7. NeverHidesAnIncident(status, page)
      <4> HIDE DEF about, status
      <4> QED  BY <3>5, <3>6 DEF NeverHidesAnIncident
    <3>8. 1 \in readable /\ \A i \in readable : 1 <= i  BY <3>1
    <3> HIDE DEF status
    <3> QED  BY <1>3, <2>6, <3>7, <3>8
  <2> QED  BY <2>4, <2>5, <2>6
<1>4. ASSUME case \in Cases PROVE WorstSignalShown
  <2>1. SUFFICES ASSUME case.kind = "health" PROVE Shows  BY DEF WorstSignalShown
  <2>2. HealthCase(case)  BY <1>4, <2>1, CasesOK
  <2>3. case.provider \in {"claude", "codex", "antigravity"}  BY <2>2 DEF HealthCase
  <2> HIDE DEF Shows
  <2> QED  BY <1>1, <1>2, <1>3, <2>2, <2>3
<1> QED  BY <1>4, CaseStays, PTL

-----------------------------------------------------------------------------
(* The program that is started.                                             *)

\* A place where there is one of the kinds, and none before it.
FirstPlace(p, dirs, candidates, files, kinds) ==
    /\ p \in (DOMAIN dirs) \X (DOMAIN candidates)
    /\ At(files, In(dirs[p[1]], candidates[p[2]])) \in kinds
    /\ \A i \in DOMAIN dirs, j \in DOMAIN candidates :
         At(files, In(dirs[i], candidates[j])) \in kinds
           => p[1] < i \/ (p[1] = i /\ p[2] <= j)

\* A search finds the first place, if there is one.
LEMMA FindsFirst ==
  ASSUME NEW D, NEW C, NEW dirs \in Seq(D), NEW candidates \in Seq(C), NEW files, NEW kinds,
         NEW default
  PROVE  \/ /\ FirstFound(dirs, candidates, files, kinds, default) = default
            /\ \A i \in DOMAIN dirs, j \in DOMAIN candidates :
                 At(files, In(dirs[i], candidates[j])) \notin kinds
         \/ \E p : /\ FirstPlace(p, dirs, candidates, files, kinds)
                   /\ FirstFound(dirs, candidates, files, kinds, default)
                        = In(dirs[p[1]], candidates[p[2]])
<1> DEFINE There(i, j) == At(files, In(dirs[i], candidates[j])) \in kinds
           found == {p \in (DOMAIN dirs) \X (DOMAIN candidates) : There(p[1], p[2])}
           rows == {i \in DOMAIN dirs : \E j \in DOMAIN candidates : There(i, j)}
           Earliest(p) == p \in found /\ \A q \in found : ~Before(q, p)
           first == CHOOSE p \in found : \A q \in found : ~Before(q, p)
<1>0. DOMAIN dirs \subseteq Nat /\ DOMAIN candidates \subseteq Nat  OBVIOUS
<1>1. FirstFound(dirs, candidates, files, kinds, default)
        = IF found = {} THEN default ELSE In(dirs[first[1]], candidates[first[2]])
  BY DEF FirstFound
<1> HIDE DEF There
<1>2. CASE found = {}
  <2>1. \A i \in DOMAIN dirs, j \in DOMAIN candidates : <<i, j>> \notin found  BY <1>2
  <2>2. \A i \in DOMAIN dirs, j \in DOMAIN candidates : ~There(i, j)  BY <2>1
  <2> QED  BY <1>1, <1>2, <2>2 DEF There
<1>3. CASE found # {}
  <2>1. rows # {} /\ rows \in SUBSET Nat  BY <1>0, <1>3
  <2>2. PICK d \in rows : \A i \in rows : d <= i
    <3> HIDE DEF rows
    <3> QED  BY <2>1, Smallest
  <2> DEFINE columns == {j \in DOMAIN candidates : There(d, j)}
  <2>3. columns # {} /\ columns \in SUBSET Nat  BY <1>0, <2>2
  <2>4. PICK c \in columns : \A j \in columns : c <= j
    <3> HIDE DEF columns
    <3> QED  BY <2>3, Smallest
  <2>5. <<d, c>> \in found  BY <2>2, <2>4
  <2>6. ASSUME NEW q \in found PROVE ~Before(q, <<d, c>>)
    <3>1. q[1] \in rows /\ q[1] \in Nat /\ q[2] \in Nat /\ d \in Nat /\ c \in Nat
      BY <1>0, <2>2, <2>4
    <3>2. d <= q[1]  BY <2>2, <3>1
    <3>3. q[1] = d => q[2] \in columns  OBVIOUS
    <3>4. q[1] = d => c <= q[2]  BY <2>4, <3>3
    <3> QED  BY <3>1, <3>2, <3>4 DEF Before
  <2>7. \E p : Earliest(p)
    <3>1. Earliest(<<d, c>>)
      <4> HIDE DEF found
      <4> QED  BY <2>5, <2>6
    <3> QED  BY <3>1
  <2>8. Earliest(first)
    <3> HIDE DEF found
    <3> QED  BY <2>7
  <2> HIDE DEF first
  <2>9. FirstPlace(first, dirs, candidates, files, kinds)
    <3>1. first \in (DOMAIN dirs) \X (DOMAIN candidates) /\ There(first[1], first[2])
      BY <2>8
    <3>2. ASSUME NEW i \in DOMAIN dirs, NEW j \in DOMAIN candidates, There(i, j)
          PROVE  first[1] < i \/ (first[1] = i /\ first[2] <= j)
      <4>1. <<i, j>> \in found  BY <3>2
      <4>2. ~Before(<<i, j>>, first)
        <5> HIDE DEF found
        <5> QED  BY <2>8, <4>1
      <4>3. ~(i < first[1]) /\ ~(i = first[1] /\ j < first[2])  BY <4>2 DEF Before
      <4>4. i \in Nat /\ j \in Nat /\ first[1] \in Nat /\ first[2] \in Nat  BY <1>0, <3>1
      <4> QED  BY <4>3, <4>4
    <3> QED  BY <3>1, <3>2 DEF FirstPlace, There
  <2> QED  BY <1>1, <1>3, <2>9
<1> QED  BY <1>2, <1>3

LEMMA InstallersListed ==
  ASSUME NEW platform
  PROVE  /\ Len(Installers(platform)) \in Nat
         /\ DOMAIN Installers(platform) = 1 .. Len(Installers(platform))
<1>1. CASE platform = "windows"  BY <1>1 DEF Installers
<1>2. CASE platform = "macos"  BY <1>2 DEF Installers
<1>3. CASE platform \notin {"windows", "macos"}  BY <1>3 DEF Installers
<1> QED  BY <1>1, <1>2, <1>3

LEMMA DirectoriesTyped ==
  ASSUME NEW platform, NEW defined
  PROVE  PlatformDirectories(platform, defined) \in Seq(Directory(platform))
<1> DEFINE entry == Installers(platform)
           n == Len(entry)
           After(dirs, i) == IF entry[i][1] \in defined \cup {"always"}
                             THEN Append(dirs, entry[i][2]) ELSE dirs
           S == Seq(Directory(platform))
           step == [p \in (1 .. n) \X S |-> After(p[2], p[1])]
           Fold(f) == f = [i \in 0 .. n |-> IF i = 0 THEN <<>> ELSE After(f[i - 1], i)]
<1>0. n \in Nat /\ \A i \in 1 .. n : entry[i][2] \in Directory(platform)
  BY InstallersListed DEF Directory
<1>1. \A dirs \in S, i \in 1 .. n : After(dirs, i) \in S
  <2> SUFFICES ASSUME NEW dirs \in Seq(Directory(platform)), NEW i \in 1 .. n
               PROVE  After(dirs, i) \in Seq(Directory(platform))
    OBVIOUS
  <2>1. entry[i][2] \in Directory(platform)  BY <1>0
  <2> HIDE DEF n, entry
  <2> QED  BY <2>1
<1>2. step \in [(1 .. n) \X S -> S]
  <2> HIDE DEF After, S
  <2> QED  BY <1>1
<1>3. PICK f : Folded(f, S, <<>>, n, step)
  <2>1. <<>> \in S  OBVIOUS
  <2> HIDE DEF step, n, S
  <2> QED  BY <1>0, <1>2, <2>1, FoldExists
<1>a. <<>> \in S  OBVIOUS
<1> HIDE DEF n, S
<1>4. f \in [0 .. n -> S] /\ Fold(f)
  <2>1. f \in [0 .. n -> S] /\ \A i \in 1 .. n : f[i - 1] \in S
    <3> HIDE DEF step
    <3> QED  BY <1>0, <1>3 DEF Folded
  <2>2. \A i \in 1 .. n : f[i] = After(f[i - 1], i)
    <3> HIDE DEF After
    <3> QED  BY <1>3, <2>1 DEF Folded
  <2>3. f = [i \in 0 .. n |-> f[i]]  BY <2>1
  <2> HIDE DEF After
  <2>4. f[0] = <<>>
    <3> HIDE DEF step
    <3> QED  BY <1>3 DEF Folded
  <2>5. \A i \in 0 .. n : f[i] = IF i = 0 THEN <<>> ELSE After(f[i - 1], i)
    BY <1>0, <2>2, <2>4
  <2> QED  BY <2>1, <2>3, <2>5
<1>5. PICK g : Fold(g) /\ PlatformDirectories(platform, defined) = g[n]
  <2> DEFINE c == CHOOSE g : Fold(g)
  <2>1. PlatformDirectories(platform, defined) = c[n]  BY DEF PlatformDirectories, n
  <2> HIDE DEF Fold
  <2>2. Fold(c)  BY <1>4
  <2> HIDE DEF c
  <2> QED  BY <2>1, <2>2
<1>6. g[0] = <<>> /\ \A i \in 1 .. n : g[i] = After(g[i - 1], i)
  <2> HIDE DEF After
  <2> QED  BY <1>0, <1>5
<1> DEFINE P == {i \in 0 .. n : g[i] \in S}
<1>7. 0 \in P  BY <1>a, <1>0, <1>6
<1>8. \A i \in 1 .. n : i - 1 \in P => i \in P
  <2> HIDE DEF After
  <2> QED  BY <1>0, <1>1, <1>6
<1>9. \A i \in 0 .. n : i \in P
  <2> HIDE DEF P
  <2> QED  BY <1>0, <1>7, <1>8, IndexInduction
<1>10. g[n] \in S  BY <1>0, <1>9
<1> QED  BY <1>5, <1>10 DEF S

LEMMA PrefixByPlaces ==
  ASSUME NEW D, NEW s \in Seq(D), NEW t \in Seq(D), Len(s) <= Len(t),
         \A i \in 1 .. Len(s) : s[i] = t[i]
  PROVE  IsPrefix(s, t)
<1>1. SubSeq(s, 1, Len(s)) = SubSeq(t, 1, Len(s))  OBVIOUS
<1> QED  BY <1>1 DEF IsPrefix

\* r continues s with directories that were not there before.
Continues(r, s) ==
    /\ Len(s) <= Len(r) /\ \A i \in 1 .. Len(s) : r[i] = s[i]
    /\ \A i, j \in 1 .. Len(r) : i < j /\ Len(s) < j => r[i] # r[j]

LEMMA AppendContinues ==
  ASSUME NEW D, NEW s \in Seq(D), NEW r \in Seq(D), NEW dir \in D, Continues(r, s)
  PROVE  /\ AppendDirectory(r, dir) \in Seq(D) /\ Continues(AppendDirectory(r, dir), s)
         /\ \A d : Contains(AppendDirectory(r, dir), d) <=> Contains(r, d) \/ d = dir
<1>1. CASE Contains(r, dir)  BY <1>1 DEF AppendDirectory
<1>2. CASE ~Contains(r, dir)
  <2> DEFINE t == Append(r, dir)
  <2>1. AppendDirectory(r, dir) = t  BY <1>2 DEF AppendDirectory
  <2>2. /\ t \in Seq(D) /\ Len(t) = Len(r) + 1 /\ t[Len(r) + 1] = dir /\ Len(r) \in Nat
        /\ Len(s) \in Nat /\ \A i \in 1 .. Len(r) : t[i] = r[i]
    OBVIOUS
  <2>3. \A i \in 1 .. Len(r) : r[i] # dir  BY <1>2 DEF Contains
  <2> HIDE DEF t
  <2>4. Len(s) <= Len(t) /\ \A i \in 1 .. Len(s) : t[i] = s[i]  BY <2>2 DEF Continues
  <2>5. ASSUME NEW i \in 1 .. Len(t), NEW j \in 1 .. Len(t), i < j, Len(s) < j
        PROVE  t[i] # t[j]
    <3>1. CASE j = Len(r) + 1
      <4>1. i \in 1 .. Len(r)  BY <2>2, <2>5, <3>1
      <4> QED  BY <2>2, <2>3, <3>1, <4>1
    <3>2. CASE j # Len(r) + 1
      <4>1. i \in 1 .. Len(r) /\ j \in 1 .. Len(r)  BY <2>2, <2>5, <3>2
      <4> QED  BY <2>2, <2>5, <4>1 DEF Continues
    <3> QED  BY <3>1, <3>2
  <2>6. \A d : Contains(t, d) <=> Contains(r, d) \/ d = dir  BY <2>2 DEF Contains
  <2> QED  BY <2>1, <2>2, <2>4, <2>5, <2>6 DEF Continues
<1> QED  BY <1>1, <1>2

\* Adding any number of directories.
LEMMA AppendsContinue ==
  ASSUME NEW D, NEW s \in Seq(D), NEW own \in Seq(D), NEW more \in Seq(D), Continues(own, s)
  PROVE  /\ AppendDirectories(own, more) \in Seq(D) /\ Continues(AppendDirectories(own, more), s)
         /\ \A d : Contains(own, d) => Contains(AppendDirectories(own, more), d)
         /\ \A d : Contains(AppendDirectories(own, more), d)
                    => Contains(own, d) \/ Contains(more, d)
<1> DEFINE n == Len(more)
           After(dirs, i) == AppendDirectory(dirs, more[i])
           S == {r \in Seq(D) : /\ Continues(r, s)
                                /\ \A d : Contains(own, d) => Contains(r, d)
                                /\ \A d : Contains(r, d)
                                           => Contains(own, d) \/ Contains(more, d)}
           step == [p \in (1 .. n) \X S |-> After(p[2], p[1])]
           Fold(f) == f = [i \in 0 .. n |-> IF i = 0 THEN own ELSE After(f[i - 1], i)]
<1>0. n \in Nat /\ \A i \in 1 .. n : more[i] \in D /\ Contains(more, more[i])
  BY DEF Contains
<1>1. \A dirs \in S, i \in 1 .. n : After(dirs, i) \in S
  <2> HIDE DEF n
  <2> QED  BY <1>0, AppendContinues
<1>2. step \in [(1 .. n) \X S -> S]
  <2> HIDE DEF After, S
  <2> QED  BY <1>1
<1>3. own \in S  OBVIOUS
<1>4. PICK f : Folded(f, S, own, n, step)
  <2> HIDE DEF step, n, S
  <2> QED  BY <1>0, <1>2, <1>3, FoldExists
<1> HIDE DEF n, S
<1>5. f \in [0 .. n -> S] /\ f[0] = own /\ \A i \in 1 .. n : f[i - 1] \in S
  <2> HIDE DEF step
  <2> QED  BY <1>0, <1>4 DEF Folded
<1>6. Fold(f)
  <2> HIDE DEF After
  <2>1. \A i \in 1 .. n : f[i] = After(f[i - 1], i)  BY <1>4, <1>5 DEF Folded
  <2>2. f = [i \in 0 .. n |-> f[i]]  BY <1>5
  <2>3. \A i \in 0 .. n : f[i] = IF i = 0 THEN own ELSE After(f[i - 1], i)
    BY <1>0, <1>5, <2>1
  <2> QED  BY <2>2, <2>3
<1>7. PICK g : Fold(g) /\ AppendDirectories(own, more) = g[n]
  <2> DEFINE c == CHOOSE g : Fold(g)
  <2>1. AppendDirectories(own, more) = c[n]  BY DEF AppendDirectories, n
  <2> HIDE DEF Fold
  <2>2. Fold(c)  BY <1>6
  <2> HIDE DEF c
  <2> QED  BY <2>1, <2>2
<1>8. g[0] = own /\ \A i \in 1 .. n : g[i] = After(g[i - 1], i)
  <2> HIDE DEF After
  <2> QED  BY <1>0, <1>7
<1> DEFINE P == {i \in 0 .. n : g[i] \in S}
<1>9. 0 \in P  BY <1>0, <1>3, <1>8
<1>10. \A i \in 1 .. n : i - 1 \in P => i \in P
  <2> HIDE DEF After
  <2> QED  BY <1>0, <1>1, <1>8
<1>11. \A i \in 0 .. n : i \in P
  <2> HIDE DEF P
  <2> QED  BY <1>0, <1>9, <1>10, IndexInduction
<1>12. g[n] \in S  BY <1>0, <1>11
<1> QED  BY <1>7, <1>12 DEF S

LEMMA MacDirectoriesTyped ==
  ASSUME NEW machine
  PROVE  MacDirectories(machine) \in Seq(Directory(machine.platform))
<1>1. CASE machine.platform = "macos"
  <2>1. PlatformDirectories("macos", IF machine.home THEN {"HOME"} ELSE {})
          \in Seq(Directory("macos"))
    BY DirectoriesTyped
  <2> QED  BY <1>1, <2>1 DEF MacDirectories
<1>2. CASE machine.platform # "macos"
  <2>1. MacDirectories(machine) = <<>>  BY <1>2 DEF MacDirectories
  <2> QED  BY <2>1
<1> QED  BY <1>1, <1>2

Extensions(platform, ext) ==
    IF platform = "windows" /\ ext = NoExt THEN <<"exe", "cmd", "bat", NoExt>> ELSE <<ext>>

LEMMA ProgramParts ==
  ASSUME NEW dir, NEW base, NEW ext
  PROVE  /\ Program(dir, base, ext).dir = dir /\ Program(dir, base, ext).base = base
         /\ Program(dir, base, ext).ext = ext
         /\ \A d : In(d, Program(dir, base, ext)) = Program(d, base, ext)
BY DEF Program, In

\* The names a search for a program tries.
LEMMA CandidatesNamed ==
  ASSUME NEW platform, NEW name,
         NEW tried, tried = Candidates(name, platform),
         NEW exts, exts = Extensions(platform, name.ext),
         NEW base, base = BaseOf(name)
  PROVE  /\ \E N : tried \in Seq(N)
         /\ DOMAIN tried = DOMAIN exts
         /\ \A d : \A e \in DOMAIN tried : In(d, tried[e]) = Program(d, base, exts[e])
<1> DEFINE Names == {Program(Here, base, e) : e \in {"exe", "cmd", "bat", NoExt, name.ext}}
<1>1. CASE platform = "windows" /\ name.ext = NoExt
  <2>1. exts = <<"exe", "cmd", "bat", NoExt>>  BY <1>1 DEF Extensions
  <2>2. tried = [i \in 1..4 |-> Program(Here, base, exts[i])]
    BY <1>1, <2>1 DEF Candidates
  <2>3. \A i \in 1 .. 4 : exts[i] \in {"exe", "cmd", "bat", NoExt, name.ext}  BY <2>1
  <2>4. DOMAIN tried = 1 .. 4 /\ DOMAIN exts = 1 .. 4  BY <2>1, <2>2
  <2>5. tried \in Seq(Names)
    <3>1. \A i \in 1 .. 4 : tried[i] \in Names  BY <2>2, <2>3
    <3>2. tried = [i \in 1 .. 4 |-> tried[i]]  BY <2>2
    <3>3. PICK N : N = Names  OBVIOUS
    <3>4. tried \in Seq(N)
      <4>1. \A i \in 1 .. 4 : tried[i] \in N  BY <3>1, <3>3
      <4> QED  BY <3>2, <4>1
    <3> QED  BY <3>3, <3>4
  <2>6. \A d : \A e \in DOMAIN tried : In(d, tried[e]) = Program(d, base, exts[e])
    BY <2>2, <2>4, ProgramParts
  <2> QED  BY <2>4, <2>5, <2>6
<1>2. CASE ~(platform = "windows" /\ name.ext = NoExt)
  <2> DEFINE only == Program(Here, base, name.ext)
  <2>1. exts = <<name.ext>>  BY <1>2 DEF Extensions
  <2>2. tried = <<only>>  BY <1>2 DEF Candidates
  <2>3. only \in Names  OBVIOUS
  <2>4. \A d : In(d, only) = Program(d, base, name.ext)  BY ProgramParts
  <2>5. tried \in Seq(Names) /\ DOMAIN tried = {1} /\ DOMAIN exts = {1}
        /\ tried[1] = only /\ exts[1] = name.ext
    <3>1. PICK N, o : N = Names /\ o = only  OBVIOUS
    <3>2. tried = <<o>> /\ o \in N  BY <2>2, <2>3, <3>1
    <3>3. tried \in Seq(N) /\ DOMAIN tried = {1} /\ tried[1] = o  BY <3>2
    <3> QED  BY <2>1, <3>1, <3>3
  <2> HIDE DEF only, Names
  <2>6. \A d : \A e \in DOMAIN tried : In(d, tried[e]) = Program(d, base, exts[e])
    BY <2>4, <2>5
  <2>7. \E N : tried \in Seq(N)  BY <2>5
  <2> QED  BY <2>5, <2>6, <2>7
<1> QED  BY <1>1, <1>2

\* What a search of names with some extensions finds, in the words of the property.
LEMMA FoundIsFirst ==
  ASSUME NEW D, NEW N, NEW dirs \in Seq(D), NEW tried \in Seq(N), NEW base, NEW exts, NEW files,
         NEW kinds, NEW default, DOMAIN tried = DOMAIN exts,
         \A d : \A e \in DOMAIN tried : In(d, tried[e]) = Program(d, base, exts[e]),
         NEW found, found = FirstFound(dirs, tried, files, kinds, default)
  PROVE  \/ IsFirst(found, dirs, base, exts, kinds, files) /\ found.dir \in D
         \/ NoneIs(dirs, base, exts, kinds, files) /\ found = default
<1>1. \/ /\ found = default
         /\ \A i \in DOMAIN dirs, j \in DOMAIN tried :
              At(files, In(dirs[i], tried[j])) \notin kinds
      \/ \E p : /\ FirstPlace(p, dirs, tried, files, kinds)
                /\ found = In(dirs[p[1]], tried[p[2]])
  BY FindsFirst
<1>2. ASSUME NEW p, FirstPlace(p, dirs, tried, files, kinds), found = In(dirs[p[1]], tried[p[2]])
      PROVE  IsFirst(found, dirs, base, exts, kinds, files) /\ found.dir \in D
  <2>1. p[1] \in DOMAIN dirs /\ p[2] \in DOMAIN exts  BY <1>2 DEF FirstPlace
  <2>2. found = Program(dirs[p[1]], base, exts[p[2]])  BY <1>2, <2>1
  <2>3. At(files, Program(dirs[p[1]], base, exts[p[2]])) \in kinds
    BY <1>2, <2>1 DEF FirstPlace
  <2>4. \A i \in DOMAIN dirs, j \in DOMAIN exts :
          At(files, Program(dirs[i], base, exts[j])) \in kinds
            => p[1] < i \/ (p[1] = i /\ p[2] <= j)
    BY <1>2 DEF FirstPlace
  <2>5. found.dir = dirs[p[1]] /\ dirs[p[1]] \in D  BY <2>1, <2>2, ProgramParts
  <2> QED  BY <2>1, <2>2, <2>3, <2>4, <2>5 DEF IsFirst
<1>3. ASSUME \A i \in DOMAIN dirs, j \in DOMAIN tried :
               At(files, In(dirs[i], tried[j])) \notin kinds
      PROVE  NoneIs(dirs, base, exts, kinds, files)
  BY <1>3 DEF NoneIs
<1> QED  BY <1>1, <1>2, <1>3

\* What a bare name is resolved to.
LEMMA NameIsResolved ==
  ASSUME NEW machine, NEW D, NEW dirs \in Seq(D), dirs = SearchDirectories(machine),
         NEW name, name.dir = Here, NEW base, base = BaseOf(name),
         NEW exts, exts = Extensions(machine.platform, name.ext),
         NEW files, files = machine.files,
         NEW found, found = ResolveCommandPath(name, machine)
  PROVE  \/ IsFirst(found, dirs, base, exts, File, files) /\ found.dir \in D
         \/ NoneIs(dirs, base, exts, File, files) /\ found = Program(Here, base, name.ext)
<1> DEFINE tried == Candidates(name, machine.platform)
           default == Program(Here, base, name.ext)
           kinds == File
<1>1. found = FirstFound(dirs, tried, files, kinds, default)
  BY DEF ResolveCommandPath
<1>2. /\ \E N : tried \in Seq(N)
      /\ DOMAIN tried = DOMAIN exts
      /\ \A d : \A e \in DOMAIN tried : In(d, tried[e]) = Program(d, base, exts[e])
  <2>1. PICK platform : platform = machine.platform  OBVIOUS
  <2>2. PICK t : t = tried  OBVIOUS
  <2>3. t = Candidates(name, platform) /\ exts = Extensions(platform, name.ext)
    BY <2>1, <2>2
  <2>4. /\ \E N : t \in Seq(N)
        /\ DOMAIN t = DOMAIN exts
        /\ \A d : \A e \in DOMAIN t : In(d, t[e]) = Program(d, base, exts[e])
    BY <2>3, CandidatesNamed
  <2> QED  BY <2>2, <2>4
<1> HIDE DEF tried, default, kinds
<1>3. PICK N : tried \in Seq(N)  BY <1>2
<1>4. \/ IsFirst(found, dirs, base, exts, kinds, files) /\ found.dir \in D
      \/ NoneIs(dirs, base, exts, kinds, files) /\ found = default
  BY <1>1, <1>2, <1>3, FoundIsFirst
<1> QED  BY <1>4 DEF default, kinds

\* CliCommand looks a name that is still bare up among what may be executed.
LEMMA CommandIsResolved ==
  ASSUME NEW machine, NEW D, NEW base, NEW ext,
         NEW near \in Seq(D), near = NearDirectories(machine),
         NEW able, able = Executable(machine.platform),
         NEW files, files = machine.files,
         NEW bare, bare = Program(Here, base, ext),
         NEW found, found = CliCommand(bare, machine).program
  PROVE  \/ IsFirst(found, near, base, <<ext>>, able, files) /\ found.dir \in D
         \/ NoneIs(near, base, <<ext>>, able, files) /\ found = bare
<1> DEFINE tried == <<bare>>
           exts == <<ext>>
<1>1. bare.dir = Here /\ \A d : In(d, bare) = Program(d, base, ext)  BY ProgramParts
<1>2. found = FirstFound(near, tried, files, able, bare)
  BY <1>1 DEF CliCommand, NearDirectories
<1>3. /\ tried \in Seq({bare}) /\ DOMAIN tried = {1} /\ DOMAIN exts = {1}
      /\ tried[1] = bare /\ exts[1] = ext
  OBVIOUS
<1> HIDE DEF tried, exts
<1>4. \A d : \A e \in DOMAIN tried : In(d, tried[e]) = Program(d, base, exts[e])
  BY <1>1, <1>3
<1>5. DOMAIN tried = DOMAIN exts /\ tried \in Seq({bare})  BY <1>3
<1>6. \/ IsFirst(found, near, base, exts, able, files) /\ found.dir \in D
      \/ NoneIs(near, base, exts, able, files) /\ found = bare
  <2>1. PICK N : tried \in Seq(N)  BY <1>5
  <2> QED  BY <1>2, <1>4, <1>5, <2>1, FoundIsFirst
<1> QED  BY <1>6 DEF exts

Asked(c) == ResolveCliBinary(BareAntigravity, c.override, c)

Wanted(c) == IF c.override = Here THEN BareAntigravity ELSE c.override

\* A search starts the first program there is.
LEMMA SearchDecides ==
  ASSUME NEW c, SearchCase(c)
  PROVE  LET program == BackgroundCommand(Asked(c), c).program
         IN  /\ program.dir \in Directory(c.platform) \cup {Here}
             /\ StartsTheFirst(program, Wanted(c), c)
<1> DEFINE D == Directory(c.platform)
           wanted == Wanted(c)
           again == ResolveCommandPath(Asked(c), c)
           program == CliCommand(again, c).program
           dirs == SearchDirectories(c)
           near == NearDirectories(c)
           exts == Extensions(c.platform, wanted.ext)
           base == BaseOf(wanted)
           bare == Program(Here, base, wanted.ext)
           able == Executable(c.platform)
           files == c.files
<1>1. Here \notin D /\ STRING \subseteq D
  BY HereIsNoDirectory DEF SearchCase, Directory
<1>2. dirs \in Seq(D) /\ near \in Seq(D)
  <2>1. c.path \in Seq(STRING)  BY DEF SearchCase
  <2>2. PlatformDirectories(c.platform, c.defined) \in Seq(D)  BY DirectoriesTyped
  <2>3. MacDirectories(c) \in Seq(D)  BY MacDirectoriesTyped
  <2> HIDE DEF D
  <2>4. c.path \in Seq(D)  BY <1>1, <2>1, SeqMonotonic
  <2> QED  BY <2>2, <2>3, <2>4 DEF SearchDirectories, NearDirectories
<1>3. BackgroundCommand(Asked(c), c).program = program  BY DEF BackgroundCommand
<1>4. again.dir # Here => program = again  BY DEF CliCommand
<1>5. wanted.dir # Here => wanted.dir \in D
  <2>1. BareAntigravity.dir = Here  BY ProgramParts DEF BareAntigravity
  <2>2. c.override # Here => c.override.dir \in STRING \cup {Here}  BY DEF SearchCase
  <2> HIDE DEF D
  <2> QED  BY <1>1, <2>1, <2>2 DEF Wanted
<1>6. CASE wanted.dir # Here
  <2>1. Asked(c) = wanted
    BY <1>6, ProgramParts DEF Asked, Wanted, ResolveCliBinary, BareAntigravity
  <2>2. again = wanted  BY <1>6, <2>1 DEF ResolveCommandPath
  <2>3. wanted.dir \in D  BY <1>5, <1>6
  <2> HIDE DEF program, again, wanted
  <2>4. StartsTheFirst(program, wanted, c)  BY <1>4, <1>6, <2>2 DEF StartsTheFirst
  <2> QED  BY <1>3, <1>4, <1>6, <2>2, <2>3, <2>4 DEF wanted
<1>7. CASE wanted.dir = Here
  <2>1. \/ IsFirst(again, dirs, base, exts, File, files) /\ again.dir \in D
        \/ NoneIs(dirs, base, exts, File, files) /\ again = bare
    <3>1. CASE c.override # Here
      <4>1. again = ResolveCommandPath(wanted, c)
        BY <3>1 DEF Asked, Wanted, ResolveCliBinary
      <4>2. /\ dirs = SearchDirectories(c) /\ base = BaseOf(wanted) /\ files = c.files
            /\ exts = Extensions(c.platform, wanted.ext) /\ bare = Program(Here, base, wanted.ext)
        OBVIOUS
      <4> HIDE DEF wanted, again, dirs, base, files, exts, bare, D
      <4> QED  BY <1>2, <1>7, <4>1, <4>2, NameIsResolved
    <3>2. CASE c.override = Here
      <4> DEFINE asked == Asked(c)
      <4>1. wanted = BareAntigravity /\ asked = ResolveCommandPath(wanted, c)
        BY <3>2 DEF Asked, Wanted, ResolveCliBinary
      <4>2. \/ IsFirst(asked, dirs, base, exts, File, files) /\ asked.dir \in D
            \/ NoneIs(dirs, base, exts, File, files) /\ asked = bare
        <5>1. /\ dirs = SearchDirectories(c) /\ base = BaseOf(wanted) /\ files = c.files
              /\ exts = Extensions(c.platform, wanted.ext)
              /\ bare = Program(Here, base, wanted.ext)
          OBVIOUS
        <5> HIDE DEF wanted, asked, dirs, base, files, exts, bare, D
        <5> QED  BY <1>2, <1>7, <4>1, <5>1, NameIsResolved
      <4>3. asked.dir # Here => again = asked  BY DEF ResolveCommandPath
      <4> HIDE DEF wanted
      <4>4. base = "agy" /\ wanted.ext = NoExt /\ BaseOf(bare) = "agy" /\ bare.ext = NoExt
            /\ bare.dir = Here
        <5>1. base = "agy" /\ wanted.ext = NoExt
          BY <4>1, ProgramParts DEF BaseOf, BareAntigravity
        <5>2. bare.dir = Here /\ bare.base = "agy" /\ bare.ext = NoExt  BY <5>1, ProgramParts
        <5>3. BareAntigravity.base = "antigravity"  BY ProgramParts DEF BareAntigravity
        <5> HIDE DEF bare
        <5>4. bare # BareAntigravity  BY <5>2, <5>3
        <5> QED  BY <5>1, <5>2, <5>4 DEF BaseOf
      <4> HIDE DEF asked, again, dirs, bare
      <4>5. CASE IsFirst(asked, dirs, base, exts, File, files) /\ asked.dir \in D
        BY <1>1, <4>3, <4>5
      <4>6. CASE NoneIs(dirs, base, exts, File, files) /\ asked = bare
        <5>1. again = ResolveCommandPath(bare, c)  BY <4>6 DEF again, asked
        <5>2. exts = Extensions(c.platform, bare.ext)  BY <4>4
        <5>3. \/ IsFirst(again, dirs, base, exts, File, files) /\ again.dir \in D
              \/ again = Program(Here, base, bare.ext)
          <6>1. dirs = SearchDirectories(c) /\ files = c.files /\ base = BaseOf(bare)
            BY <4>4 DEF dirs
          <6> HIDE DEF D, files, exts, base
          <6> QED  BY <1>2, <4>4, <5>1, <5>2, <6>1, NameIsResolved
        <5>4. Program(Here, base, bare.ext) = bare  BY <4>4 DEF bare
        <5> QED  BY <4>6, <5>3, <5>4
      <4> QED  BY <4>2, <4>5, <4>6
    <3> QED  BY <3>1, <3>2
  <2> DEFINE FirstFile == IsFirst(again, dirs, base, exts, File, files)
             NoFile == NoneIs(dirs, base, exts, File, files)
             Near == IsFirst(program, near, base, <<wanted.ext>>, able, files)
             NoneNear == NoneIs(near, base, <<wanted.ext>>, able, files)
  <2>2. /\ program.dir \in D \cup {Here}
        /\ \/ IsFirst(program, dirs, base, exts, File, files)
           \/ NoFile /\ (Near \/ (NoneNear /\ program = bare))
    <3>1. CASE FirstFile /\ again.dir \in D
      <4> HIDE DEF program, again, dirs, base, exts
      <4> QED  BY <1>1, <1>4, <3>1
    <3>2. CASE NoFile /\ again = bare
      <4>1. bare.dir = Here  BY ProgramParts
      <4>2. \/ Near /\ program.dir \in D
            \/ NoneNear /\ program = bare
        <5>1. program = CliCommand(bare, c).program  BY <3>2
        <5>2. near = NearDirectories(c) /\ able = Executable(c.platform)
              /\ bare = Program(Here, base, wanted.ext)
          OBVIOUS
        <5> DEFINE ext == wanted.ext
        <5>3. bare = Program(Here, base, ext) /\ files = c.files  BY <5>2
        <5>4. \/ IsFirst(program, near, base, <<ext>>, able, files) /\ program.dir \in D
              \/ NoneIs(near, base, <<ext>>, able, files) /\ program = bare
          <6>1. PICK E, q : E = D /\ q = near  OBVIOUS
          <6>2. PICK o, x, a, fs : o = bare /\ x = ext /\ a = able /\ fs = files  OBVIOUS
          <6>3. PICK p, n : p = program /\ n = base  OBVIOUS
          <6> HIDE DEF program, again, wanted, base, near, able, bare, D, ext, files
          <6>4. /\ q \in Seq(E) /\ q = NearDirectories(c)
                /\ a = Executable(c.platform) /\ fs = c.files
                /\ o = Program(Here, n, x) /\ p = CliCommand(o, c).program
            BY <1>2, <5>1, <5>2, <5>3, <6>1, <6>2, <6>3
          <6>5. \/ IsFirst(p, q, n, <<x>>, a, fs) /\ p.dir \in E
                \/ NoneIs(q, n, <<x>>, a, fs) /\ p = o
            BY <6>4, CommandIsResolved
          <6> QED  BY <6>1, <6>2, <6>3, <6>5
        <5> QED  BY <5>4 DEF ext
      <4> HIDE DEF Near, NoneNear, NoFile, program, bare
      <4> QED  BY <3>2, <4>1, <4>2
    <3> HIDE DEF FirstFile, NoFile, again
    <3> QED  BY <2>1, <3>1, <3>2 DEF FirstFile, NoFile
  <2>3. StartsTheFirst(program, wanted, c)
    <3> HIDE DEF program, wanted
    <3> QED  BY <1>7, <2>2 DEF StartsTheFirst, Extensions
  <2> QED  BY <1>3, <2>2, <2>3
<1> QED  BY <1>6, <1>7

\* The PATH of what is started.
LEMMA PathOfCommand ==
  ASSUME NEW machine, NEW D, machine.path \in Seq(D), MacDirectories(machine) \in Seq(D),
         NEW program, CliCommand(program, machine).program.dir \in D \cup {Here}
  PROVE  LET started == CliCommand(program, machine)
         IN  LeadsTo(started.path, started.program, machine)
<1> DEFINE path == machine.path
           fallback == MacDirectories(machine)
           started == CliCommand(program, machine)
           dir == started.program.dir
           own == IF dir = Here THEN path ELSE AppendDirectory(path, dir)
           joined == AppendDirectories(own, fallback)
           Broken == \E i \in DOMAIN joined : joined[i] \in machine.broken
<1>1. started.path = IF Broken THEN path ELSE joined  BY DEF CliCommand
<1> HIDE DEF started
<1>2. Continues(path, path)  BY DEF Continues
<1>3. /\ own \in Seq(D) /\ Continues(own, path) /\ (dir # Here => Contains(own, dir))
      /\ \A d : Contains(own, d) => Contains(path, d) \/ d = dir
  <2>1. CASE dir = Here  BY <1>2, <2>1
  <2>2. CASE dir # Here
    <3>1. dir \in D /\ path \in Seq(D)  BY <2>2 DEF started
    <3>2. own = AppendDirectory(path, dir)  BY <2>2
    <3> HIDE DEF dir, path, own
    <3>3. /\ own \in Seq(D) /\ Continues(own, path)
          /\ \A d : Contains(own, d) <=> Contains(path, d) \/ d = dir
      BY <1>2, <3>1, <3>2, AppendContinues
    <3> QED  BY <3>3
  <2> QED  BY <2>1, <2>2
<1> HIDE DEF own, dir
<1>4. /\ joined \in Seq(D) /\ Continues(joined, path)
      /\ (dir # Here => Contains(joined, dir))
      /\ \A d : Contains(joined, d) => Contains(own, d) \/ Contains(fallback, d)
  BY <1>3, AppendsContinue
<1> HIDE DEF joined, fallback, path
<1>5. CASE Broken
  <2>1. PICK i \in DOMAIN joined : joined[i] \in machine.broken  BY <1>5
  <2>2. Contains(joined, joined[i])  BY <1>4, <2>1 DEF Contains
  <2>3. \/ Contains(path, joined[i]) \/ dir = joined[i] \/ Contains(fallback, joined[i])
    BY <1>3, <1>4, <2>2
  <2>4. started.path = path  BY <1>1, <1>5
  <2> QED  BY <2>1, <2>3, <2>4 DEF LeadsTo, path, fallback, dir, started
<1>6. CASE ~Broken
  <2>1. started.path = joined  BY <1>1, <1>6
  <2>2. DOMAIN joined = 1 .. Len(joined)  BY <1>4
  <2>3. IsPrefix(path, joined)  BY <1>4, PrefixByPlaces DEF Continues, path
  <2>4. \A i, j \in DOMAIN joined : i < j /\ Len(path) < j => joined[i] # joined[j]
    BY <1>4, <2>2 DEF Continues
  <2> HIDE DEF Broken
  <2>5. \A i \in DOMAIN joined : joined[i] \notin machine.broken  BY <1>6 DEF Broken
  <2> QED  BY <1>4, <2>1, <2>3, <2>4, <2>5 DEF LeadsTo, path, dir, started
<1> QED  BY <1>5, <1>6

-----------------------------------------------------------------------------
(* The command line of Windows.                                             *)

C == Character

LEMMA Characters == /\ Slash \in C /\ Quote \in C /\ Space \in C
                    /\ Slash # Quote /\ Slash # Space /\ Quote # Space
BY DEF C, Character, Slash, Quote, Space

Modes == {"between", "argument", "quoted"}
Reading == [arg : Seq(C), pending : Nat, mode : Modes, all : Seq(Seq(C))]

LEMMA SlashesTyped ==
  ASSUME NEW n \in Nat
  PROVE  Slashes(n) \in Seq(C) /\ Len(Slashes(n)) = n
BY Characters DEF Slashes

\* One more backslash.
LEMMA SlashesGrow ==
  ASSUME NEW n \in Nat
  PROVE  Append(Slashes(n), Slash) = Slashes(n + 1)
<1> DEFINE t == Append(Slashes(n), Slash)
<1>1. /\ t \in Seq(C) /\ Slashes(n + 1) \in Seq(C)
      /\ Len(t) = n + 1 /\ Len(Slashes(n + 1)) = n + 1
  BY SlashesTyped, Characters
<1>2. \A i \in 1 .. n + 1 : t[i] = Slashes(n + 1)[i]
  BY SlashesTyped DEF Slashes
<1> HIDE DEF t
<1>3. t = Slashes(n + 1)  BY <1>1, <1>2, SeqEqual
<1> QED  BY <1>3 DEF t

LEMMA NoSlashes ==
  ASSUME NEW a \in Seq(C)
  PROVE  Slashes(0) = <<>> /\ a \o Slashes(0) = a
BY SlashesTyped, ConcatEmptySeq DEF Slashes

LEMMA FlushTyped ==
  ASSUME NEW s \in Reading
  PROVE  Flushed(s) \in Seq(C) /\ Ended(s) \in Seq(Seq(C))
<1>1. Flushed(s) \in Seq(C)  BY SlashesTyped, ConcatProperties DEF Flushed, Reading
<1> QED  BY <1>1 DEF Ended, Reading

LEMMA PartsTyped ==
  ASSUME NEW s \in Reading
  PROVE  /\ s.arg \in Seq(C) /\ s.pending \in Nat /\ s.mode \in Modes /\ s.all \in Seq(Seq(C))
         /\ s.pending % 2 \in {0, 1} /\ s.pending \div 2 \in Nat
         /\ Begun(s.mode) \in Modes
BY DEF Reading, Begun, Modes

LEMMA WholeTyped ==
  ASSUME NEW arg \in Seq(C), NEW pending \in Nat, NEW mode \in Modes, NEW all \in Seq(Seq(C))
  PROVE  LET s == Read(arg, pending, mode, all)
         IN  /\ s \in Reading
             /\ s.arg = arg /\ s.pending = pending /\ s.mode = mode /\ s.all = all
BY DEF Reading, Read

LEMMA BetweenTyped ==
  ASSUME NEW all \in Seq(Seq(C))
  PROVE  Between(all) \in Reading /\ Ended(Between(all)) = all
BY DEF Between, Read, Reading, Ended, Modes

LEMMA ReadTyped ==
  ASSUME NEW s \in Reading, NEW c \in C
  PROVE  Read1(s, c) \in Reading
<1>0. 0 \in Nat  OBVIOUS
<1>1. CASE c = Slash
  <2>1. Read1(s, c) = Read(s.arg, s.pending + 1, Begun(s.mode), s.all)
    BY <1>1, Characters DEF Read1
  <2>2. s.pending + 1 \in Nat  BY PartsTyped
  <2> QED  BY <2>1, <2>2, PartsTyped, WholeTyped
<1>2. CASE c = Quote
  <2> DEFINE a == s.arg \o Slashes(s.pending \div 2)
             mode == IF s.mode = "quoted" THEN "argument" ELSE "quoted"
  <2>1. a \in Seq(C) /\ a \o <<Quote>> \in Seq(C)
    BY PartsTyped, SlashesTyped, Characters, ConcatProperties
  <2>2. CASE s.pending % 2 = 1
    <3> DEFINE b == a \o <<Quote>>
    <3>1. Read1(s, c) = Read(b, 0, s.mode, s.all)
      BY <1>2, <2>2, Characters DEF Read1
    <3>2. b \in Seq(C)  BY <2>1
    <3> HIDE DEF b
    <3> QED  BY <1>0, <3>1, <3>2, PartsTyped, WholeTyped
  <2>3. CASE s.pending % 2 = 0
    <3>1. Read1(s, c) = Read(a, 0, mode, s.all)
      BY <1>2, <2>3, Characters DEF Read1
    <3>2. mode \in Modes  BY DEF Modes
    <3> HIDE DEF a, mode
    <3> QED  BY <1>0, <2>1, <3>1, <3>2, PartsTyped, WholeTyped
  <2> QED  BY <2>2, <2>3, PartsTyped
<1>3. CASE c = Space /\ s.mode # "quoted"
  <2>1. Read1(s, c) = Between(Ended(s))  BY <1>3, Characters DEF Read1
  <2> QED  BY <2>1, FlushTyped, BetweenTyped
<1>4. CASE c \notin {Slash, Quote} /\ ~(c = Space /\ s.mode # "quoted")
  <2> DEFINE b == Append(Flushed(s), c)
  <2>1. Read1(s, c) = Read(b, 0, Begun(s.mode), s.all)  BY <1>4 DEF Read1
  <2>2. b \in Seq(C)  BY FlushTyped
  <2> HIDE DEF b
  <2> QED  BY <1>0, <2>1, <2>2, PartsTyped, WholeTyped
<1> QED  BY <1>1, <1>2, <1>3, <1>4

\* g is the reading of a line, from s on, after each character.
Reads(g, s, line) ==
    /\ g \in [0 .. Len(line) -> Reading] /\ g[0] = s
    /\ \A i \in 1 .. Len(line) : g[i] = Read1(g[i - 1], line[i])

LEMMA ReadFromReads ==
  ASSUME NEW s \in Reading, NEW line \in Seq(C)
  PROVE  \E g : Reads(g, s, line) /\ ReadFrom(s, line) = g[Len(line)]
<1> DEFINE n == Len(line)
           step == [p \in (1 .. n) \X Reading |-> Read1(p[2], line[p[1]])]
           Fold(f) == f = [i \in 0 .. n |-> IF i = 0 THEN s ELSE Read1(f[i - 1], line[i])]
<1>0. n \in Nat /\ \A i \in 1 .. n : line[i] \in C  OBVIOUS
<1>2. step \in [(1 .. n) \X Reading -> Reading]
  <2> HIDE DEF n
  <2> QED  BY <1>0, ReadTyped
<1>4. PICK f : Folded(f, Reading, s, n, step)
  <2> HIDE DEF step, n
  <2> QED  BY <1>0, <1>2, FoldExists
<1> HIDE DEF n
<1>5. f \in [0 .. n -> Reading] /\ f[0] = s /\ \A i \in 1 .. n : f[i - 1] \in Reading
  <2> HIDE DEF step
  <2> QED  BY <1>0, <1>4 DEF Folded
<1>6. Fold(f)
  <2>1. \A i \in 1 .. n : f[i] = Read1(f[i - 1], line[i])  BY <1>4, <1>5 DEF Folded
  <2>2. f = [i \in 0 .. n |-> f[i]]  BY <1>5
  <2>3. \A i \in 0 .. n : f[i] = IF i = 0 THEN s ELSE Read1(f[i - 1], line[i])
    BY <1>0, <1>5, <2>1
  <2> QED  BY <2>2, <2>3
<1>7. PICK g : Fold(g) /\ ReadFrom(s, line) = g[n]
  <2> DEFINE c == CHOOSE g : Fold(g)
  <2>1. ReadFrom(s, line) = c[n]  BY DEF ReadFrom, n
  <2> HIDE DEF Fold
  <2>2. Fold(c)  BY <1>6
  <2> HIDE DEF c
  <2> QED  BY <2>1, <2>2
<1>8. g[0] = s /\ (\A i \in 1 .. n : g[i] = Read1(g[i - 1], line[i])) /\ DOMAIN g = 0 .. n
  BY <1>0, <1>7
<1> DEFINE P == {i \in 0 .. n : g[i] \in Reading}
<1>9. 0 \in P  BY <1>0, <1>8
<1>10. \A i \in 1 .. n : i - 1 \in P => i \in P  BY <1>0, <1>8, ReadTyped
<1>11. \A i \in 0 .. n : i \in P
  <2> HIDE DEF P
  <2> QED  BY <1>0, <1>9, <1>10, IndexInduction
<1>12. g \in [0 .. n -> Reading]
  <2>1. g = [i \in 0 .. n |-> g[i]]  BY <1>7
  <2> QED  BY <1>11, <2>1
<1>13. Reads(g, s, line)  BY <1>8, <1>12 DEF Reads, n
<1> QED  BY <1>7, <1>13 DEF n

\* What has been read of a line depends on the line's beginning only.
LEMMA ReadCompose ==
  ASSUME NEW s \in Reading, NEW t \in Seq(C), NEW u \in Seq(C)
  PROVE  /\ ReadFrom(s, t) \in Reading
         /\ ReadFrom(s, t \o u) = ReadFrom(ReadFrom(s, t), u)
<1> DEFINE m == Len(t)
           n == Len(u)
           line == t \o u
<1>1. /\ m \in Nat /\ n \in Nat /\ line \in Seq(C) /\ Len(line) = m + n
      /\ \A i \in 1 .. m : line[i] = t[i]
      /\ \A i \in 1 .. n : line[m + i] = u[i]
  BY ConcatProperties
<1>2. PICK f : Reads(f, s, t) /\ ReadFrom(s, t) = f[m]  BY ReadFromReads
<1>3. f[m] \in Reading  BY <1>1, <1>2 DEF Reads
<1>4. PICK h : Reads(h, f[m], u) /\ ReadFrom(f[m], u) = h[n]  BY <1>3, ReadFromReads
<1> HIDE DEF line
<1>5. PICK g : Reads(g, s, line) /\ ReadFrom(s, line) = g[Len(line)]  BY <1>1, ReadFromReads
<1> HIDE DEF m, n
<1>6. \A i \in 1 .. m : g[i] = Read1(g[i - 1], t[i])  BY <1>1, <1>5 DEF Reads
<1>7. \A i \in 1 .. n : g[m + i] = Read1(g[m + i - 1], u[i])
  <2> SUFFICES ASSUME NEW i \in 1 .. n PROVE g[m + i] = Read1(g[m + i - 1], u[i])
    OBVIOUS
  <2>1. m + i \in 1 .. Len(line)  BY <1>1
  <2> QED  BY <1>1, <1>5, <2>1 DEF Reads
<1> DEFINE P == {i \in 0 .. m : g[i] = f[i]}
<1>8. \A i \in 0 .. m : i \in P
  <2>1. 0 \in P  BY <1>1, <1>2, <1>5 DEF Reads
  <2>2. \A i \in 1 .. m : i - 1 \in P => i \in P
    <3>1. \A i \in 1 .. m : f[i] = Read1(f[i - 1], t[i])  BY <1>2 DEF Reads, m
    <3> QED  BY <1>1, <1>6, <3>1
  <2> HIDE DEF P
  <2> QED  BY <1>1, <2>1, <2>2, IndexInduction
<1>9. g[m] = f[m]  BY <1>1, <1>8
<1> DEFINE Q == {i \in 0 .. n : g[m + i] = h[i]}
<1>10. \A i \in 0 .. n : i \in Q
  <2>1. 0 \in Q
    <3>1. h[0] = f[m] /\ m + 0 = m  BY <1>1, <1>4 DEF Reads
    <3> QED  BY <1>1, <1>9, <3>1
  <2>2. \A i \in 1 .. n : i - 1 \in Q => i \in Q
    <3>1. \A i \in 1 .. n : h[i] = Read1(h[i - 1], u[i])  BY <1>4 DEF Reads, n
    <3>2. \A i \in 1 .. n : m + i - 1 = m + (i - 1)  BY <1>1
    <3> QED  BY <1>1, <1>7, <3>1, <3>2
  <2> HIDE DEF Q
  <2> QED  BY <1>1, <2>1, <2>2, IndexInduction
<1>11. g[m + n] = h[n]  BY <1>1, <1>10
<1> QED  BY <1>1, <1>2, <1>3, <1>4, <1>5, <1>11 DEF line

LEMMA ReadNothing ==
  ASSUME NEW s \in Reading
  PROVE  ReadFrom(s, <<>>) = s
<1>1. <<>> \in Seq(C) /\ Len(<<>>) = 0  BY EmptySeq
<1>2. PICK g : Reads(g, s, <<>>) /\ ReadFrom(s, <<>>) = g[Len(<<>>)]  BY <1>1, ReadFromReads
<1> QED  BY <1>1, <1>2 DEF Reads

LEMMA ReadLast ==
  ASSUME NEW s \in Reading, NEW t \in Seq(C), NEW c \in C
  PROVE  /\ t \o <<c>> \in Seq(C)
         /\ ReadFrom(s, t \o <<c>>) = Read1(ReadFrom(s, t), c)
<1> DEFINE one == <<c>>
           r == ReadFrom(s, t)
<1>1. one \in Seq(C) /\ Len(one) = 1 /\ one[1] = c  OBVIOUS
<1> HIDE DEF one
<1>2. r \in Reading /\ ReadFrom(s, t \o one) = ReadFrom(r, one)  BY <1>1, ReadCompose
<1> HIDE DEF r
<1>3. PICK g : Reads(g, r, one) /\ ReadFrom(r, one) = g[Len(one)]  BY <1>1, <1>2, ReadFromReads
<1>4. g[1] = Read1(r, c)  BY <1>1, <1>3 DEF Reads
<1>5. t \o one \in Seq(C)  BY <1>1, ConcatProperties
<1> QED  BY <1>1, <1>2, <1>3, <1>4, <1>5 DEF r, one

\* Backslashes inside an argument wait for what follows them.
LEMMA ReadSlashes ==
  ASSUME NEW s \in Reading, NEW n \in Nat, s.mode # "between"
  PROVE  ReadFrom(s, Slashes(n)) = Read(s.arg, s.pending + n, s.mode, s.all)
<1> DEFINE R(i) == Read(s.arg, s.pending + i, s.mode, s.all)
           P == {i \in 0 .. n : ReadFrom(s, Slashes(i)) = R(i)}
<1>0. /\ s.arg \in Seq(C) /\ s.pending \in Nat /\ s.mode \in Modes /\ s.all \in Seq(Seq(C))
      /\ Begun(s.mode) = s.mode
  BY PartsTyped DEF Begun
<1>1. 0 \in P
  <2>1. R(0) = s  BY <1>0 DEF Read, Reading
  <2>2. Slashes(0) = <<>>  BY EmptySeq, NoSlashes
  <2> QED  BY <2>1, <2>2, ReadNothing
<1>2. ASSUME NEW i \in 1 .. n, i - 1 \in P PROVE i \in P
  <2> DEFINE t == Slashes(i - 1)
             r == ReadFrom(s, t)
  <2>1. i - 1 \in Nat /\ t \in Seq(C) /\ t \o <<Slash>> = Slashes(i)
    <3>1. i - 1 \in Nat /\ (i - 1) + 1 = i  OBVIOUS
    <3>2. t \in Seq(C) /\ Append(t, Slash) = Slashes(i)  BY <3>1, SlashesTyped, SlashesGrow
    <3> QED  BY <3>1, <3>2, Characters, AppendIsConcat
  <2>2. r = R(i - 1)  BY <1>2
  <2> HIDE DEF t, r
  <2>3. s.pending + (i - 1) \in Nat  BY <1>0, <2>1
  <2>4. /\ r.arg = s.arg /\ r.pending = s.pending + (i - 1)
        /\ r.mode = s.mode /\ r.all = s.all
    BY <2>2 DEF Read
  <2>5. Read1(r, Slash) = R(i)
    <3>1. Read1(r, Slash) = Read(r.arg, r.pending + 1, Begun(r.mode), r.all)
      BY Characters DEF Read1
    <3>2. r.pending + 1 = s.pending + i  BY <1>0, <2>4
    <3> QED  BY <1>0, <2>4, <3>1, <3>2
  <2>6. ReadFrom(s, t \o <<Slash>>) = Read1(r, Slash)
    BY <2>1, Characters, ReadLast DEF r
  <2>7. ReadFrom(s, Slashes(i)) = R(i)  BY <2>1, <2>5, <2>6
  <2> HIDE DEF R
  <2> QED  BY <2>7
<1>3. \A i \in 0 .. n : i \in P
  <2> HIDE DEF P
  <2> QED  BY <1>1, <1>2, IndexInduction
<1> QED  BY <1>3

(* What an argument becomes on the line is read as that argument again.     *)

Beginning(s, i) == [j \in 1 .. i |-> s[j]]

LEMMA BeginningGrows ==
  ASSUME NEW S, NEW s \in Seq(S)
  PROVE  /\ Beginning(s, 0) = <<>> /\ Beginning(s, Len(s)) = s
         /\ \A i \in 0 .. Len(s) : Beginning(s, i) \in Seq(S)
         /\ \A i \in 1 .. Len(s) : s[i] \in S /\ Beginning(s, i) = Beginning(s, i - 1) \o <<s[i]>>
<1>1. \A i \in 0 .. Len(s) : Beginning(s, i) \in Seq(S) /\ Len(Beginning(s, i)) = i  BY DEF Beginning
<1>2. Beginning(s, 0) = <<>>  BY <1>1, EmptySeq
<1>3. Beginning(s, Len(s)) = s
  <2>1. \A i \in 1 .. Len(s) : Beginning(s, Len(s))[i] = s[i]  BY DEF Beginning
  <2>2. Len(s) \in 0 .. Len(s)  OBVIOUS
  <2> QED  BY <1>1, <2>1, <2>2, SeqEqual
<1>4. ASSUME NEW i \in 1 .. Len(s) PROVE s[i] \in S /\ Beginning(s, i) = Beginning(s, i - 1) \o <<s[i]>>
  <2> DEFINE a == Beginning(s, i)
             b == Beginning(s, i - 1)
             d == b \o <<s[i]>>
  <2>1. i \in 0 .. Len(s) /\ i - 1 \in 0 .. Len(s) /\ s[i] \in S  OBVIOUS
  <2>2. a \in Seq(S) /\ Len(a) = i /\ b \in Seq(S) /\ Len(b) = i - 1  BY <1>1, <2>1
  <2>3. d \in Seq(S) /\ Len(d) = i
    <3> HIDE DEF b
    <3> QED  BY <2>1, <2>2
  <2>4. \A j \in 1 .. i : d[j] = a[j]
    <3>1. \A j \in 1 .. i - 1 : b[j] = s[j]  BY DEF Beginning
    <3>2. \A j \in 1 .. i : a[j] = s[j]  BY DEF Beginning
    <3> HIDE DEF a, b
    <3> QED  BY <2>1, <2>2, <3>1, <3>2
  <2> HIDE DEF a, d
  <2>5. a = d  BY <2>2, <2>3, <2>4, SeqEqual
  <2> QED  BY <2>1, <2>5 DEF a, d
<1> QED  BY <1>1, <1>2, <1>3, <1>4

\* q is what has been written of a quoted argument of which t is done: a reader
\* has seen t, the backslashes at its end not written yet included.
Quoting == [out : Seq(C), pending : Nat]

Written(q, t, all) ==
    /\ q \in Quoting
    /\ \E a \in Seq(C) : /\ ReadFrom(Between(all), q.out) = Read(a, 0, "quoted", all)
                         /\ t = a \o Slashes(q.pending)

LEMMA PartTyped ==
  ASSUME NEW out \in Seq(C), NEW n \in Nat, NEW c \in C
  PROVE  out \o Slashes(n) \o <<c>> \in Seq(C)
<1> DEFINE end == Slashes(n)
<1>1. end \in Seq(C)  BY SlashesTyped
<1> HIDE DEF end
<1>2. out \o end \o <<c>> \in Seq(C)  BY <1>1
<1> QED  BY <1>2 DEF end

\* What the reader of a command line is when it has read out.
HasRead(out, state, all) == ReadFrom(Between(all), out) = state

\* A quoted part is read on: n backslashes, then c.
LEMMA ReadQuoted ==
  ASSUME NEW all \in Seq(Seq(C)), NEW out \in Seq(C), NEW a \in Seq(C), NEW n \in Nat, NEW c \in C,
         HasRead(out, Read(a, 0, "quoted", all), all)
  PROVE  HasRead(out \o Slashes(n) \o <<c>>, Read1(Read(a, n, "quoted", all), c), all)
<1> DEFINE s == Between(all)
           t == out \o Slashes(n)
           r == Read(a, 0, "quoted", all)
<1>1. s \in Reading  BY BetweenTyped
<1>2. Slashes(n) \in Seq(C) /\ t \in Seq(C)  BY SlashesTyped, ConcatProperties
<1>3. /\ r \in Reading /\ r.arg = a /\ r.pending = 0 /\ r.mode = "quoted" /\ r.all = all
  BY WholeTyped DEF Modes
<1> HIDE DEF s, r
<1>4. ReadFrom(s, t) = ReadFrom(r, Slashes(n))
  BY <1>1, <1>2, ReadCompose DEF s, r, HasRead
<1>5. ReadFrom(r, Slashes(n)) = Read(a, n, "quoted", all)
  <2>1. ReadFrom(r, Slashes(n)) = Read(r.arg, r.pending + n, r.mode, r.all)  BY <1>3, ReadSlashes
  <2>2. r.pending + n = n  BY <1>3
  <2> QED  BY <1>3, <2>1, <2>2
<1> HIDE DEF t
<1>6. ReadFrom(s, t \o <<c>>) = Read1(ReadFrom(s, t), c)
  BY <1>1, <1>2, ReadLast
<1> QED  BY <1>4, <1>5, <1>6 DEF s, t, HasRead

LEMMA Doubled ==
  ASSUME NEW n \in Nat
  PROVE  /\ 2 * n \in Nat /\ (2 * n) % 2 = 0 /\ (2 * n) \div 2 = n
         /\ 2 * n + 1 \in Nat /\ (2 * n + 1) % 2 = 1 /\ (2 * n + 1) \div 2 = n
OBVIOUS

LEMMA WriteOne ==
  ASSUME NEW all \in Seq(Seq(C)), NEW q, NEW t \in Seq(C), NEW c \in C, Written(q, t, all)
  PROVE  Written(Quote1(q, c), t \o <<c>>, all)
<1>1. q.out \in Seq(C) /\ q.pending \in Nat  BY DEF Written, Quoting
<1>2. PICK a \in Seq(C) : /\ ReadFrom(Between(all), q.out) = Read(a, 0, "quoted", all)
                          /\ t = a \o Slashes(q.pending)
  BY DEF Written
<1> DEFINE u == t \o <<c>>
           w == Quote1(q, c)
<1>3. u \in Seq(C) /\ u \o Slashes(0) = u
  <2>1. u \in Seq(C)  OBVIOUS
  <2> HIDE DEF u
  <2> QED  BY <2>1, NoSlashes
<1>4. CASE c = Slash
  <2>1. w = [out |-> q.out, pending |-> q.pending + 1]  BY <1>4, Characters DEF Quote1
  <2>2. u = a \o Slashes(q.pending + 1)
    <3> DEFINE b == Slashes(q.pending)
    <3>1. b \in Seq(C) /\ <<Slash>> \in Seq(C)  BY <1>1, SlashesTyped, Characters
    <3>2. b \o <<Slash>> = Slashes(q.pending + 1)
      BY <1>1, <3>1, SlashesGrow, AppendIsConcat, Characters
    <3>3. t = a \o b  BY <1>2
    <3> HIDE DEF b
    <3>4. (a \o b) \o <<Slash>> = a \o (b \o <<Slash>>)  BY <3>1, ConcatAssociative, SMTT(30)
    <3> QED  BY <1>4, <3>2, <3>3, <3>4
  <2> HIDE DEF w, u
  <2>3. w \in Quoting /\ w.out = q.out /\ w.pending = q.pending + 1
    BY <1>1, <2>1 DEF Quoting
  <2>4. Written(w, u, all)  BY <1>2, <2>2, <2>3 DEF Written
  <2> QED  BY <2>4 DEF w, u
<1>5. CASE c = Quote
  <2> DEFINE n == 2 * q.pending + 1
             o == q.out \o Slashes(n) \o <<c>>
  <2>1. w = [out |-> o, pending |-> 0]  BY <1>5, Characters DEF Quote1
  <2>2. n \in Nat /\ n % 2 = 1 /\ n \div 2 = q.pending  BY <1>1, Doubled
  <2> HIDE DEF n
  <2>9. o \in Seq(C)  BY <1>1, <2>2, PartTyped
  <2>3. ReadFrom(Between(all), o) = Read1(Read(a, n, "quoted", all), c)
    <3>1. HasRead(q.out, Read(a, 0, "quoted", all), all)  BY <1>2 DEF HasRead
    <3>2. HasRead(o, Read1(Read(a, n, "quoted", all), c), all)  BY <1>1, <2>2, <3>1, ReadQuoted
    <3> QED  BY <3>2 DEF HasRead
  <2> HIDE DEF o
  <2>4. Read1(Read(a, n, "quoted", all), c) = Read(u, 0, "quoted", all)
    <3> DEFINE r == Read(a, n, "quoted", all)
    <3>1. r.arg = a /\ r.pending = n /\ r.mode = "quoted" /\ r.all = all  BY DEF Read
    <3> HIDE DEF r
    <3>2. Read1(r, c) = Read(a \o Slashes(q.pending) \o <<Quote>>, 0, "quoted", all)
      BY <1>5, <2>2, <3>1, Characters DEF Read1
    <3> QED  BY <1>2, <1>5, <3>2 DEF r
  <2> HIDE DEF w, u
  <2>5. w \in Quoting /\ w.out = o /\ w.pending = 0  BY <2>1, <2>9 DEF Quoting
  <2>6. Written(w, u, all)  BY <1>3, <2>3, <2>4, <2>5, <2>9 DEF Written
  <2> QED  BY <2>6 DEF w, u
<1>6. CASE c \notin {Slash, Quote}
  <2> DEFINE n == q.pending
             o == q.out \o Slashes(n) \o <<c>>
  <2>1. w = [out |-> o, pending |-> 0]  BY <1>6 DEF Quote1
  <2>9. o \in Seq(C)  BY <1>1, PartTyped
  <2>3. ReadFrom(Between(all), o) = Read1(Read(a, n, "quoted", all), c)
    <3>1. HasRead(q.out, Read(a, 0, "quoted", all), all)  BY <1>2 DEF HasRead
    <3>2. HasRead(o, Read1(Read(a, n, "quoted", all), c), all)  BY <1>1, <3>1, ReadQuoted
    <3> QED  BY <3>2 DEF HasRead
  <2> HIDE DEF o
  <2>4. Read1(Read(a, n, "quoted", all), c) = Read(u, 0, "quoted", all)
    <3> DEFINE r == Read(a, n, "quoted", all)
    <3>1. r.arg = a /\ r.pending = n /\ r.mode = "quoted" /\ r.all = all  BY DEF Read
    <3> HIDE DEF r
    <3>2. Read1(r, c) = Read(Append(Flushed(r), c), 0, Begun(r.mode), r.all)
      BY <1>6, <3>1, Characters DEF Read1
    <3>3. Flushed(r) = t  BY <1>2, <3>1 DEF Flushed
    <3>4. Append(t, c) = u  BY AppendIsConcat
    <3> QED  BY <3>1, <3>2, <3>3, <3>4 DEF r, Begun
  <2> HIDE DEF w, u
  <2>5. w \in Quoting /\ w.out = o /\ w.pending = 0  BY <2>1, <2>9 DEF Quoting
  <2>6. Written(w, u, all)  BY <1>3, <2>3, <2>4, <2>5, <2>9 DEF Written
  <2> QED  BY <2>6 DEF w, u
<1> QED  BY <1>4, <1>5, <1>6

\* g is what has been written at each place, from the quote on.
Writes(g, arg) ==
    /\ g[0] = [out |-> <<Quote>>, pending |-> 0]
    /\ \A i \in 1 .. Len(arg) : g[i] = Quote1(g[i - 1], arg[i])

LEMMA QuotedSteps ==
  ASSUME NEW arg \in Seq(C), NeedsQuotes(arg)
  PROVE  \E g : /\ Writes(g, arg)
               /\ Quoted(arg) = g[Len(arg)].out \o Slashes(2 * g[Len(arg)].pending) \o <<Quote>>
<1> DEFINE n == Len(arg)
           base == [out |-> <<Quote>>, pending |-> 0]
           step == [p \in (1 .. n) \X Quoting |-> Quote1(p[2], arg[p[1]])]
           Fold(f) == f = [i \in 0 .. n |-> IF i = 0 THEN base ELSE Quote1(f[i - 1], arg[i])]
<1>0. n \in Nat /\ \A i \in 1 .. n : arg[i] \in C  OBVIOUS
<1>1. base \in Quoting  BY Characters DEF Quoting
<1>3. step \in [(1 .. n) \X Quoting -> Quoting]
  <2> SUFFICES ASSUME NEW q \in Quoting, NEW c \in C PROVE Quote1(q, c) \in Quoting
    <3> HIDE DEF n
    <3> QED  BY <1>0
  <2>1. q.out \in Seq(C) /\ q.pending \in Nat  BY DEF Quoting
  <2>2. 2 * q.pending + 1 \in Nat  BY <2>1
  <2>3. /\ q.out \o Slashes(q.pending) \o <<c>> \in Seq(C)
        /\ q.out \o Slashes(2 * q.pending + 1) \o <<c>> \in Seq(C)
    <3>1. Slashes(q.pending) \in Seq(C) /\ Slashes(2 * q.pending + 1) \in Seq(C)
      BY <2>1, <2>2, SlashesTyped
    <3> QED  BY <2>1, <3>1, ConcatProperties
  <2> QED  BY <2>1, <2>3 DEF Quote1, Quoting
<1>4. PICK f : Folded(f, Quoting, base, n, step)
  <2> HIDE DEF base, step, n
  <2> QED  BY <1>0, <1>1, <1>3, FoldExists
<1> HIDE DEF base
<1> HIDE DEF n
<1>5. f \in [0 .. n -> Quoting] /\ f[0] = base /\ \A i \in 1 .. n : f[i - 1] \in Quoting
  <2> HIDE DEF step, Fold
  <2>1. f \in [0 .. n -> Quoting] /\ f[0] = base  BY <1>4 DEF Folded
  <2> QED  BY <1>0, <2>1
<1>6. Fold(f)
  <2>1. \A i \in 1 .. n : f[i] = Quote1(f[i - 1], arg[i])  BY <1>4, <1>5 DEF Folded
  <2>2. f = [i \in 0 .. n |-> f[i]]  BY <1>5
  <2>3. \A i \in 0 .. n : f[i] = IF i = 0 THEN base ELSE Quote1(f[i - 1], arg[i])
    BY <1>0, <1>5, <2>1
  <2> QED  BY <2>2, <2>3
<1>7. PICK g : /\ Fold(g)
               /\ Quoted(arg) = g[n].out \o Slashes(2 * g[n].pending) \o <<Quote>>
  <2> DEFINE c == CHOOSE g : Fold(g)
  <2>1. Quoted(arg) = c[n].out \o Slashes(2 * c[n].pending) \o <<Quote>>
    BY DEF Quoted, n, base
  <2> HIDE DEF Fold
  <2>2. Fold(c)  BY <1>6
  <2> HIDE DEF c
  <2> QED  BY <2>1, <2>2
<1>8. Writes(g, arg)  BY <1>0, <1>7 DEF Writes, base, n
<1> QED  BY <1>7, <1>8 DEF n

LEMMA QuotedIsRead ==
  ASSUME NEW all \in Seq(Seq(C)), NEW arg \in Seq(C), NeedsQuotes(arg)
  PROVE  /\ Quoted(arg) \in Seq(C)
         /\ ReadFrom(Between(all), Quoted(arg)) = Read(arg, 0, "argument", all)
<1> DEFINE n == Len(arg)
           base == [out |-> <<Quote>>, pending |-> 0]
<1>0. n \in Nat /\ \A i \in 1 .. n : arg[i] \in C  OBVIOUS
<1>1. base \in Quoting /\ base.out = <<Quote>> /\ base.pending = 0
  BY Characters DEF Quoting
<1>2. Written(base, Beginning(arg, 0), all)
  <2> DEFINE s == Between(all)
  <2>1. s \in Reading  BY BetweenTyped
  <2>2. ReadFrom(s, <<>> \o <<Quote>>) = Read1(ReadFrom(s, <<>>), Quote)
    BY <2>1, EmptySeq, Characters, ReadLast
  <2>3. <<>> \o <<Quote>> = <<Quote>>  BY Characters, ConcatEmptySeq
  <2>4. ReadFrom(s, <<Quote>>) = Read1(s, Quote)  BY <2>1, <2>2, <2>3, ReadNothing
  <2>5. Read1(s, Quote) = Read(<<>>, 0, "quoted", all)
    <3>1. s.arg = <<>> /\ s.pending = 0 /\ s.mode = "between" /\ s.all = all
      BY DEF Between, Read
    <3> HIDE DEF s
    <3>2. s.pending % 2 = 0 /\ s.pending \div 2 = 0  BY <3>1
    <3>3. Read1(s, Quote) = Read(s.arg \o Slashes(0), 0, "quoted", all)
      BY <3>1, <3>2, Characters DEF Read1
    <3>4. <<>> \o Slashes(0) = <<>>  BY EmptySeq, NoSlashes
    <3> QED  BY <3>1, <3>3, <3>4
  <2> HIDE DEF base, s
  <2>6. <<>> \in Seq(C) /\ <<>> \o Slashes(0) = <<>>  BY EmptySeq, NoSlashes
  <2>7. Beginning(arg, 0) = <<>>  BY BeginningGrows
  <2> QED  BY <1>1, <2>4, <2>5, <2>6, <2>7 DEF Written, s
<1>7. PICK g : /\ Writes(g, arg)
               /\ Quoted(arg) = g[n].out \o Slashes(2 * g[n].pending) \o <<Quote>>
  BY QuotedSteps
<1> HIDE DEF base
<1> HIDE DEF n
<1>8. g[0] = base /\ \A i \in 1 .. n : g[i] = Quote1(g[i - 1], arg[i])
  BY <1>7 DEF Writes, base, n
<1> DEFINE P == {i \in 0 .. n : Written(g[i], Beginning(arg, i), all)}
<1>9. 0 \in P  BY <1>0, <1>2, <1>8
<1>10. \A i \in 1 .. n : i - 1 \in P => i \in P
  <2> SUFFICES ASSUME NEW i \in 1 .. n, i - 1 \in P PROVE Written(g[i], Beginning(arg, i), all)
    OBVIOUS
  <2>1. Written(g[i - 1], Beginning(arg, i - 1), all)  OBVIOUS
  <2>2. Beginning(arg, i - 1) \in Seq(C) /\ Beginning(arg, i) = Beginning(arg, i - 1) \o <<arg[i]>>
    BY <1>0, BeginningGrows DEF n
  <2>3. g[i] = Quote1(g[i - 1], arg[i]) /\ arg[i] \in C  BY <1>0, <1>8
  <2> QED  BY <2>1, <2>2, <2>3, WriteOne
<1>11. \A i \in 0 .. n : i \in P
  <2> HIDE DEF P
  <2> QED  BY <1>0, <1>9, <1>10, IndexInduction
<1> DEFINE q == g[n]
<1>12. Written(q, arg, all)
  <2>1. Beginning(arg, n) = arg  BY BeginningGrows DEF n
  <2>2. n \in P  BY <1>0, <1>11
  <2> QED  BY <2>1, <2>2
<1> HIDE DEF q
<1>13. q.out \in Seq(C) /\ q.pending \in Nat  BY <1>12 DEF Written, Quoting
<1>14. PICK a \in Seq(C) : /\ ReadFrom(Between(all), q.out) = Read(a, 0, "quoted", all)
                           /\ arg = a \o Slashes(q.pending)
  BY <1>12 DEF Written
<1> DEFINE m == 2 * q.pending
           t == q.out
           o == t \o Slashes(m) \o <<Quote>>
<1>15. m \in Nat /\ m % 2 = 0 /\ m \div 2 = q.pending  BY <1>13, Doubled
<1> HIDE DEF m, t
<1>19. o \in Seq(C)
  <2>1. t \in Seq(C)  BY <1>13 DEF t
  <2>2. Quote \in C  BY Characters
  <2> QED  BY <1>15, <2>1, <2>2, PartTyped
<1>16. ReadFrom(Between(all), o) = Read1(Read(a, m, "quoted", all), Quote)
  <2>1. t \in Seq(C) /\ HasRead(t, Read(a, 0, "quoted", all), all)
    BY <1>13, <1>14 DEF t, HasRead
  <2>2. Quote \in C  BY Characters
  <2>3. HasRead(o, Read1(Read(a, m, "quoted", all), Quote), all)
    BY <1>15, <2>1, <2>2, ReadQuoted
  <2> QED  BY <2>3 DEF HasRead
<1>17. Read1(Read(a, m, "quoted", all), Quote) = Read(arg, 0, "argument", all)
  <2> DEFINE r == Read(a, m, "quoted", all)
  <2>1. r.arg = a /\ r.pending = m /\ r.mode = "quoted" /\ r.all = all  BY DEF Read
  <2> HIDE DEF r
  <2>2. Read1(r, Quote) = Read(a \o Slashes(q.pending), 0, "argument", all)
    BY <1>15, <2>1, Characters DEF Read1
  <2> QED  BY <1>14, <2>2 DEF r
<1>18. Quoted(arg) = o  BY <1>7 DEF q, m, t
<1> HIDE DEF o
<1> QED  BY <1>16, <1>17, <1>18, <1>19

\* So is one that needs no quotes.
LEMMA PlainIsRead ==
  ASSUME NEW all \in Seq(Seq(C)), NEW arg \in Seq(C), ~NeedsQuotes(arg)
  PROVE  LET s == ReadFrom(Between(all), Quoted(arg))
         IN  /\ Quoted(arg) \in Seq(C) /\ s \in Reading
             /\ s.mode = "argument" /\ s.all = all /\ Flushed(s) = arg
<1> DEFINE n == Len(arg)
           s0 == Between(all)
<1>0. /\ n \in Nat /\ n # 0
      /\ \A i \in 1 .. n : arg[i] \in C /\ arg[i] \notin {Space, Quote}
  <2>1. arg # <<>> /\ \A i \in DOMAIN arg : arg[i] \notin {Space, Quote}  BY DEF NeedsQuotes
  <2>2. n \in Nat \ {0}  BY <2>1, EmptySeq
  <2> QED  BY <2>1, <2>2
<1>1. Quoted(arg) = arg  BY DEF Quoted
<1>2. /\ s0 \in Reading /\ s0.all = all /\ s0.mode = "between" /\ s0.arg = <<>> /\ s0.pending = 0
      /\ Flushed(s0) = <<>>
  <2>1. s0 \in Reading  BY BetweenTyped
  <2>2. s0.all = all /\ s0.mode = "between" /\ s0.arg = <<>> /\ s0.pending = 0
    BY DEF Between, Read
  <2> HIDE DEF s0
  <2> QED  BY <2>1, <2>2, EmptySeq, NoSlashes DEF Flushed
<1> HIDE DEF s0
<1>3. PICK g : Reads(g, s0, arg) /\ ReadFrom(s0, arg) = g[n]  BY <1>2, ReadFromReads
<1>4. /\ g[0] = s0 /\ \A i \in 0 .. n : g[i] \in Reading
      /\ \A i \in 1 .. n : g[i] = Read1(g[i - 1], arg[i])
  BY <1>3 DEF Reads
<1> HIDE DEF n
<1> DEFINE P == {i \in 0 .. n : /\ g[i].all = all /\ Flushed(g[i]) = Beginning(arg, i)
                                /\ g[i].mode = IF i = 0 THEN "between" ELSE "argument"}
<1>5. 0 \in P
  <2>1. Beginning(arg, 0) = <<>>  BY BeginningGrows
  <2> QED  BY <1>0, <1>2, <1>4, <2>1
<1>6. ASSUME NEW i \in 1 .. n, i - 1 \in P PROVE i \in P
  <2> DEFINE s == g[i - 1]
             r == g[i]
             c == arg[i]
             t == Beginning(arg, i - 1)
  <2>1. /\ s \in Reading /\ s.all = all /\ Flushed(s) = t /\ r = Read1(s, c)
        /\ s.mode \in {"between", "argument"} /\ c \in C /\ c \notin {Space, Quote}
    <3>1. i - 1 \in 0 .. n  BY <1>0
    <3> QED  BY <1>0, <1>4, <1>6, <3>1
  <2>2. t \in Seq(C) /\ Beginning(arg, i) = t \o <<c>>
    <3>1. i - 1 \in 0 .. Len(arg) /\ i \in 1 .. Len(arg)  BY <1>0 DEF n
    <3> QED  BY <3>1, BeginningGrows
  <2>3. i \in 0 .. n /\ i # 0  OBVIOUS
  <2> HIDE DEF s, r, c, t
  <2>4. s.arg \in Seq(C) /\ s.pending \in Nat /\ Begun(s.mode) = "argument"
    BY <2>1, PartsTyped DEF Begun
  <2>5. r.all = all /\ r.mode = "argument" /\ Flushed(r) = t \o <<c>>
    <3>1. CASE c = Slash
      <4>1. r = Read(s.arg, s.pending + 1, "argument", all)
        BY <2>1, <2>4, <3>1, Characters DEF Read1
      <4>2. r.arg = s.arg /\ r.pending = s.pending + 1 /\ r.all = all /\ r.mode = "argument"
        BY <4>1 DEF Read
      <4> DEFINE a == s.arg
                 b == Slashes(s.pending)
      <4>3. b \in Seq(C) /\ <<Slash>> \in Seq(C)  BY <2>4, SlashesTyped, Characters
      <4>4. b \o <<Slash>> = Slashes(s.pending + 1)
        BY <2>4, <4>3, SlashesGrow, AppendIsConcat, Characters
      <4>5. t = a \o b /\ a \in Seq(C)  BY <2>1, <2>4 DEF Flushed
      <4> HIDE DEF a, b
      <4>6. (a \o b) \o <<Slash>> = a \o (b \o <<Slash>>)
        BY <4>3, <4>5, ConcatAssociative
      <4>7. Flushed(r) = a \o Slashes(s.pending + 1)  BY <4>2 DEF Flushed, a
      <4> QED  BY <3>1, <4>2, <4>4, <4>5, <4>6, <4>7
    <3>2. CASE c # Slash
      <4> DEFINE b == Append(Flushed(s), c)
      <4>1. r = Read(b, 0, "argument", all)
        BY <2>1, <2>4, <3>2, Characters DEF Read1
      <4>2. b = t \o <<c>> /\ b \in Seq(C)  BY <2>1, <2>2, AppendIsConcat
      <4> HIDE DEF b
      <4>3. r.arg = b /\ r.pending = 0 /\ r.all = all /\ r.mode = "argument"
        BY <4>1 DEF Read
      <4>4. Flushed(r) = b  BY <4>2, <4>3, NoSlashes DEF Flushed
      <4> QED  BY <4>2, <4>3, <4>4
    <3> QED  BY <3>1, <3>2
  <2> QED  BY <2>2, <2>3, <2>5 DEF r
<1>7. \A i \in 0 .. n : i \in P
  <2> HIDE DEF P
  <2> QED  BY <1>0, <1>5, <1>6, IndexInduction
<1>8. g[n] \in Reading /\ g[n].all = all /\ Flushed(g[n]) = Beginning(arg, n) /\ g[n].mode = "argument"
  BY <1>0, <1>4, <1>7
<1>9. Beginning(arg, n) = arg  BY BeginningGrows DEF n
<1> QED  BY <1>1, <1>3, <1>8, <1>9 DEF s0

LEMMA ArgumentIsRead ==
  ASSUME NEW all \in Seq(Seq(C)), NEW arg \in Seq(C)
  PROVE  LET s == ReadFrom(Between(all), Quoted(arg))
         IN  /\ Quoted(arg) \in Seq(C) /\ s \in Reading
             /\ s.mode # "quoted" /\ Ended(s) = Append(all, arg)
<1>1. CASE NeedsQuotes(arg)
  <2> DEFINE s == Read(arg, 0, "argument", all)
  <2>1. Quoted(arg) \in Seq(C) /\ ReadFrom(Between(all), Quoted(arg)) = s
    BY <1>1, QuotedIsRead
  <2>2. s \in Reading /\ s.arg = arg /\ s.pending = 0 /\ s.mode = "argument" /\ s.all = all
    BY WholeTyped DEF Modes
  <2> HIDE DEF s
  <2>3. Flushed(s) = arg  BY <2>2, NoSlashes DEF Flushed
  <2> QED  BY <2>1, <2>2, <2>3 DEF Ended
<1>2. CASE ~NeedsQuotes(arg)
  <2> DEFINE s == ReadFrom(Between(all), Quoted(arg))
  <2>1. /\ Quoted(arg) \in Seq(C) /\ s \in Reading
        /\ s.mode = "argument" /\ s.all = all /\ Flushed(s) = arg
    BY <1>2, PlainIsRead
  <2> HIDE DEF s
  <2>2. s.mode # "quoted" /\ Ended(s) = Append(all, arg)  BY <2>1 DEF Ended
  <2> QED  BY <2>1, <2>2 DEF s
<1> QED  BY <1>1, <1>2

\* A program of Windows is given the arguments the code meant.
LEMMA LineIsRead ==
  ASSUME NEW args \in Seq(Seq(C))
  PROVE  ProgramArguments(CommandLine(args)) = args
<1> DEFINE n == Len(args)
           Next1(line, i) == line \o (IF i = 1 THEN <<>> ELSE <<Space>>) \o Quoted(args[i])
           step == [p \in (1 .. n) \X Seq(C) |-> Next1(p[2], p[1])]
           Fold(f) == f = [i \in 0 .. n |-> IF i = 0 THEN <<>>
              ELSE f[i - 1] \o (IF i = 1 THEN <<>> ELSE <<Space>>) \o Quoted(args[i])]
           s0 == Between(<<>>)
<1>0. /\ n \in Nat /\ <<>> \in Seq(C) /\ <<Space>> \in Seq(C) /\ <<>> \in Seq(Seq(C))
      /\ \A i \in 1 .. n : args[i] \in Seq(C)
  BY EmptySeq, Characters
<1>1. \A i \in 1 .. n : Quoted(args[i]) \in Seq(C)  BY <1>0, ArgumentIsRead
<1>2. \A i \in 1 .. n, line \in Seq(C) : Next1(line, i) \in Seq(C)
  <2> SUFFICES ASSUME NEW i \in 1 .. n, NEW line \in Seq(C) PROVE Next1(line, i) \in Seq(C)
    OBVIOUS
  <2> DEFINE sep == IF i = 1 THEN <<>> ELSE <<Space>>
  <2>1. sep \in Seq(C)  BY <1>0
  <2> HIDE DEF sep
  <2>2. line \o sep \in Seq(C)  BY <2>1, ConcatProperties
  <2>3. (line \o sep) \o Quoted(args[i]) \in Seq(C)  BY <1>1, <2>2, ConcatProperties
  <2> QED  BY <2>3 DEF sep
<1>3. step \in [(1 .. n) \X Seq(C) -> Seq(C)]
  <2> HIDE DEF n, Next1
  <2> QED  BY <1>2
<1>4. PICK f : Folded(f, Seq(C), <<>>, n, step)
  <2> HIDE DEF step, n
  <2> QED  BY <1>0, <1>3, FoldExists
<1> HIDE DEF n
<1>5. f \in [0 .. n -> Seq(C)] /\ f[0] = <<>> /\ \A i \in 1 .. n : f[i - 1] \in Seq(C)
  <2> HIDE DEF step
  <2> QED  BY <1>0, <1>4 DEF Folded
<1>6. Fold(f)
  <2>1. \A i \in 1 .. n : f[i] = Next1(f[i - 1], i)
    <3> HIDE DEF Next1
    <3> QED  BY <1>4, <1>5 DEF Folded
  <2>2. f = [i \in 0 .. n |-> f[i]]  BY <1>5
  <2>3. \A i \in 0 .. n : f[i] = IF i = 0 THEN <<>> ELSE Next1(f[i - 1], i)
    <3> HIDE DEF Next1
    <3> QED  BY <1>0, <1>5, <2>1
  <2> QED  BY <2>2, <2>3
<1>7. PICK l : Fold(l) /\ CommandLine(args) = l[n]
  <2> DEFINE c == CHOOSE l : Fold(l)
  <2>1. CommandLine(args) = c[n]  BY DEF CommandLine, n
  <2> HIDE DEF Fold
  <2>2. Fold(c)  BY <1>6
  <2> HIDE DEF c
  <2> QED  BY <2>1, <2>2
<1>8. l[0] = <<>> /\ \A i \in 1 .. n : l[i] = Next1(l[i - 1], i)
  <2>1. l = [i \in 0 .. n |-> IF i = 0 THEN <<>> ELSE Next1(l[i - 1], i)]  BY <1>7
  <2> HIDE DEF Next1
  <2> QED  BY <1>0, <2>1
<1> HIDE DEF s0
<1>9. s0 \in Reading /\ Ended(s0) = <<>>  BY <1>0, BetweenTyped DEF s0
\* After each argument: those so far are there, and outside quotes.
<1> DEFINE X(i) == ReadFrom(s0, l[i])
           P == {i \in 0 .. n : /\ l[i] \in Seq(C) /\ X(i) \in Reading
                                /\ X(i).mode # "quoted" /\ Ended(X(i)) = Beginning(args, i)
                                /\ i = 0 => X(i) = s0}
<1>10. 0 \in P
  <2>1. X(0) = s0 /\ Beginning(args, 0) = <<>>  BY <1>8, <1>9, ReadNothing, BeginningGrows
  <2>2. s0.mode # "quoted"  BY DEF s0, Between, Read
  <2>3. l[0] \in Seq(C)  BY <1>0, <1>8
  <2>4. X(0) \in Reading /\ X(0).mode # "quoted" /\ Ended(X(0)) = Beginning(args, 0)
    <3> HIDE DEF X
    <3> QED  BY <1>9, <2>1, <2>2
  <2>5. 0 \in 0 .. n  BY <1>0
  <2> HIDE DEF X
  <2> QED  BY <2>1, <2>3, <2>4, <2>5
<1>11. ASSUME NEW i \in 1 .. n, i - 1 \in P PROVE i \in P
  <2> DEFINE before == l[i - 1]
             all == Beginning(args, i - 1)
             r == ReadFrom(s0, before)
             quoted == Quoted(args[i])
             sep == IF i = 1 THEN <<>> ELSE <<Space>>
             to == before \o sep
  <2>1. /\ before \in Seq(C) /\ r \in Reading
        /\ r.mode # "quoted" /\ Ended(r) = all
        /\ i = 1 => r = s0
    BY <1>11
  <2>2. all \in Seq(Seq(C)) /\ Beginning(args, i) = all \o <<args[i]>> /\ args[i] \in Seq(C)
    <3>1. i - 1 \in 0 .. Len(args) /\ i \in 1 .. Len(args)  BY <1>0 DEF n
    <3> QED  BY <3>1, BeginningGrows
  <2>3. l[i] = to \o quoted  BY <1>8
  <2>4. quoted \in Seq(C) /\ sep \in Seq(C)  BY <1>0, <1>1
  <2>5. Beginning(args, i) = Append(all, args[i])
    <3> DEFINE arg == args[i]
    <3>1. arg \in Seq(C)  BY <2>2
    <3> HIDE DEF all, arg
    <3>2. Append(all, arg) = all \o <<arg>>  BY <2>2, <3>1, AppendIsConcat
    <3> QED  BY <2>2, <3>2 DEF arg
  <2> HIDE DEF before, all, r, quoted, sep
  <2>6. to \in Seq(C)  BY <2>1, <2>4, ConcatProperties
  <2>7. ReadFrom(s0, to) = Between(all)
    <3>1. CASE i = 1
      <4>1. to = before /\ r = s0  BY <2>1, <3>1, ConcatEmptySeq DEF sep
      <4>2. all = <<>>  BY <1>9, <2>1, <4>1
      <4> QED  BY <4>1, <4>2 DEF r, s0
    <3>2. CASE i # 1
      <4>1. to = before \o <<Space>>  BY <3>2 DEF sep
      <4>2. ReadFrom(s0, to) = Read1(r, Space)
        BY <1>9, <2>1, <4>1, Characters, ReadLast DEF r
      <4>3. Read1(r, Space) = Between(Ended(r))  BY <2>1, Characters DEF Read1
      <4> QED  BY <2>1, <4>2, <4>3
    <3> QED  BY <3>1, <3>2
  <2> HIDE DEF to
  <2>8. /\ to \o quoted \in Seq(C)
        /\ ReadFrom(s0, to \o quoted) = ReadFrom(Between(all), quoted)
    BY <1>9, <2>4, <2>6, <2>7, ReadCompose, ConcatProperties
  <2> DEFINE x == ReadFrom(Between(all), quoted)
  <2>9. x \in Reading /\ x.mode # "quoted" /\ Ended(x) = Append(all, args[i])
    BY <2>2, ArgumentIsRead DEF quoted
  <2> HIDE DEF x
  <2>10. X(i) = x /\ l[i] \in Seq(C) /\ i \in 0 .. n /\ i # 0
    BY <1>0, <2>3, <2>8 DEF x
  <2> HIDE DEF X
  <2> QED  BY <2>5, <2>9, <2>10
<1>12. \A i \in 0 .. n : i \in P
  <2> HIDE DEF P
  <2> QED  BY <1>0, <1>10, <1>11, IndexInduction
<1>13. Ended(X(n)) = Beginning(args, n) /\ Beginning(args, n) = args
  <2>1. n \in P  BY <1>0, <1>12
  <2>2. Beginning(args, n) = args  BY BeginningGrows DEF n
  <2> QED  BY <2>1, <2>2
<1> QED  BY <1>7, <1>13 DEF ProgramArguments, s0

\* A name without quotes is written as it is, between quotes.
LEMMA NameIsQuoted ==
  ASSUME NEW name \in Seq(C), FileName(name), NeedsQuotes(name)
  PROVE  Quoted(name) = (<<Quote>> \o name) \o <<Quote>>
<1> DEFINE n == Len(name)
           begun(i) == <<Quote>> \o Beginning(name, i)
           Done(q, i) == /\ q \in Quoting /\ q.out \o Slashes(q.pending) = begun(i)
                         /\ (i = 0 \/ name[i] # Slash) => q.pending = 0
<1>0. n \in Nat /\ \A i \in 1 .. n : name[i] \in C /\ name[i] # Quote
  BY DEF FileName
<1>1. PICK g : /\ Writes(g, name)
               /\ Quoted(name) = g[n].out \o Slashes(2 * g[n].pending) \o <<Quote>>
  BY QuotedSteps
<1>2. Done(g[0], 0)
  <2>1. g[0].out = <<Quote>> /\ g[0].pending = 0 /\ g[0] \in Quoting
    BY <1>1, Characters DEF Writes, Quoting
  <2>2. Beginning(name, 0) = <<>>  BY BeginningGrows
  <2>3. <<Quote>> \in Seq(C)  BY Characters
  <2>4. <<Quote>> \o Slashes(0) = <<Quote>>  BY <2>3, NoSlashes
  <2>5. <<Quote>> \o <<>> = <<Quote>>  BY <2>3, ConcatEmptySeq
  <2> QED  BY <2>1, <2>2, <2>4, <2>5
<1>c. \A o, b, e \in Seq(C) : (o \o b) \o e = o \o (b \o e)  BY ConcatAssociative, SMTT(30)
<1>3. ASSUME NEW i \in 1 .. n, Done(g[i - 1], i - 1) PROVE Done(g[i], i)
  <2> DEFINE q == g[i - 1]
             c == name[i]
             w == g[i]
             p == q.pending
             old == begun(i - 1)
  <2>1. w = Quote1(q, c) /\ c \in C /\ c # Quote  BY <1>0, <1>1 DEF Writes
  <2>2. q.out \in Seq(C) /\ p \in Nat /\ q.out \o Slashes(p) = old  BY <1>3 DEF Quoting
  <2>3. begun(i) = old \o <<c>> /\ old \in Seq(C)
    <3>1. /\ Beginning(name, i - 1) \in Seq(C)
          /\ Beginning(name, i) = Beginning(name, i - 1) \o <<c>>
      <4>1. i - 1 \in 0 .. Len(name) /\ i \in 1 .. Len(name)  BY <1>0
      <4> QED  BY <4>1, BeginningGrows
    <3>2. <<Quote>> \in Seq(C) /\ <<c>> \in Seq(C)  BY <2>1, Characters
    <3> QED  BY <3>1, <3>2, ConcatAssociative, ConcatProperties
  <2> HIDE DEF q, c, w, p, old, begun
  <2>4. CASE c = Slash
    <3>1. w = [out |-> q.out, pending |-> p + 1]  BY <2>1, <2>4, Characters DEF Quote1, p
    <3>2. Slashes(p + 1) = Slashes(p) \o <<Slash>>
      BY <2>2, SlashesTyped, SlashesGrow, AppendIsConcat, Characters
    <3>3. Slashes(p) \in Seq(C) /\ <<Slash>> \in Seq(C)  BY <2>2, SlashesTyped, Characters
    <3>4. q.out \o Slashes(p + 1) = (q.out \o Slashes(p)) \o <<Slash>>
      <4>1. PICK o, b, e : o = q.out /\ b = Slashes(p) /\ e = <<Slash>>  OBVIOUS
      <4>2. o \in Seq(C) /\ b \in Seq(C) /\ e \in Seq(C)  BY <2>2, <3>3, <4>1
      <4>3. (o \o b) \o e = o \o (b \o e)  BY <1>c, <4>2
      <4> QED  BY <3>2, <4>1, <4>3
    <3>5. w.out = q.out /\ w.pending = p + 1 /\ w \in Quoting  BY <2>2, <3>1 DEF Quoting
    <3>6. i # 0 /\ ~(i = 0 \/ name[i] # Slash)  BY <1>0, <2>4 DEF c
    <3> QED  BY <2>2, <2>3, <2>4, <3>4, <3>5, <3>6 DEF w
  <2>5. CASE c # Slash
    <3>1. w = [out |-> q.out \o Slashes(p) \o <<c>>, pending |-> 0]
      BY <2>1, <2>5 DEF Quote1, p
    <3>2. w = [out |-> begun(i), pending |-> 0]  BY <2>2, <2>3, <3>1
    <3>3. begun(i) \in Seq(C)
      <4>1. <<c>> \in Seq(C)  BY <2>1
      <4> QED  BY <2>3, <4>1, ConcatProperties
    <3>4. begun(i) \o Slashes(0) = begun(i)  BY <3>3, NoSlashes
    <3> QED  BY <3>2, <3>3, <3>4 DEF Quoting, w
  <2> QED  BY <2>4, <2>5
<1> DEFINE P == {i \in 0 .. n : Done(g[i], i)}
<1>4. \A i \in 0 .. n : i \in P
  <2>1. 0 \in P
    <3> HIDE DEF Done
    <3> QED  BY <1>0, <1>2
  <2>2. \A i \in 1 .. n : i - 1 \in P => i \in P
    <3> HIDE DEF Done
    <3> QED  BY <1>0, <1>3
  <2> HIDE DEF P
  <2> QED  BY <1>0, <2>1, <2>2, IndexInduction
<1>5. Done(g[n], n)
  <2>1. n \in P
    <3> HIDE DEF P
    <3> QED  BY <1>0, <1>4
  <2> HIDE DEF Done
  <2> QED  BY <2>1
<1>6. g[n].pending = 0 /\ g[n].out \in Seq(C) /\ g[n].out \o Slashes(0) = <<Quote>> \o name
  <2>1. n = 0 \/ name[n] # Slash  BY <1>0 DEF FileName
  <2>2. Beginning(name, n) = name  BY BeginningGrows
  <2> HIDE DEF n
  <2> QED  BY <1>5, <2>1, <2>2 DEF Quoting
<1>7. 2 * g[n].pending = 0  BY <1>6
<1> QED  BY <1>1, <1>6, <1>7

LEMMA FirstOfIs ==
  ASSUME NEW I \in SUBSET Nat, NEW k \in I, \A i \in I : k <= i
  PROVE  FirstOf(I) = k
<1>1. FirstOf(I) \in I /\ FirstOf(I) <= k  BY FirstOfPlaces
<1>2. k <= FirstOf(I) /\ FirstOf(I) \in Nat /\ k \in Nat  BY <1>1
<1> QED  BY <1>1, <1>2

\* Windows finds the command interpreter if its name is quoted, and only then.
LEMMA InterpreterIsNamed ==
  ASSUME NEW name \in Seq(C), FileName(name), NEW more \in Seq(C), Len(more) >= 2,
         more[1] # Space, more[2] = Space
  PROVE  NamedProgram(Quoted(name) \o more) = name <=> NeedsQuotes(name)
<1> DEFINE n == Len(name)
           quoted == Quoted(name)
           line == quoted \o more
<1>0. n \in Nat /\ \A i \in 1 .. n : name[i] \in C /\ name[i] # Quote
  BY DEF FileName
<1>1. CASE NeedsQuotes(name)
  <2>1. quoted = (<<Quote>> \o name) \o <<Quote>>  BY <1>1, NameIsQuoted
  <2>2. <<Quote>> \in Seq(C)  BY Characters
  <2>3. /\ quoted \in Seq(C) /\ Len(quoted) = n + 2 /\ quoted[1] = Quote
        /\ quoted[n + 2] = Quote /\ \A i \in 1 .. n : quoted[i + 1] = name[i]
    <3> HIDE DEF quoted
    <3> QED  BY <1>0, <2>1, <2>2
  <2> HIDE DEF quoted
  <2>4. /\ line \in Seq(C) /\ Len(line) = n + 2 + Len(more) /\ line[1] = Quote
        /\ line[n + 2] = Quote /\ \A i \in 1 .. n : line[i + 1] = name[i]
    <3> DEFINE m == Len(more)
    <3>1. m \in Nat  OBVIOUS
    <3>0. PICK q : q = quoted  OBVIOUS
    <3>2. /\ line \in Seq(C) /\ Len(line) = Len(quoted) + m
          /\ \A i \in 1 .. Len(quoted) + m :
               line[i] = IF i <= Len(quoted) THEN quoted[i] ELSE more[i - Len(quoted)]
      <4>1. q \in Seq(C)  BY <2>3, <3>0
      <4>2. /\ q \o more \in Seq(C) /\ Len(q \o more) = Len(q) + m
            /\ \A i \in 1 .. Len(q) + m :
                 (q \o more)[i] = IF i <= Len(q) THEN q[i] ELSE more[i - Len(q)]
        BY <4>1, ConcatProperties
      <4> QED  BY <3>0, <4>2
    <3> HIDE DEF line, n, m
    <3>3. \A i \in 1 .. n + 2 : i \in 1 .. (n + 2) + m /\ i <= n + 2  BY <1>0, <3>1
    <3>4. \A i \in 1 .. n + 2 : line[i] = quoted[i]  BY <2>3, <3>2, <3>3
    <3>5. ASSUME NEW i \in 1 .. n PROVE line[i + 1] = name[i]
      <4>1. i + 1 \in 1 .. n + 2  BY <1>0
      <4> QED  BY <2>3, <3>4, <4>1 DEF n
    <3>6. line[1] = Quote /\ line[n + 2] = Quote
      <4>1. 1 \in 1 .. n + 2 /\ n + 2 \in 1 .. n + 2  BY <1>0
      <4> QED  BY <2>3, <3>4, <4>1 DEF n
    <3> QED  BY <2>3, <3>2, <3>5, <3>6 DEF n, m
  <2> HIDE DEF line
  <2> DEFINE I == {i \in DOMAIN line : i > 1 /\ line[i] = Quote}
  <2>5. FirstOf(I) = n + 2
    <3>1. I \in SUBSET Nat  BY <2>4
    <3>2. n + 2 \in I  BY <1>0, <2>4
    <3>3. ASSUME NEW i \in I, i < n + 2 PROVE FALSE
      <4>1. i - 1 \in 1 .. n  BY <1>0, <2>4, <3>3
      <4>2. line[(i - 1) + 1] = name[i - 1]  BY <2>4, <4>1
      <4>3. i \in Nat /\ (i - 1) + 1 = i  BY <3>1
      <4> QED  BY <1>0, <4>1, <4>2, <4>3
    <3>4. \A i \in I : n + 2 <= i  BY <1>0, <3>1, <3>3
    <3> HIDE DEF I
    <3> QED  BY <3>1, <3>2, <3>4, FirstOfIs
  <2>6. NamedProgram(line) = SubSeq(line, 2, n + 1)
    <3>1. NamedProgram(line) = SubSeq(line, 2, FirstOf(I) - 1)  BY <2>4 DEF NamedProgram
    <3>2. (n + 2) - 1 = n + 1  BY <1>0
    <3> HIDE DEF I
    <3> QED  BY <2>5, <3>1, <3>2
  <2>7. SubSeq(line, 2, n + 1) = name
    <3> DEFINE t == SubSeq(line, 2, n + 1)
    <3>1. t \in Seq(C) /\ Len(t) = n /\ \A i \in 1 .. n : t[i] = name[i]
      BY <1>0, <2>4
    <3> HIDE DEF t
    <3>2. t = name  BY <3>1, SeqEqual
    <3> QED  BY <3>2 DEF t
  <2> QED  BY <1>1, <2>6, <2>7 DEF line, quoted
<1>2. CASE ~NeedsQuotes(name)
  <2>1. quoted = name  BY <1>2 DEF Quoted
  <2>2. n >= 1 /\ \A i \in 1 .. n : name[i] # Space /\ name[i] # Quote
    BY <1>0, <1>2 DEF NeedsQuotes
  <2>3. /\ line \in Seq(C) /\ Len(line) = n + Len(more)
        /\ line[n + 1] # Space /\ line[n + 2] = Space
        /\ \A i \in 1 .. n : line[i] = name[i]
    <3>1. /\ line \in Seq(C) /\ Len(line) = n + Len(more)
          /\ \A i \in 1 .. n + Len(more) :
               line[i] = IF i <= n THEN name[i] ELSE more[i - n]
      BY <2>1, ConcatProperties
    <3>2. n + 1 \in 1 .. n + Len(more) /\ n + 2 \in 1 .. n + Len(more)
          /\ (n + 1) - n = 1 /\ (n + 2) - n = 2 /\ ~(n + 1 <= n) /\ ~(n + 2 <= n)
      BY <1>0
    <3>3. \A i \in 1 .. n : i \in 1 .. n + Len(more) /\ i <= n  BY <1>0
    <3> HIDE DEF line, n
    <3> QED  BY <3>1, <3>2, <3>3
  <2> HIDE DEF line, quoted
  <2> DEFINE I == {i \in DOMAIN line : line[i] = Space}
  <2>4. FirstOf(I) = n + 2
    <3>1. I \in SUBSET Nat  BY <2>3
    <3>2. n + 2 \in I  BY <1>0, <2>3
    <3>3. ASSUME NEW i \in I, i < n + 2 PROVE FALSE
      <4>1. i \in 1 .. n \/ i = n + 1  BY <1>0, <2>3, <3>3
      <4> QED  BY <2>2, <2>3, <4>1
    <3>4. \A i \in I : n + 2 <= i  BY <1>0, <3>1, <3>3
    <3> HIDE DEF I
    <3> QED  BY <3>1, <3>2, <3>4, FirstOfIs
  <2>5. NamedProgram(line) = SubSeq(line, 1, n + 1)
    <3>1. line[1] # Quote
      <4>1. 1 \in 1 .. n  BY <1>0, <2>2
      <4> QED  BY <2>2, <2>3, <4>1
    <3>2. NamedProgram(line) = SubSeq(line, 1, FirstOf(I) - 1)  BY <3>1 DEF NamedProgram
    <3>3. (n + 2) - 1 = n + 1  BY <1>0
    <3> HIDE DEF I
    <3> QED  BY <2>4, <3>2, <3>3
  <2>6. Len(SubSeq(line, 1, n + 1)) = n + 1  BY <1>0, <2>3
  <2>7. SubSeq(line, 1, n + 1) # name  BY <1>0, <2>6
  <2> QED  BY <1>2, <2>5, <2>7 DEF line, quoted
<1> QED  BY <1>1, <1>2

\* The first program of a search is started, with a PATH that leads to it, and gets
\* the arguments meant; Windows finds the interpreter of a batch file if its name is
\* quoted (mod.rs:109-180, cli.rs:25-50, claude.rs:275-306, 433-459).
THEOREM ProgramSafe == Spec => []RightProgramIsStarted
<1> DEFINE again == ResolveCommandPath(Asked(case), case)
           started == BackgroundCommand(Asked(case), case)
           line == WindowsCommandLine(case.ext, case.comspec, case.args)
<1>1. ASSUME SearchCase(case)
      PROVE  /\ StartsTheFirst(started.program, Wanted(case), case)
             /\ LeadsTo(started.path, started.program, case)
  <2> DEFINE D == Directory(case.platform)
  <2>1. /\ started.program.dir \in D \cup {Here}
        /\ StartsTheFirst(started.program, Wanted(case), case)
    BY <1>1, SearchDecides
  <2>2. case.path \in Seq(D)
    <3>1. case.path \in Seq(STRING) /\ STRING \subseteq D  BY <1>1 DEF SearchCase, Directory
    <3> HIDE DEF D
    <3> QED  BY <3>1, SeqMonotonic
  <2>3. MacDirectories(case) \in Seq(D)  BY MacDirectoriesTyped
  <2>4. started = CliCommand(again, case)  BY DEF BackgroundCommand
  <2> HIDE DEF D, again, started
  <2>5. LeadsTo(started.path, started.program, case)  BY <2>1, <2>2, <2>3, <2>4, PathOfCommand
  <2> QED  BY <2>1, <2>5
<1>2. ASSUME LineCase(case)
      PROVE  /\ ProgramArguments(line.text) = case.args
             /\ IsBatch(case.ext) =>
                  (NamedProgram(line.before) = case.comspec <=> NeedsQuotes(case.comspec))
  <2>1. case.args \in Seq(Seq(C)) /\ case.comspec \in Seq(C) /\ FileName(case.comspec)
    BY <1>2 DEF LineCase, C
  <2>2. ProgramArguments(CommandLine(case.args)) = case.args  BY <2>1, LineIsRead
  <2> DEFINE more == <<"/d", Space, "/s", Space, "/c", Space>>
  <2>3. more \in Seq(C) /\ Len(more) >= 2 /\ more[1] # Space /\ more[2] = Space
    <3>1. "/d" \in C /\ "/s" \in C /\ "/c" \in C /\ Space \in C
      BY Characters DEF C, Character
    <3>2. "/d" # Space  BY DEF Space
    <3> QED  BY <3>1, <3>2
  <2> HIDE DEF more
  <2>4. NamedProgram(Quoted(case.comspec) \o more) = case.comspec <=> NeedsQuotes(case.comspec)
    BY <2>1, <2>3, InterpreterIsNamed
  <2> QED  BY <2>2, <2>4 DEF WindowsCommandLine, more
<1>3. case \in Cases => RightProgramIsStarted
  <2> SUFFICES ASSUME case \in Cases PROVE RightProgramIsStarted  OBVIOUS
  <2>1. case.kind = "search" => SearchCase(case)  BY CasesOK
  <2>2. case.kind = "line" => LineCase(case)  BY CasesOK
  <2> QED  BY <1>1, <1>2, <2>1, <2>2 DEF RightProgramIsStarted, Asked, Wanted
<1> QED  BY <1>3, CaseStays, PTL

-----------------------------------------------------------------------------
(* What the answers of the CLIs become.                                     *)

\* One place more.
LEMMA PicksOneMore ==
  ASSUME NEW D, NEW s \in Seq(D), NEW r \in Seq(D), NEW i \in 1 .. Len(s),
         NEW I \in SUBSET (1 .. i - 1), \E at : Picks(r, at, s, I)
  PROVE  \E at : Picks(Append(r, s[i]), at, s, I \cup {i})
<1> DEFINE n == Len(r)
           t == Append(r, s[i])
<1>1. PICK at : Picks(r, at, s, I)  OBVIOUS
<1>2. n \in Nat /\ Len(t) = n + 1 /\ t[n + 1] = s[i] /\ \A k \in 1 .. n : t[k] = r[k]
  OBVIOUS
<1>3. at \in [1 .. n -> I]  BY <1>1 DEF Picks
<1> HIDE DEF t, n
<1> DEFINE to == [k \in 1 .. n + 1 |-> IF k = n + 1 THEN i ELSE at[k]]
<1>4. to[n + 1] = i /\ \A k \in 1 .. n : to[k] = at[k]  BY <1>2
<1>5. to \in [1 .. n + 1 -> I \cup {i}]  BY <1>2, <1>3
<1> HIDE DEF to
<1>6. \A j \in I \cup {i} : \E k \in 1 .. n + 1 : to[k] = j
  <2>1. \E k \in 1 .. n + 1 : to[k] = i  BY <1>2, <1>4
  <2>2. ASSUME NEW j \in I PROVE \E k \in 1 .. n + 1 : to[k] = j
    <3>1. PICK k \in 1 .. n : at[k] = j  BY <1>1 DEF Picks, n
    <3>2. k \in 1 .. n + 1 /\ to[k] = j  BY <1>2, <1>4, <3>1
    <3> QED  BY <3>2
  <2> QED  BY <2>1, <2>2
<1>7. \A k, l \in 1 .. n + 1 : k < l => to[k] < to[l]
  <2> SUFFICES ASSUME NEW k \in 1 .. n + 1, NEW l \in 1 .. n + 1, k < l PROVE to[k] < to[l]
    OBVIOUS
  <2>a. k \in 1 .. n  BY <1>2
  <2>b. at[k] \in I  BY <1>3, <2>a
  <2>1. k \in 1 .. n /\ to[k] = at[k] /\ at[k] \in 1 .. i - 1  BY <1>4, <2>a, <2>b
  <2>2. CASE l = n + 1  BY <1>4, <2>1, <2>2
  <2>3. CASE l \in 1 .. n
    <3>1. at[k] < at[l]  BY <1>1, <2>1, <2>3 DEF Picks, n
    <3> QED  BY <1>4, <2>1, <2>3, <3>1
  <2> QED  BY <1>2, <2>2, <2>3
<1>8. \A k \in 1 .. n + 1 : t[k] = s[to[k]]
  <2>1. \A k \in 1 .. n : r[k] = s[at[k]]  BY <1>1 DEF Picks, n
  <2> QED  BY <1>2, <1>4, <2>1
<1>9. Picks(t, to, s, I \cup {i})  BY <1>2, <1>5, <1>6, <1>7, <1>8 DEF Picks
<1> QED  BY <1>9 DEF t

\* Sifting a sequence picks what is at the places.
LEMMA SiftPicks ==
  ASSUME NEW D, NEW s \in Seq(D), NEW I \in SUBSET (DOMAIN s)
  PROVE  Sift(s, I) \in Seq(D) /\ \E at : Picks(Sift(s, I), at, s, I)
<1> DEFINE n == Len(s)
           S == Seq(D)
           After(r, i) == IF i \in I THEN Append(r, s[i]) ELSE r
           step == [p \in (1 .. n) \X S |-> After(p[2], p[1])]
           Fold(f) == f = [i \in 0 .. n |-> IF i = 0 THEN <<>>
                                            ELSE IF i \in I THEN Append(f[i - 1], s[i])
                                            ELSE f[i - 1]]
<1>0. n \in Nat /\ \A i \in 1 .. n : s[i] \in D  OBVIOUS
<1>1. \A r \in S, i \in 1 .. n : After(r, i) \in S
  <2> SUFFICES ASSUME NEW r \in Seq(D), NEW i \in 1 .. n PROVE After(r, i) \in Seq(D)
    OBVIOUS
  <2> QED  BY <1>0
<1>2. step \in [(1 .. n) \X S -> S]
  <2> HIDE DEF After, S
  <2> QED  BY <1>1
<1>3. <<>> \in S  OBVIOUS
<1>4. PICK f : Folded(f, S, <<>>, n, step)
  <2> HIDE DEF step, n, S
  <2> QED  BY <1>0, <1>2, <1>3, FoldExists
<1>x. DOMAIN s = 1 .. n  OBVIOUS
<1> HIDE DEF n, S
<1>5. f \in [0 .. n -> S] /\ f[0] = <<>> /\ \A i \in 1 .. n : f[i - 1] \in S
  <2> HIDE DEF step
  <2> QED  BY <1>0, <1>4 DEF Folded
<1>6. Fold(f)
  <2>1. \A i \in 1 .. n : f[i] = After(f[i - 1], i)
    <3> HIDE DEF After
    <3> QED  BY <1>4, <1>5 DEF Folded
  <2>2. f = [i \in 0 .. n |-> f[i]]  BY <1>5
  <2>3. \A i \in 0 .. n : f[i] = IF i = 0 THEN <<>> ELSE After(f[i - 1], i)
    <3> HIDE DEF After
    <3> QED  BY <1>0, <1>5, <2>1
  <2> QED  BY <2>2, <2>3
<1>7. PICK g : Fold(g) /\ Sift(s, I) = g[n]
  <2> DEFINE c == CHOOSE g : Fold(g)
  <2>1. Sift(s, I) = c[n]  BY DEF Sift, n
  <2> HIDE DEF Fold
  <2>2. Fold(c)  BY <1>6
  <2> HIDE DEF c
  <2> QED  BY <2>1, <2>2
<1>8. g[0] = <<>> /\ \A i \in 1 .. n : g[i] = After(g[i - 1], i)
  <2>1. g[0] = <<>>  BY <1>0, <1>7
  <2>2. \A i \in 1 .. n : g[i] = After(g[i - 1], i)
    <3> SUFFICES ASSUME NEW i \in 1 .. n PROVE g[i] = After(g[i - 1], i)  OBVIOUS
    <3>1. i \in 0 .. n /\ i # 0  BY <1>0
    <3>2. g[i] = IF i = 0 THEN <<>> ELSE IF i \in I THEN Append(g[i - 1], s[i]) ELSE g[i - 1]
      BY <1>7, <3>1
    <3> QED  BY <3>1, <3>2
  <2> QED  BY <2>1, <2>2
<1> DEFINE P == {i \in 0 .. n : g[i] \in S /\ \E at : Picks(g[i], at, s, I \cap (1 .. i))}
<1>9. 0 \in P
  <2>1. I \cap (1 .. 0) = {}  OBVIOUS
  <2> DEFINE e == [k \in 1 .. 0 |-> 0]
  <2>2. Len(<<>>) = 0  OBVIOUS
  <2>3. Picks(<<>>, e, s, {})  BY <2>2 DEF Picks
  <2> HIDE DEF e
  <2> QED  BY <1>0, <1>3, <1>8, <2>1, <2>3
<1>10. \A i \in 1 .. n : i - 1 \in P => i \in P
  <2> SUFFICES ASSUME NEW i \in 1 .. n, i - 1 \in P PROVE i \in P  OBVIOUS
  <2>1. i \in 0 .. n /\ i - 1 \in 0 .. n /\ g[i - 1] \in S  BY <1>0
  <2> DEFINE J == I \cap (1 .. i - 1)
             r == g[i - 1]
  <2>2. \E at : Picks(r, at, s, J)  OBVIOUS
  <2>3. CASE i \in I
    <3>1. g[i] = Append(r, s[i])  BY <1>8, <2>3
    <3>2. I \cap (1 .. i) = J \cup {i}  BY <1>0, <2>3
    <3>3. J \in SUBSET (1 .. i - 1)  OBVIOUS
    <3>4. r \in Seq(D) /\ i \in 1 .. Len(s)  BY <2>1 DEF n, S
    <3>5. g[i] \in S  BY <1>0, <3>1, <3>4 DEF S
    <3> HIDE DEF J, r
    <3>6. \E at : Picks(Append(r, s[i]), at, s, J \cup {i})
      BY <2>2, <3>3, <3>4, PicksOneMore
    <3> QED  BY <2>1, <3>1, <3>2, <3>5, <3>6
  <2>4. CASE i \notin I
    <3>1. g[i] = r  BY <1>8, <2>4
    <3>2. I \cap (1 .. i) = J  BY <1>0, <2>4
    <3> QED  BY <2>1, <2>2, <3>1, <3>2
  <2> QED  BY <2>3, <2>4
<1>11. \A i \in 0 .. n : i \in P
  <2> HIDE DEF P
  <2> QED  BY <1>0, <1>9, <1>10, IndexInduction
<1>12. g[n] \in S /\ \E at : Picks(g[n], at, s, I)
  <2>1. n \in P
    <3> HIDE DEF P
    <3> QED  BY <1>0, <1>11
  <2>2. I \cap (1 .. n) = I  BY <1>x
  <2> QED  BY <2>1, <2>2
<1> QED  BY <1>7, <1>12 DEF S

\* Half of the year the clock is shifted, and no shift is undone before as much
\* time has passed.
LEMMA ZoneTyped ==
  ASSUME NEW zone \in Zone
  PROVE  /\ zone.standard \in Int /\ zone.summer \in Int
         /\ Shift(zone) \in 0 .. 1440
         /\ zone.from \in 0 .. Year - 1 /\ zone.to \in 0 .. Year - 1
         /\ Shift(zone) # 0 => /\ zone.from + Shift(zone) <= zone.to
                               /\ zone.to + Shift(zone) <= zone.from + Year
         /\ Shift(zone) = 0 <=> zone.standard = zone.summer
<1>1. /\ zone.standard \in Int /\ zone.summer \in Int
      /\ zone.from \in 0 .. Year - 1 /\ zone.to \in 0 .. Year - 1
      /\ Shift(zone) <= Day
      /\ \/ zone.from + Shift(zone) <= zone.to /\ zone.to + Shift(zone) <= zone.from + Year
         \/ Shift(zone) = 0 /\ zone.from = zone.to
  BY DEF Zone
<1>2. Shift(zone) \in Nat /\ (Shift(zone) = 0 <=> zone.standard = zone.summer)
  BY <1>1 DEF Shift
<1>3. Day = 1440  BY DEF Day
<1> QED  BY <1>1, <1>2, <1>3

LEMMA OneOffset ==
  ASSUME NEW zone, NEW t
  PROVE  Offset(zone, t) \in {zone.standard, zone.summer}
  BY DEF Offset

LEMMA Offsets ==
  ASSUME NEW zone \in Zone, NEW t \in Int, NEW n \in Int
  PROVE  /\ Offset(zone, t) \in Int /\ Offset(zone, n) \in Int
         /\ Offset(zone, t) - Offset(zone, n) <= Shift(zone)
         /\ Offset(zone, n) - Offset(zone, t) <= Shift(zone)
         /\ Offset(zone, t) > Offset(zone, n)
              => Offset(zone, t) = Offset(zone, n) + Shift(zone)
<1>1. zone.standard \in Int /\ zone.summer \in Int  BY ZoneTyped
<1>2. /\ Offset(zone, t) \in {zone.standard, zone.summer}
      /\ Offset(zone, n) \in {zone.standard, zone.summer}
  BY OneOffset
<1> QED  BY <1>1, <1>2 DEF Shift

Rest(t, n) == t % n

GoesOn(r, s, e, n) ==
    /\ r \in Int /\ 0 <= r /\ r < n /\ s \in Int /\ 0 <= s /\ s < n
    /\ s = r + e \/ s = r + e - n

\* Remainders go on with a number until they wrap around.
LEMMA Wraps ==
  ASSUME NEW n \in Int, NEW t \in Int, NEW u \in Int, NEW e \in Int, u = t + e, 0 <= e, e < n
  PROVE  GoesOn(Rest(t, n), Rest(u, n), e, n)
<1>1. PICK q, p, r, s : q = t \div n /\ p = u \div n /\ r = Rest(t, n) /\ s = Rest(u, n)  OBVIOUS
<1>2. /\ q \in Int /\ r \in Int /\ 0 <= r /\ r < n /\ t = n * q + r
      /\ p \in Int /\ s \in Int /\ 0 <= s /\ s < n /\ u = n * p + s
  BY SMT, <1>1 DEF Rest
<1>3. PICK k : k = p - q  OBVIOUS
<1>4. k \in Int /\ n * k = r + e - s
  <2>1. n * (p - q) = n * p - n * q  BY SMT, <1>2
  <2> QED  BY SMT, <1>2, <1>3, <2>1
<1>5. k >= 2 => n * k >= 2 * n  BY SMT, <1>4
<1>6. k <= -1 => n * k <= -n  BY SMT, <1>4
<1>7. k = 0 \/ k = 1  BY SMT, <1>2, <1>4, <1>5, <1>6
<1>8. k = 0 => s = r + e  BY SMT, <1>2, <1>4
<1>9. k = 1 => s = r + e - n  BY SMT, <1>2, <1>4
<1>10. GoesOn(r, s, e, n)  BY <1>2, <1>7, <1>8, <1>9 DEF GoesOn
<1> QED  BY <1>1, <1>10

LEMMA YearTyped == Year \in Int /\ Year > 1440
  BY SMT DEF Year, Day

LEMMA OffsetStays ==
  ASSUME NEW zone \in Zone, NEW t \in Int, NEW n \in Int, t <= n, n < t + Shift(zone),
         Offset(zone, t) # Offset(zone, n)
  PROVE  Offset(zone, t + Shift(zone)) = Offset(zone, n)
<1>1. PICK d \in Int, from \in Int, to \in Int, year \in Int :
        d = Shift(zone) /\ from = zone.from /\ to = zone.to /\ year = Year
  <2>1. Shift(zone) \in Int /\ zone.from \in Int /\ zone.to \in Int
    BY ZoneTyped, YearTyped
  <2>2. Year \in Int  BY YearTyped
  <2>3. \E d \in Int : d = Shift(zone)  BY <2>1
  <2> QED  BY <2>1, <2>2, <2>3
<1>2. PICK e \in Int, u \in Int : n = t + e /\ 0 <= e /\ e < d /\ u = t + d
  <2>1. n - t \in Int /\ 0 <= n - t /\ n - t < d /\ t + d \in Int /\ n = t + (n - t)  BY <1>1
  <2> QED  BY <2>1
<1>3. /\ 0 <= from /\ from < year /\ 0 <= to /\ to < year /\ 0 <= d /\ d < year
      /\ from + d <= to \/ d = 0
      /\ to + d <= from + year \/ d = 0
  BY <1>1, ZoneTyped, YearTyped
<1>4. e < year  BY <1>2, <1>3
<1>5. /\ GoesOn(Rest(t, year), Rest(n, year), e, year)
      /\ GoesOn(Rest(t, year), Rest(u, year), d, year)
  BY <1>2, <1>3, <1>4, Wraps
<1>6. PICK a \in Int, b \in Int, c \in Int :
        a = Rest(t, year) /\ b = Rest(n, year) /\ c = Rest(u, year)
  BY <1>5 DEF GoesOn
<1>7. /\ Offset(zone, t) = IF from <= a /\ a < to THEN zone.summer ELSE zone.standard
      /\ Offset(zone, n) = IF from <= b /\ b < to THEN zone.summer ELSE zone.standard
      /\ Offset(zone, u) = IF from <= c /\ c < to THEN zone.summer ELSE zone.standard
  BY <1>1, <1>6 DEF Offset, Rest
<1>8. /\ 0 <= a /\ a < year /\ 0 <= b /\ b < year /\ 0 <= c /\ c < year
      /\ b = a + e \/ b = a + e - year
      /\ c = a + d \/ c = a + d - year
  BY <1>5, <1>6 DEF GoesOn
<1>9. ~(from <= a /\ a < to <=> from <= b /\ b < to)  BY <1>7
<1>10. from <= c /\ c < to <=> from <= b /\ b < to
  BY SMTT(60), <1>2, <1>3, <1>8, <1>9
<1> QED  BY <1>1, <1>2, <1>7, <1>10

\* A single instant shows the time, and is the only one.
LEMMA SingleShows ==
  ASSUME NEW zone \in Zone, NEW local \in Int
  PROVE  /\ Single(zone, local) # NoReset =>
              /\ Single(zone, local) \in Int
              /\ Single(zone, local) + Offset(zone, Single(zone, local)) = local
              /\ \A t \in Int : t + Offset(zone, t) = local => t = Single(zone, local)
         /\ Shift(zone) = 0 => Single(zone, local) # NoReset
<1> DEFINE I == Instants(zone, local)
           s == Single(zone, local)
<1>1. zone.standard \in Int /\ zone.summer \in Int /\ NoReset \notin Int
  BY ZoneTyped, NoNumbers
<1>2. \A t \in Int : t + Offset(zone, t) = local => t \in I
  <2> SUFFICES ASSUME NEW t \in Int, t + Offset(zone, t) = local PROVE t \in I  OBVIOUS
  <2>1. Offset(zone, t) \in {zone.standard, zone.summer}  BY OneOffset
  <2>2. t = local - Offset(zone, t)  BY <1>1, <2>1
  <2> QED  BY <2>1, <2>2 DEF Instants
<1>3. \A t \in I : t \in Int /\ t + Offset(zone, t) = local  BY <1>1 DEF Instants
<1>4. Shift(zone) = 0 => I = {local - zone.standard}
  <2> SUFFICES ASSUME Shift(zone) = 0 PROVE I = {local - zone.standard}  OBVIOUS
  <2>1. zone.standard = zone.summer  BY ZoneTyped
  <2> DEFINE u == local - zone.standard
  <2>2. u \in Int /\ u + zone.standard = local  BY <1>1
  <2>3. Offset(zone, u) = zone.standard  BY <2>1, OneOffset
  <2> HIDE DEF u
  <2>4. \A t : t \in I <=> t = u  BY <2>1, <2>2, <2>3 DEF Instants, u
  <2> HIDE DEF I
  <2> QED  BY <2>4 DEF u
<1>5. s = IF \E t \in I : I = {t} THEN CHOOSE t \in I : TRUE ELSE NoReset  BY DEF Single
<1> HIDE DEF I, s
<1>6. \/ s = NoReset /\ ~\E t \in I : I = {t}
      \/ s \in I /\ I = {s}
  BY <1>5
<1>7. s \in Int => s # NoReset  BY <1>1
<1> QED  BY <1>2, <1>3, <1>4, <1>6, <1>7 DEF s

\* The next time of day, once today's has passed, is not behind.
LEMMA TomorrowAhead ==
  ASSUME NEW zone \in Zone, NEW now \in Int, NEW local \in Int, Single(zone, local) # NoReset,
         now + Offset(zone, now) < local
  PROVE  now < Single(zone, local)
<1>1. PICK t, d : t = Single(zone, local) /\ d = Shift(zone)  OBVIOUS
<1>2. t \in Int /\ t + Offset(zone, t) = local /\ \A u \in Int : u + Offset(zone, u) = local => u = t
  BY <1>1, SingleShows
<1>3. d \in Int /\ d >= 0  BY <1>1, ZoneTyped
<1>4. /\ Offset(zone, t) \in Int /\ Offset(zone, now) \in Int
      /\ Offset(zone, t) > Offset(zone, now) => Offset(zone, t) = Offset(zone, now) + d
  BY <1>1, <1>2, Offsets
<1>5. ASSUME t <= now PROVE FALSE
  <2>1. Offset(zone, t) = Offset(zone, now) + d /\ now < t + d /\ d > 0
    BY <1>2, <1>3, <1>4, <1>5
  <2>2. Offset(zone, t) # Offset(zone, now)  BY <1>3, <1>4, <2>1
  <2>3. Offset(zone, t + d) = Offset(zone, now)
    BY <1>1, <1>2, <1>5, <2>1, <2>2, OffsetStays
  <2>4. t + d \in Int /\ (t + d) + Offset(zone, t + d) = local /\ t + d # t
    BY <1>2, <1>3, <1>4, <2>1, <2>3
  <2> QED  BY <1>2, <2>4
<1>6. now < t  BY <1>2, <1>5
<1> QED  BY <1>1, <1>6

\* Clocks that are shifted are as far apart as their instants, but for the shift.
LEMMA WallsApart ==
  ASSUME NEW zone \in Zone, NEW t \in Int, NEW u \in Int
  PROVE  LET walls == (u + Offset(zone, u)) - (t + Offset(zone, t))
         IN  walls \in Int /\ u - t <= walls + Shift(zone) /\ u - t >= walls - Shift(zone)
<1>1. Shift(zone) \in Int  BY ZoneTyped
<1>2. /\ Offset(zone, t) \in Int /\ Offset(zone, u) \in Int
      /\ Offset(zone, t) - Offset(zone, u) <= Shift(zone)
      /\ Offset(zone, u) - Offset(zone, t) <= Shift(zone)
  BY Offsets
<1> QED  BY <1>1, <1>2

\* The next time of day, of the day that began at midnight.
LEMMA NextTime ==
  ASSUME NEW zone \in Zone, NEW now \in Int, NEW midnight \in Int, NEW day \in Int,
         NEW clock \in Int, 0 <= clock, clock < day,
         midnight <= now + Offset(zone, now), now + Offset(zone, now) < midnight + day,
         NEW today, today = Single(zone, midnight + clock),
         NEW next, next = Single(zone, midnight + day + clock),
         NEW reset, reset = (IF today # NoReset /\ today <= now THEN next ELSE today),
         reset # NoReset
  PROVE  /\ reset \in Int /\ reset > now /\ reset <= now + day + Shift(zone)
         /\ \/ reset + Offset(zone, reset) = midnight + clock
            \/ reset + Offset(zone, reset) = midnight + day + clock
<1> DEFINE d == Shift(zone)
           local == now + Offset(zone, now)
<1>1. d \in 0 .. 1440 /\ Offset(zone, now) \in Int /\ local \in Int  BY ZoneTyped, Offsets
<1>2. today # NoReset => today \in Int /\ today + Offset(zone, today) = midnight + clock
  <2>1. midnight + clock \in Int  OBVIOUS
  <2> QED  BY <2>1, SingleShows
<1>3. next # NoReset => next \in Int /\ next + Offset(zone, next) = midnight + day + clock
  <2>1. midnight + day + clock \in Int  OBVIOUS
  <2> QED  BY <2>1, SingleShows
<1>4. CASE today # NoReset /\ today <= now
  <2>1. reset = next /\ next # NoReset  BY <1>4
  <2>2. next - today <= day + d
    <3>1. (next + Offset(zone, next)) - (today + Offset(zone, today)) = day
      BY <1>2, <1>3, <1>4, <2>1
    <3> QED  BY <1>2, <1>3, <1>4, <2>1, <3>1, WallsApart DEF d
  <2>3. next > now
    <3>1. midnight + day + clock \in Int  OBVIOUS
    <3>2. now + Offset(zone, now) < midnight + day + clock  BY <1>1
    <3> QED  BY <2>1, <3>1, <3>2, TomorrowAhead
  <2> HIDE DEF d, local
  <2>4. next <= now + day + d  BY <1>1, <1>2, <1>3, <1>4, <2>1, <2>2
  <2> QED  BY <1>3, <2>1, <2>3, <2>4 DEF d
<1>5. CASE ~(today # NoReset /\ today <= now)
  <2>1. reset = today /\ today # NoReset /\ ~(today <= now)  BY <1>5
  <2>2. today - now <= ((midnight + clock) - local) + d
    BY <1>2, <2>1, WallsApart
  <2>3. today > now /\ today <= now + day + d
    <3> HIDE DEF d
    <3>1. midnight <= local  OBVIOUS
    <3> HIDE DEF local
    <3> QED  BY <1>1, <1>2, <2>1, <2>2, <3>1
  <2> QED  BY <1>2, <2>1, <2>3
<1> QED  BY <1>4, <1>5

DatePicked(zone, now, wall, later, day) ==
    LET dated == Single(zone, wall)
    IN  IF dated # NoReset /\ dated < now - day THEN Single(zone, later) ELSE dated

\* This year's date or next year's, of the year that began at start.
\* A date of the year that began at start, or of the next.
IsDate(zone, now, start, year, day, wall, later, reset) ==
    /\ zone \in Zone /\ now \in Int /\ start \in Int /\ year \in Int /\ day \in Int
    /\ wall \in Int /\ later \in Int /\ later = wall + year /\ Shift(zone) <= day
    /\ start <= now + Offset(zone, now) /\ now + Offset(zone, now) < start + year
    /\ start <= wall /\ wall < start + year
    /\ reset # NoReset /\ reset = DatePicked(zone, now, wall, later, day)

LEMMA NextDate ==
  ASSUME NEW zone, NEW now, NEW start, NEW year, NEW day, NEW wall, NEW later, NEW reset,
         IsDate(zone, now, start, year, day, wall, later, reset)
  PROVE  /\ reset \in Int /\ reset >= now - day /\ reset <= now + year + Shift(zone)
         /\ \/ reset + Offset(zone, reset) = wall
            \/ reset + Offset(zone, reset) = later
<1>date. /\ zone \in Zone /\ now \in Int /\ start \in Int /\ year \in Int /\ day \in Int
       /\ wall \in Int /\ later \in Int /\ later = wall + year /\ Shift(zone) <= day
       /\ start <= now + Offset(zone, now) /\ now + Offset(zone, now) < start + year
       /\ start <= wall /\ wall < start + year
       /\ reset # NoReset /\ reset = DatePicked(zone, now, wall, later, day)
  BY DEF IsDate
<1>picked. PICK dated, next :
        /\ dated = Single(zone, wall) /\ next = Single(zone, later)
        /\ reset = IF dated # NoReset /\ dated < now - day THEN next ELSE dated
  BY <1>date DEF DatePicked
<1> DEFINE d == Shift(zone)
           local == now + Offset(zone, now)
<1>1. d \in 0 .. 1440 /\ Offset(zone, now) \in Int /\ local \in Int  BY <1>date, ZoneTyped, Offsets
<1>2. dated # NoReset => dated \in Int /\ dated + Offset(zone, dated) = wall
  BY <1>date, <1>picked, SingleShows
<1>3. next # NoReset => next \in Int /\ next + Offset(zone, next) = wall + year
  BY <1>date, <1>picked, SingleShows
<1>4. CASE dated # NoReset /\ dated < now - day
  <2>1. reset = next /\ next # NoReset  BY <1>date, <1>picked, <1>4
  <2>2. next - dated <= year + d
    <3>1. (next + Offset(zone, next)) - (dated + Offset(zone, dated)) = year
      BY <1>date, <1>2, <1>3, <1>4, <2>1
    <3> QED  BY <1>date, <1>2, <1>3, <1>4, <2>1, <3>1, <1>date, WallsApart DEF d
  <2>3. next - now >= ((wall + year) - local) - d
    BY <1>date, <1>3, <2>1, <1>date, WallsApart
  <2>4. next >= now - day /\ next <= now + year + d
    <3>1. start <= local /\ local < start + year /\ d <= day  BY <1>date
    <3> HIDE DEF d, local
    <3> QED  BY <1>date, <1>1, <1>2, <1>3, <1>4, <2>1, <2>2, <2>3, <3>1
  <2> QED  BY <1>date, <1>3, <2>1, <2>4
<1>5. CASE ~(dated # NoReset /\ dated < now - day)
  <2>1. reset = dated /\ dated # NoReset /\ ~(dated < now - day)  BY <1>date, <1>picked, <1>5
  <2>2. dated - now <= (wall - local) + d
    BY <1>date, <1>2, <2>1, <1>date, WallsApart
  <2>3. dated >= now - day /\ dated <= now + year + d
    <3> HIDE DEF d
    <3>1. start <= local  BY <1>date
    <3> HIDE DEF local
    <3> QED  BY <1>date, <1>1, <1>2, <2>1, <2>2, <3>1
  <2> QED  BY <1>date, <1>2, <2>1, <2>3
<1> QED  BY <1>date, <1>4, <1>5

LEMMA Rounded ==
  ASSUME NEW n \in Int, 0 < n, NEW t \in Int
  PROVE  t \div n \in Int /\ (t \div n) * n <= t /\ t < (t \div n) * n + n
<1>1. PICK q : q = t \div n  OBVIOUS
<1>2. q \in Int /\ q * n <= t /\ t < q * n + n  BY SMT, <1>1
<1> QED  BY <1>1, <1>2

LEMMA Multiple ==
  ASSUME NEW n \in Int, 0 < n, NEW k \in Int, NEW m \in Int, m = k * n
  PROVE  Rest(m, n) = 0
<1>1. PICK q, r : q = m \div n /\ r = Rest(m, n)  OBVIOUS
<1>2. q \in Int /\ r \in Int /\ 0 <= r /\ r < n /\ m = n * q + r  BY SMT, <1>1 DEF Rest
<1>3. PICK e : e = k - q  OBVIOUS
<1>4. e \in Int /\ n * e = r
  <2>1. n * (k - q) = n * k - n * q  BY SMT, <1>2
  <2> QED  BY SMT, <1>2, <1>3, <2>1
<1>5. e >= 1 => n * e >= n  BY SMT, <1>4
<1>6. e <= -1 => n * e <= -n  BY SMT, <1>4
<1>7. r = 0  BY SMT, <1>2, <1>4, <1>5, <1>6
<1> QED  BY <1>1, <1>7

\* Minutes and days of the two ways to name a day.
LEMMA Walls ==
  ASSUME NEW y \in Int, NEW days \in Int, 0 <= days, days <= 364,
         NEW clock \in Int, 0 <= clock, clock < Day
  PROVE  /\ y * Year <= (y * 365 + days) * Day + clock
         /\ (y * 365 + days) * Day + clock < y * Year + Year
         /\ (y * 365 + days + 365) * Day + clock = (y * 365 + days) * Day + clock + Year
  BY SMT DEF Year, Day

LEMMA Lengths == Day \in Int /\ Day = 1440 /\ 0 < Day /\ Year \in Int /\ 0 < Year
  BY SMT DEF Year, Day

\* What a reset of a time of day is read as, and of a date.
LEMMA TimeRead ==
  ASSUME NEW c \in TimeCase, c.type = "time", NEW clock \in Int, clock = Clock(c), 0 <= clock, clock < Day,
         NEW reset, reset = ResetTime(c, c.now, c.zone), reset # NoReset,
         c.hour \in 1 .. 12, ~(c.minute > 59)
  PROVE  /\ reset \in Int /\ Rest(reset + Offset(c.zone, reset) - clock, Day) = 0
         /\ reset > c.now /\ reset <= c.now + Day + Shift(c.zone)
<1>1. c.now \in Int /\ c.zone \in Zone  BY DEF TimeCase
<1>2. PICK zone \in Zone, now \in Int : zone = c.zone /\ now = c.now  BY <1>1
<1>3. PICK day \in Int : day = Day /\ 0 < day  BY Lengths
<1>4. Offset(zone, now) \in Int  BY Offsets
<1>5. PICK local \in Int : local = now + Offset(zone, now)  BY <1>4
<1>6. PICK q \in Int : q = local \div day /\ q * day <= local /\ local < q * day + day
  BY <1>3, Rounded
<1>7. PICK midnight \in Int : midnight = q * day  OBVIOUS
<1>8. (q + 1) * day = midnight + day  BY SMT, <1>7
<1>9. PICK today, next : today = Single(zone, midnight + clock) /\ next = Single(zone, midnight + day + clock)
  OBVIOUS
<1>10. reset = IF today # NoReset /\ today <= now THEN next ELSE today
  BY <1>2, <1>3, <1>5, <1>6, <1>7, <1>8, <1>9 DEF ResetTime
<1>11. /\ reset \in Int /\ reset > now /\ reset <= now + day + Shift(zone)
       /\ \/ reset + Offset(zone, reset) = midnight + clock
          \/ reset + Offset(zone, reset) = midnight + day + clock
  <2>1. /\ midnight <= now + Offset(zone, now) /\ now + Offset(zone, now) < midnight + day
        /\ 0 <= clock /\ clock < day
    BY <1>3, <1>5, <1>6, <1>7
  <2> QED  BY <1>9, <1>10, <2>1, NextTime
<1>12. PICK m \in Int : m = reset + Offset(zone, reset) - clock /\ (m = q * day \/ m = (q + 1) * day)
  <2>1. Offset(zone, reset) \in Int  BY <1>11, Offsets
  <2> QED  BY <1>7, <1>8, <1>11, <2>1
<1>13. Rest(m, day) = 0
  <2>1. q + 1 \in Int  OBVIOUS
  <2> QED  BY <1>3, <1>12, <2>1, Multiple
<1> QED  BY <1>2, <1>3, <1>11, <1>12, <1>13

LEMMA DateRead ==
  ASSUME NEW c \in TimeCase, c.type = "date",
         NEW clock \in Int, clock = Clock(c), 0 <= clock, clock < Day,
         NEW reset, reset = ResetTime(c, c.now, c.zone), reset # NoReset,
         c.hour \in 1 .. 12, ~(c.minute > 59)
  PROVE  c.day <= 364 =>
           /\ reset \in Int /\ Rest(reset + Offset(c.zone, reset) - clock, Day) = 0
           /\ reset >= c.now - Day /\ reset <= c.now + Year + Shift(c.zone)
<1>0. HAVE c.day <= 364
<1>1. c.now \in Int /\ c.zone \in Zone /\ c.day \in Int /\ 0 <= c.day  BY DEF TimeCase
<1>2. PICK zone \in Zone, now \in Int, days \in Int :
        zone = c.zone /\ now = c.now /\ days = c.day /\ 0 <= days /\ days <= 364
  BY <1>0, <1>1
<1>3. PICK day \in Int, year \in Int : day = Day /\ 0 < day /\ year = Year /\ 0 < year
  BY Lengths
<1>4. Offset(zone, now) \in Int  BY Offsets
<1>5. PICK local \in Int : local = now + Offset(zone, now)  BY <1>4
<1>6. PICK y \in Int : y = local \div year /\ y * year <= local /\ local < y * year + year
  BY <1>3, Rounded
<1>7. PICK start \in Int : start = y * year  OBVIOUS
<1>8. PICK k \in Int, wall \in Int : k = y * 365 + days /\ wall = k * day + clock
  OBVIOUS
<1>9. start <= wall /\ wall < start + year /\ (k + 365) * day + clock = wall + year
  <2>1. /\ y * Year <= (y * 365 + days) * Day + clock
        /\ (y * 365 + days) * Day + clock < y * Year + Year
        /\ (y * 365 + days + 365) * Day + clock = (y * 365 + days) * Day + clock + Year
    BY <1>2, Walls
  <2> QED  BY <1>3, <1>7, <1>8, <2>1
<1>10. PICK later \in Int : later = wall + year  OBVIOUS
<1>11. reset = DatePicked(zone, now, wall, later, day)
  <2>1. reset = DatePicked(zone, now, k * day + clock, (k + 365) * day + clock, day)
    BY <1>2, <1>3, <1>5, <1>6, <1>8 DEF ResetTime, DatePicked
  <2> QED  BY <1>8, <1>9, <1>10, <2>1
<1>12. /\ reset \in Int /\ reset >= now - day /\ reset <= now + year + Shift(zone)
       /\ \/ reset + Offset(zone, reset) = wall
          \/ reset + Offset(zone, reset) = later
  <2>1. /\ start <= now + Offset(zone, now) /\ now + Offset(zone, now) < start + year
        /\ Shift(zone) <= day
    BY <1>3, <1>5, <1>6, <1>7, Lengths, ZoneTyped, SMTT(30)
  <2>2. start <= wall /\ wall < start + year  BY <1>9
  <2>3. IsDate(zone, now, start, year, day, wall, later, reset)
    BY <1>10, <1>11, <2>1, <2>2 DEF IsDate
  <2> QED  BY <2>3, NextDate
<1>13. PICK m \in Int : m = reset + Offset(zone, reset) - clock /\ (m = k * day \/ m = (k + 365) * day)
  <2>1. Offset(zone, reset) \in Int  BY <1>12, Offsets
  <2> QED  BY <1>8, <1>9, <1>10, <1>12, <2>1
<1>14. Rest(m, day) = 0
  <2>1. k + 365 \in Int  OBVIOUS
  <2> QED  BY <1>3, <1>13, <2>1, Multiple, ZenonT(40)
<1> QED  BY <1>2, <1>3, <1>12, <1>13, <1>14

\* An hour that no clock shows is skipped only by a clock that is shifted.
LEMMA ResetLost ==
  ASSUME NEW c \in TimeCase, ResetTime(c, c.now, c.zone) = NoReset
  PROVE  /\ c.type # "duration"
         /\ c.hour \notin 1 .. 12 \/ c.minute > 59 \/ Shift(c.zone) # 0
<1>1. /\ c.now \in Int /\ c.zone \in Zone /\ c.day \in Int /\ c.hour \in Int /\ c.minute \in Int
      /\ c.meridiem \in {"am", "pm"} /\ NoReset \notin Int
  BY NoNumbers DEF TimeCase
<1>2. PICK zone \in Zone, now \in Int, days \in Int :
        zone = c.zone /\ now = c.now /\ days = c.day
  BY <1>1
<1>c. PICK clock : clock = Clock(c)  OBVIOUS
<1>3. PICK day \in Int, year \in Int : day = Day /\ 0 < day /\ year = Year /\ 0 < year
  BY Lengths
<1>4. Offset(zone, now) \in Int  BY Offsets
<1>5. PICK local \in Int : local = now + Offset(zone, now)  BY <1>4
<1>6. PICK q \in Int, y \in Int : q = local \div day /\ y = local \div year
  BY <1>3, Rounded
<1>7. ASSUME c.type = "duration" PROVE FALSE
  <2>1. now + c.day * day + c.hour * 60 + c.minute \in Int  BY <1>1
  <2>2. ResetTime(c, c.now, c.zone) = now + c.day * day + c.hour * 60 + c.minute
    BY <1>2, <1>3, <1>7 DEF ResetTime
  <2> QED  BY <1>1, <2>1, <2>2
<1>8. ASSUME c.hour \in 1 .. 12, ~(c.minute > 59), Shift(zone) = 0 PROVE FALSE
  <2>1. clock \in Int
    <3>1. PICK h : h = Hour24(c.hour, c.meridiem)  OBVIOUS
    <3>2. h \in Int  BY <1>1, <3>1 DEF Hour24
    <3>3. clock = h * 60 + c.minute  BY <1>c, <3>1 DEF Clock
    <3> QED  BY <1>1, <3>2, <3>3
  <2>2. \A n \in Int : Single(zone, n * day + clock) # NoReset
    <3> SUFFICES ASSUME NEW n \in Int PROVE Single(zone, n * day + clock) # NoReset  OBVIOUS
    <3>1. PICK w \in Int : w = n * day + clock  BY <2>1
    <3> QED  BY <1>8, <3>1, SingleShows
  <2>3. ResetTime(c, c.now, c.zone) \in
          {Single(zone, q * day + clock), Single(zone, (q + 1) * day + clock),
           Single(zone, (y * 365 + days) * day + clock),
           Single(zone, (y * 365 + days + 365) * day + clock)}
    BY <1>2, <1>c, <1>3, <1>5, <1>6, <1>7, <1>8 DEF ResetTime
  <2>4. q + 1 \in Int /\ y * 365 + days \in Int /\ y * 365 + days + 365 \in Int  OBVIOUS
  <2> QED  BY <2>2, <2>3, <2>4, ZenonT(40)
<1> QED  BY <1>2, <1>7, <1>8

\* The time shown is the one printed, and lies ahead (claude.rs:1187-1319).
LEMMA ResetAhead ==
  ASSUME NEW c \in TimeCase, c.type = "date" => c.day <= 364
  PROVE  ResetIsRight(c, ResetTime(c, c.now, c.zone))
<1>1. PICK reset : reset = ResetTime(c, c.now, c.zone)  OBVIOUS
<1> SUFFICES ResetIsRight(c, reset)  BY <1>1
<1>2. /\ c.hour \in Int /\ c.minute \in Int /\ 0 <= c.hour /\ 0 <= c.minute /\ 0 <= c.day
      /\ c.now \in Int /\ c.day \in Int /\ c.type \in {"time", "date", "duration"}
      /\ c.meridiem \in {"am", "pm"} /\ NoReset \notin Int
  BY NoNumbers DEF TimeCase
<1>3. CASE reset = NoReset
  BY <1>1, <1>3, ResetLost DEF ResetIsRight
<1>4. CASE reset # NoReset /\ c.type = "duration"
  <2>1. PICK day \in Int, days \in Int : day = Day /\ 0 < day /\ days = c.day
    BY <1>2, Lengths
  <2>2. reset = c.now + days * day + c.hour * 60 + c.minute
    BY <1>1, <1>4, <2>1 DEF ResetTime
  <2>3. days * day >= 0  BY SMT, <1>2, <2>1
  <2>4. reset >= c.now  BY <1>2, <2>1, <2>2, <2>3
  <2> QED  BY <1>4, <2>4 DEF ResetIsRight
<1>5. CASE reset # NoReset /\ c.type # "duration"
  <2>1. c.hour \in 1 .. 12 /\ ~(c.minute > 59)  BY <1>1, <1>5 DEF ResetTime
  <2>2. PICK clock \in Int : clock = Clock(c) /\ 0 <= clock /\ clock < Day
    <3>1. PICK h : h = Hour24(c.hour, c.meridiem)  OBVIOUS
    <3>2. h \in 0 .. 23  BY <1>2, <2>1, <3>1 DEF Hour24
    <3>3. Clock(c) = h * 60 + c.minute  BY <3>1 DEF Clock
    <3>4. h * 60 + c.minute \in Int /\ 0 <= h * 60 + c.minute /\ h * 60 + c.minute < Day
      BY <1>2, <2>1, <3>2, Lengths
    <3> QED  BY <3>3, <3>4
  <2>3. CASE c.type = "time"
    <3>1. /\ reset \in Int /\ Rest(reset + Offset(c.zone, reset) - clock, Day) = 0
          /\ reset > c.now /\ reset <= c.now + Day + Shift(c.zone)
      BY <1>1, <1>5, <2>1, <2>2, <2>3, TimeRead
    <3> QED  BY <1>5, <2>2, <2>3, <3>1 DEF ResetIsRight, Rest
  <2>4. CASE c.type = "date"
    <3>1. /\ reset \in Int /\ Rest(reset + Offset(c.zone, reset) - clock, Day) = 0
          /\ reset >= c.now - Day /\ reset <= c.now + Year + Shift(c.zone)
      BY <1>1, <1>5, <2>1, <2>2, <2>4, DateRead
    <3> QED  BY <1>5, <2>2, <2>4, <3>1 DEF ResetIsRight, Rest
  <2> QED  BY <1>2, <1>5, <2>3, <2>4
<1> QED  BY <1>3, <1>4, <1>5

\* The windows of the card behind the primary ones.
Additions(provider, windows) ==
    LET primary == PrimaryWindows(provider, windows)
    IN  {i \in DOMAIN windows :
            /\ ~\E p \in DOMAIN primary : primary[p].id = windows[i].id
            /\ ~\E j \in 1 .. i - 1 : windows[j].id = windows[i].id
            /\ Shown(provider, windows[i])}

\* A card of the windows at the places I, after some that come first.
CardIs(card, primary, windows, I) ==
    /\ ShownOnce(card)
    /\ \A p \in DOMAIN primary : \E k \in DOMAIN card : card[k] = primary[p]
    /\ \A i \in I : \E k \in DOMAIN card : card[k] = windows[i]
    /\ \A k \in DOMAIN card : \/ \E p \in DOMAIN primary : card[k] = primary[p]
                              \/ \E i \in I : card[k] = windows[i]

IdsDistinct(s) == \A p, q \in DOMAIN s : s[p].id = s[q].id => p = q

LEMMA OnCard ==
  ASSUME NEW W, NEW provider, NEW windows \in Seq(W),
         PrimaryWindows(provider, windows) \in Seq(W), IdsDistinct(PrimaryWindows(provider, windows))
  PROVE  CardIs(Card(provider, windows), PrimaryWindows(provider, windows), windows,
                Additions(provider, windows))
<1> DEFINE primary == PrimaryWindows(provider, windows)
           additional == AdditionalWindows(provider, windows)
           card == primary \o additional
           I == Additions(provider, windows)
           n == Len(primary)
           m == Len(additional)
<1>0. Card(provider, windows) = card  BY DEF Card
<1>1. additional \in Seq(W) /\ \E at : Picks(additional, at, windows, I)
  <2>1. I \in SUBSET DOMAIN windows  BY DEF Additions
  <2>2. additional = Sift(windows, I)  BY DEF AdditionalWindows, Additions
  <2> HIDE DEF I, additional
  <2> QED  BY <2>1, <2>2, SiftPicks
<1>2. PICK at : Picks(additional, at, windows, I)  BY <1>1
<1>p. primary \in Seq(W) /\ IdsDistinct(primary)  OBVIOUS
<1>7. \A i \in I : /\ i \in DOMAIN windows
                   /\ \A p \in DOMAIN primary : primary[p].id # windows[i].id
                   /\ \A j \in 1 .. i - 1 : windows[j].id # windows[i].id
  BY DEF Additions
<1> HIDE DEF additional, primary, I
<1>3. /\ n \in Nat /\ m \in Nat /\ DOMAIN primary = 1 .. n /\ DOMAIN card = 1 .. (n + m)
      /\ \A k \in 1 .. n : card[k] = primary[k]
      /\ \A k \in 1 .. m : card[n + k] = additional[k]
  BY <1>1, <1>p
<1>5. /\ \A k \in 1 .. m : at[k] \in I
      /\ \A i \in I : \E k \in 1 .. m : at[k] = i
      /\ \A k, l \in 1 .. m : k < l => at[k] < at[l]
      /\ \A k \in 1 .. m : additional[k] = windows[at[k]]
  BY <1>2 DEF Picks
<1>6. DOMAIN windows = 1 .. Len(windows) /\ Len(windows) \in Nat  OBVIOUS
<1> HIDE DEF card, n, m
<1>8. \A k \in DOMAIN card :
        \/ k \in 1 .. n /\ card[k] = primary[k]
        \/ \E o \in 1 .. m : k = n + o /\ card[k] = windows[at[o]] /\ at[o] \in I
  <2> SUFFICES ASSUME NEW k \in DOMAIN card, k \notin 1 .. n
               PROVE  \E o \in 1 .. m : k = n + o /\ card[k] = windows[at[o]] /\ at[o] \in I
    BY <1>3
  <2>1. k - n \in 1 .. m /\ k = n + (k - n)  BY <1>3
  <2>2. PICK o \in 1 .. m : k = n + o  BY <2>1
  <2> QED  BY <1>3, <1>5, <2>2
<1>9. ASSUME NEW k \in DOMAIN card, NEW l \in DOMAIN card, card[k].id = card[l].id PROVE k = l
  <2>1. CASE k \in 1 .. n /\ card[k] = primary[k]
    <3>1. l \in 1 .. n /\ card[l] = primary[l]
      BY <1>3, <1>7, <1>8, <1>9, <2>1
    <3> QED  BY <1>3, <1>9, <1>p, <2>1, <3>1 DEF IdsDistinct
  <2>2. CASE \E o \in 1 .. m : k = n + o /\ card[k] = windows[at[o]] /\ at[o] \in I
    <3>1. PICK o \in 1 .. m : k = n + o /\ card[k] = windows[at[o]] /\ at[o] \in I  BY <2>2
    <3>2. PICK q \in 1 .. m : l = n + q /\ card[l] = windows[at[q]] /\ at[q] \in I
      BY <1>3, <1>7, <1>8, <1>9, <3>1, SMTT(30)
    <3>3. at[o] \in Nat /\ at[q] \in Nat /\ at[o] >= 1 /\ at[q] >= 1  BY <1>6, <1>7, <3>1, <3>2
    <3>4. ~(at[o] < at[q])
      <4>1. at[o] < at[q] => at[o] \in 1 .. at[q] - 1  BY <3>3
      <4> QED  BY <1>7, <1>9, <3>1, <3>2, <4>1
    <3>5. ~(at[q] < at[o])
      <4>1. at[q] < at[o] => at[q] \in 1 .. at[o] - 1  BY <3>3
      <4> QED  BY <1>7, <1>9, <3>1, <3>2, <4>1
    <3>6. o = q
      <4>1. ~(o < q) /\ ~(q < o)  BY <1>5, <3>4, <3>5
      <4> QED  BY <1>3, <4>1
    <3> QED  BY <3>1, <3>2, <3>6
  <2> QED  BY <1>8, <2>1, <2>2
<1>10. \A p \in DOMAIN primary : p \in DOMAIN card /\ card[p] = primary[p]  BY <1>3
<1>11. ASSUME NEW i \in I PROVE \E k \in DOMAIN card : card[k] = windows[i]
  <2>1. PICK o \in 1 .. m : at[o] = i  BY <1>5
  <2>2. n + o \in DOMAIN card /\ card[n + o] = windows[i]  BY <1>3, <1>5, <2>1
  <2> QED  BY <2>2
<1>12. \A k \in DOMAIN card : \/ \E p \in DOMAIN primary : card[k] = primary[p]
                              \/ \E i \in I : card[k] = windows[i]
  BY <1>3, <1>8
<1>13. CardIs(card, primary, windows, I)
  BY <1>9, <1>10, <1>11, <1>12 DEF CardIs, ShownOnce
<1> QED  BY <1>0, <1>13 DEF primary, I

\* Of windows that may all be shown, none is left out.
LEMMA AllOnCard ==
  ASSUME NEW W, NEW provider, NEW windows \in Seq(W),
         PrimaryWindows(provider, windows) \in Seq(W), IdsDistinct(PrimaryWindows(provider, windows)),
         \A w : Shown(provider, w)
  PROVE  ShowsAll(provider, windows)
<1> DEFINE primary == PrimaryWindows(provider, windows)
           card == Card(provider, windows)
           I == Additions(provider, windows)
<1>1. CardIs(card, primary, windows, I)  BY OnCard
<1>2. DOMAIN windows = 1 .. Len(windows) /\ Len(windows) \in Nat  OBVIOUS
<1>3. \A i \in DOMAIN windows :
        i \in I <=> /\ \A p \in DOMAIN primary : primary[p].id # windows[i].id
                    /\ \A j \in 1 .. i - 1 : windows[j].id # windows[i].id
  BY DEF Additions
<1> HIDE DEF primary, card, I
<1>4. ASSUME NEW i \in DOMAIN windows PROVE \E k \in DOMAIN card : card[k].id = windows[i].id
  <2> DEFINE same == {j \in DOMAIN windows : windows[j].id = windows[i].id}
  <2>1. same # {} /\ same \in SUBSET Nat  BY <1>2
  <2>2. PICK j \in same : \A o \in same : j <= o
    <3> HIDE DEF same
    <3> QED  BY <2>1, Smallest
  <2>3. \A o \in 1 .. j - 1 : windows[o].id # windows[j].id
    <3> SUFFICES ASSUME NEW o \in 1 .. j - 1, windows[o].id = windows[j].id PROVE FALSE
      OBVIOUS
    <3>1. o \in same  BY <1>2, <2>2
    <3>2. j <= o  BY <2>2, <3>1
    <3> QED  BY <1>2, <2>2, <3>2
  <2>4. CASE \E p \in DOMAIN primary : primary[p].id = windows[i].id
    BY <1>1, <2>4 DEF CardIs
  <2>5. CASE ~\E p \in DOMAIN primary : primary[p].id = windows[i].id
    <3>1. j \in I  BY <1>3, <2>2, <2>3, <2>5
    <3> QED  BY <1>1, <2>2, <3>1 DEF CardIs
  <2> QED  BY <2>4, <2>5
<1> QED  BY <1>1, <1>4 DEF ShowsAll, CardIs, card

\* r is the first element at the places I, if there are any.
IsFirstWhere(r, s, I) ==
    \/ r = <<>> /\ I = {}
    \/ /\ I # {} /\ FirstOf(I) \in I /\ \A i \in I : FirstOf(I) <= i
       /\ r = <<s[FirstOf(I)]>>

LEMMA FirstWhereIs ==
  ASSUME NEW W, NEW s \in Seq(W), NEW I \in SUBSET (DOMAIN s)
  PROVE  FirstWhere(s, I) \in Seq(W) /\ IsFirstWhere(FirstWhere(s, I), s, I)
<1>1. I \in SUBSET Nat  OBVIOUS
<1>2. I # {} => FirstOf(I) \in I /\ s[FirstOf(I)] \in W  BY <1>1, FirstOfPlaces
<1> QED  BY <1>1, <1>2, FirstOfPlaces DEF FirstWhere, IsFirstWhere

LEMMA FirstWithId ==
  ASSUME NEW W, NEW s \in Seq(W), NEW id
  PROVE  /\ ById(s, id) \in Seq(W)
         /\ IsFirstWhere(ById(s, id), s, {i \in DOMAIN s : s[i].id = id})
<1> DEFINE I == {i \in DOMAIN s : s[i].id = id}
<1>1. I \in SUBSET (DOMAIN s)  OBVIOUS
<1>2. ById(s, id) = FirstWhere(s, I)  BY DEF ById
<1> HIDE DEF I
<1> QED  BY <1>1, <1>2, FirstWhereIs DEF I

LEMMA FirstOfKind ==
  ASSUME NEW W, NEW s \in Seq(W), NEW kind
  PROVE  /\ ByKind(s, kind) \in Seq(W)
         /\ IsFirstWhere(ByKind(s, kind), s, {i \in DOMAIN s : s[i].kind = kind})
<1> DEFINE I == {i \in DOMAIN s : s[i].kind = kind}
<1>1. I \in SUBSET (DOMAIN s)  OBVIOUS
<1>2. ByKind(s, kind) = FirstWhere(s, I)  BY DEF ByKind
<1> HIDE DEF I
<1> QED  BY <1>1, <1>2, FirstWhereIs DEF I

\* The buckets the code knows, with the name of their group.
KnownIn(groups) ==
    {k \in [group : STRING, bucket : Bucket] :
        \E g \in DOMAIN groups : \E b \in DOMAIN groups[g].buckets :
           /\ k.group = groups[g].name /\ k.bucket = groups[g].buckets[b]
           /\ k.group \in {"gemini", "claude-gpt"} /\ k.bucket.window \in {"weekly", "5h"}}

LEMMA GroupIsKnown ==
  ASSUME NEW groups \in Seq(Group), NEW g \in DOMAIN groups
  PROVE  KnownBuckets(groups[g]) \in Seq(KnownIn(groups))
<1> DEFINE group == groups[g]
           I == {b \in DOMAIN group.buckets :
                   /\ group.name \in {"gemini", "claude-gpt"}
                   /\ group.buckets[b].window \in {"weekly", "5h"}}
           known == Sift(group.buckets, I)
           K == KnownIn(groups)
<1>1. group.buckets \in Seq(Bucket) /\ group.name \in STRING
  <2>1. group \in Group  OBVIOUS
  <2> HIDE DEF group
  <2> QED  BY <2>1 DEF Group
<1>2. I \in SUBSET (DOMAIN group.buckets)  OBVIOUS
<1>3. KnownBuckets(group)
        = [b \in DOMAIN known |-> [group |-> group.name, bucket |-> known[b]]]
  BY DEF KnownBuckets
<1>4. known \in Seq(Bucket) /\ \E at : Picks(known, at, group.buckets, I)
  <2> HIDE DEF group, I
  <2> QED  BY <1>1, <1>2, SiftPicks
<1>5. PICK at : Picks(known, at, group.buckets, I)  BY <1>4
<1> HIDE DEF known
<1>6. ASSUME NEW b \in 1 .. Len(known)
      PROVE  [group |-> group.name, bucket |-> known[b]] \in K
  <2>1. at[b] \in I /\ known[b] = group.buckets[at[b]]
    <3> HIDE DEF I
    <3> QED  BY <1>5 DEF Picks
  <2>2. /\ at[b] \in DOMAIN group.buckets /\ group.name \in {"gemini", "claude-gpt"}
        /\ known[b].window \in {"weekly", "5h"}
    BY <2>1
  <2>3. known[b] \in Bucket  BY <1>4
  <2> DEFINE k == [group |-> group.name, bucket |-> known[b]]
  <2>4. /\ k \in [group : STRING, bucket : Bucket] /\ k.group = group.name
        /\ k.bucket = known[b]
    BY <1>1, <2>3
  <2> HIDE DEF k
  <2>5. k \in K  BY <2>1, <2>2, <2>4 DEF KnownIn
  <2> QED  BY <2>5 DEF k
<1>7. DOMAIN known = 1 .. Len(known) /\ Len(known) \in Nat  BY <1>4
<1> HIDE DEF K
<1>8. [b \in 1 .. Len(known) |-> [group |-> group.name, bucket |-> known[b]]] \in Seq(K)
  <2> DEFINE r == [b \in 1 .. Len(known) |-> [group |-> group.name, bucket |-> known[b]]]
  <2>1. r \in [1 .. Len(known) -> K]  BY <1>6
  <2> HIDE DEF r
  <2>2. r \in Seq(K)  BY <1>7, <2>1
  <2> QED  BY <2>2 DEF r
<1> QED  BY <1>3, <1>7, <1>8 DEF K

LEMMA BucketsKnown ==
  ASSUME NEW groups \in Seq(Group)
  PROVE  AllBuckets(groups) \in Seq(KnownIn(groups))
<1> DEFINE n == Len(groups)
           S == Seq(KnownIn(groups))
           After(r, i) == r \o KnownBuckets(groups[i])
           step == [p \in (1 .. n) \X S |-> After(p[2], p[1])]
           Fold(f) == f = [i \in 0 .. n |-> IF i = 0 THEN <<>> ELSE After(f[i - 1], i)]
<1>0. n \in Nat /\ DOMAIN groups = 1 .. n  OBVIOUS
<1>1. \A r \in S, i \in 1 .. n : After(r, i) \in S
  <2> SUFFICES ASSUME NEW r \in S, NEW i \in 1 .. n PROVE After(r, i) \in S  OBVIOUS
  <2>1. KnownBuckets(groups[i]) \in S  BY <1>0, GroupIsKnown
  <2> QED  BY <2>1
<1>2. step \in [(1 .. n) \X S -> S]
  <2> HIDE DEF After, S
  <2> QED  BY <1>1
<1>3. <<>> \in S  OBVIOUS
<1>4. PICK f : Folded(f, S, <<>>, n, step)
  <2> HIDE DEF step, n, S
  <2> QED  BY <1>0, <1>2, <1>3, FoldExists
<1> HIDE DEF n, S
<1>5. f \in [0 .. n -> S] /\ f[0] = <<>> /\ \A i \in 1 .. n : f[i - 1] \in S
  <2> HIDE DEF step
  <2> QED  BY <1>0, <1>4 DEF Folded
<1>6. Fold(f)
  <2> HIDE DEF After
  <2>1. \A i \in 1 .. n : f[i] = After(f[i - 1], i)  BY <1>4, <1>5 DEF Folded
  <2>2. f = [i \in 0 .. n |-> f[i]]  BY <1>5
  <2>3. \A i \in 0 .. n : f[i] = IF i = 0 THEN <<>> ELSE After(f[i - 1], i)
    BY <1>0, <1>5, <2>1
  <2> QED  BY <2>2, <2>3
<1>7. PICK g : Fold(g) /\ AllBuckets(groups) = g[n]
  <2> DEFINE c == CHOOSE g : Fold(g)
  <2>1. AllBuckets(groups) = c[n]  BY DEF AllBuckets, n
  <2> HIDE DEF Fold
  <2>2. Fold(c)  BY <1>6
  <2> HIDE DEF c
  <2> QED  BY <2>1, <2>2
<1>8. g[0] = <<>> /\ \A i \in 1 .. n : g[i] = After(g[i - 1], i)
  <2> HIDE DEF After
  <2> QED  BY <1>0, <1>7
<1> DEFINE P == {i \in 0 .. n : g[i] \in S}
<1>9. 0 \in P  BY <1>0, <1>3, <1>8
<1>10. \A i \in 1 .. n : i - 1 \in P => i \in P
  <2> HIDE DEF After
  <2> QED  BY <1>0, <1>1, <1>8
<1>11. \A i \in 0 .. n : i \in P
  <2> HIDE DEF P
  <2> QED  BY <1>0, <1>9, <1>10, IndexInduction
<1>12. g[n] \in S  BY <1>0, <1>11
<1> QED  BY <1>7, <1>12 DEF S

\* No failure of a command is a fresh answer.
LEMMA CodesOfCommands ==
  ASSUME NEW outcome
  PROVE  CommandCode(outcome) # "fresh" /\ VersionCode(outcome) # "fresh"
  BY DEF CommandCode, VersionCode

\* Antigravity: the windows are buckets of groups the code knows, each id once
\* on the card (antigravity.rs:81-269).
LEMMA AntigravityIsSound ==
  ASSUME NEW c \in AntigravityCase
  PROVE  LET answer == AntigravityAnswer(c.version, c.usage, c.expected, c.groups)
             windows == answer.windows
         IN  /\ answer.code # "fresh" => windows = <<>>
             /\ ShowsAll("antigravity", windows)
             /\ \A i \in DOMAIN windows : \E g \in DOMAIN c.groups :
                  \E b \in DOMAIN c.groups[g].buckets :
                    Reports(c.groups[g], c.groups[g].buckets[b], windows[i])
<1> DEFINE answer == AntigravityAnswer(c.version, c.usage, c.expected, c.groups)
           windows == answer.windows
           known == AllBuckets(c.groups)
           K == KnownIn(c.groups)
           W == {BucketWindow(k) : k \in K}
           all == [i \in DOMAIN known |-> BucketWindow(known[i])]
<1>1. c.groups \in Seq(Group)  BY DEF AntigravityCase
<1>2. known \in Seq(K)  BY <1>1, BucketsKnown
<1>3. \/ answer.code # "fresh" /\ windows = <<>>
      \/ answer.code = "fresh" /\ windows = all
  <2> HIDE DEF all
  <2>1. \/ answer = Answer(VersionCode(c.version), <<>>)
        \/ answer = Answer(CommandCode(c.usage), <<>>)
        \/ answer = Answer("unsupported_output", <<>>)
        \/ answer = Answer("fresh", all)
    BY DEF AntigravityAnswer, all
  <2> HIDE DEF answer
  <2> QED  BY <2>1, CodesOfCommands DEF Answer
<1>4. all \in Seq(W) /\ \A i \in DOMAIN all : \E k \in K : all[i] = BucketWindow(k)
  <2> HIDE DEF known, K
  <2>1. \A i \in 1 .. Len(known) : known[i] \in K  BY <1>2
  <2>2. all = [i \in 1 .. Len(known) |-> BucketWindow(known[i])]  BY <1>2
  <2>3. all \in [1 .. Len(known) -> W]  BY <2>1, <2>2
  <2>4. Len(known) \in Nat  BY <1>2
  <2>5. DOMAIN all = 1 .. Len(known)  BY <2>2
  <2>6. \A i \in DOMAIN all : all[i] = BucketWindow(known[i])  BY <2>2
  <2> HIDE DEF all, W
  <2>7. all \in Seq(W)  BY <2>3, <2>4
  <2> QED  BY <2>1, <2>5, <2>6, <2>7
<1> HIDE DEF answer, known, K, all, W
<1>5. windows \in Seq(W) /\ \A i \in DOMAIN windows : \E k \in K : windows[i] = BucketWindow(k)
  <2>1. <<>> \in Seq(W) /\ DOMAIN <<>> = {}  OBVIOUS
  <2> QED  BY <1>3, <1>4, <2>1
<1>6. answer.code # "fresh" => windows = <<>>  BY <1>3
<1>7. /\ PrimaryWindows("antigravity", windows) \in Seq(W)
      /\ IdsDistinct(PrimaryWindows("antigravity", windows))
  <2> DEFINE five == ById(windows, <<"agy", "gemini", "5h">>)
             week == ById(windows, <<"agy", "gemini", "weekly">>)
             primary == five \o week
  <2> HIDE DEF windows
  <2>1. PrimaryWindows("antigravity", windows) = primary  BY SMTT(30) DEF PrimaryWindows
  <2>2. /\ five \in Seq(W)
        /\ five = <<>> \/ \E w : five = <<w>> /\ w.id = <<"agy", "gemini", "5h">>
    <3>1. /\ five \in Seq(W)
          /\ IsFirstWhere(five, windows,
                          {i \in DOMAIN windows : windows[i].id = <<"agy", "gemini", "5h">>})
      BY <1>5, FirstWithId, SMTT(30)
    <3> HIDE DEF five
    <3> QED  BY <3>1 DEF IsFirstWhere
  <2>3. /\ week \in Seq(W)
        /\ week = <<>> \/ \E w : week = <<w>> /\ w.id = <<"agy", "gemini", "weekly">>
    <3>1. /\ week \in Seq(W)
          /\ IsFirstWhere(week, windows,
                          {i \in DOMAIN windows : windows[i].id = <<"agy", "gemini", "weekly">>})
      BY <1>5, FirstWithId
    <3> HIDE DEF week
    <3> QED  BY <3>1 DEF IsFirstWhere
  <2> HIDE DEF five, week
  <2>5. \A p, q \in DOMAIN primary : primary[p].id = primary[q].id => p = q  BY <2>2, <2>3
  <2>6. primary \in Seq(W)  BY <2>2, <2>3
  <2> HIDE DEF primary
  <2> QED  BY <2>1, <2>5, <2>6 DEF IdsDistinct
<1>8. ShowsAll("antigravity", windows)
  <2> HIDE DEF windows
  <2>1. \A w : Shown("antigravity", w)  BY DEF Shown
  <2> QED  BY <1>5, <1>7, <2>1, AllOnCard
<1>9. ASSUME NEW i \in DOMAIN windows
      PROVE  \E g \in DOMAIN c.groups : \E b \in DOMAIN c.groups[g].buckets :
               Reports(c.groups[g], c.groups[g].buckets[b], windows[i])
  <2>1. PICK k \in K : windows[i] = BucketWindow(k)  BY <1>5
  <2>2. PICK g \in DOMAIN c.groups : \E b \in DOMAIN c.groups[g].buckets :
          /\ k.group = c.groups[g].name /\ k.bucket = c.groups[g].buckets[b]
          /\ k.group \in {"gemini", "claude-gpt"} /\ k.bucket.window \in {"weekly", "5h"}
    BY <2>1 DEF K, KnownIn
  <2>3. PICK b \in DOMAIN c.groups[g].buckets :
          /\ k.group = c.groups[g].name /\ k.bucket = c.groups[g].buckets[b]
          /\ k.group \in {"gemini", "claude-gpt"} /\ k.bucket.window \in {"weekly", "5h"}
    BY <2>2
  <2> HIDE DEF windows
  <2>4. Reports(c.groups[g], c.groups[g].buckets[b], windows[i])
    BY <2>1, <2>3 DEF Reports, BucketWindow, Window
  <2> QED  BY <2>4
<1> QED  BY <1>6, <1>8, <1>9 DEF answer

ScopeNames == {"5h", "fable", "all"}

\* What a panel of these lines may say of a scope.
PanelOf(lines) ==
    {w \in [scope : ScopeNames, used : Int, reset : Int \cup {NoReset}] :
        \E l \in DOMAIN lines : /\ lines[l].type = "percent" /\ lines[l].value \in 0..100
                                /\ w.used = Used(lines[l])}

\* Some of the lines, the first of which is a header.
IsBlock(block, lines) ==
    /\ Len(block) \in Nat /\ Len(block) >= 1 /\ DOMAIN block = 1 .. Len(block)
    /\ \A j \in DOMAIN block : \E l \in DOMAIN lines : block[j] = lines[l]
    /\ block[1].type = "header"

LEMMA BlocksAre ==
  ASSUME NEW lines \in Seq(ScreenLine)
  PROVE  /\ Blocks(lines) \in Seq(Seq(ScreenLine))
         /\ \A h \in DOMAIN Blocks(lines) : IsBlock(Blocks(lines)[h], lines)
<1> DEFINE places == [i \in DOMAIN lines |-> i]
           headers == {i \in DOMAIN lines : lines[i].type = "header"}
           at == Sift(places, headers)
           next(h) == IF h < Len(at) THEN at[h + 1] - 1 ELSE Len(lines)
           block(h) == SubSeq(lines, at[h], next(h))
<1>1. Blocks(lines) = [h \in DOMAIN at |-> block(h)]  BY DEF Blocks
<1>2. DOMAIN lines = 1 .. Len(lines) /\ Len(lines) \in Nat  OBVIOUS
<1>3. places \in Seq(Nat) /\ DOMAIN places = DOMAIN lines
  <2>1. places \in [1 .. Len(lines) -> Nat]  OBVIOUS
  <2>2. DOMAIN places = DOMAIN lines  OBVIOUS
  <2> HIDE DEF places
  <2> QED  BY <1>2, <2>1, <2>2
<1>4. headers \in SUBSET (DOMAIN places)  BY <1>3
<1>5. at \in Seq(Nat) /\ \E pos : Picks(at, pos, places, headers)
  <2> HIDE DEF places, headers
  <2> QED  BY <1>3, <1>4, SiftPicks
<1> HIDE DEF at
<1>6. PICK pos : Picks(at, pos, places, headers)  BY <1>5
<1>7. Len(at) \in Nat /\ DOMAIN at = 1 .. Len(at)  BY <1>5
<1>8. \A h \in 1 .. Len(at) : at[h] = pos[h] /\ pos[h] \in headers
  <2>1. \A h \in 1 .. Len(at) : at[h] = places[pos[h]] /\ pos[h] \in headers
    <3> HIDE DEF places, headers
    <3> QED  BY <1>6 DEF Picks
  <2> QED  BY <1>4, <2>1
<1>9. \A h, k \in 1 .. Len(at) : h < k => at[h] < at[k]  BY <1>6, <1>8 DEF Picks
<1>10. ASSUME NEW h \in 1 .. Len(at) PROVE block(h) \in Seq(ScreenLine) /\ IsBlock(block(h), lines)
  <2> DEFINE a == at[h]
             b == next(h)
             s == SubSeq(lines, a, b)
  <2>1. a \in 1 .. Len(lines) /\ lines[a].type = "header"  BY <1>2, <1>8
  <2>2. b \in a .. Len(lines)
    <3>1. CASE h < Len(at)
      <4>1. h + 1 \in 1 .. Len(at)  BY <1>7, <3>1
      <4>2. a < at[h + 1]  BY <1>7, <1>9, <4>1
      <4>3. at[h + 1] \in 1 .. Len(lines)  BY <1>2, <1>8, <4>1
      <4> QED  BY <1>2, <2>1, <3>1, <4>2, <4>3
    <3>2. CASE ~(h < Len(at))  BY <1>2, <2>1, <3>2
    <3> QED  BY <3>1, <3>2
  <2> HIDE DEF a, b
  <2>3. /\ s \in Seq(ScreenLine) /\ Len(s) = b - a + 1 /\ DOMAIN s = 1 .. Len(s)
        /\ \A j \in 1 .. Len(s) : s[j] = lines[a + j - 1]
    BY <1>2, <2>1, <2>2
  <2>4. Len(s) \in Nat /\ Len(s) >= 1  BY <1>2, <2>1, <2>2, <2>3
  <2>5. \A j \in 1 .. Len(s) : a + j - 1 \in DOMAIN lines  BY <1>2, <2>1, <2>2, <2>3
  <2>6. s[1].type = "header"  BY <1>2, <2>1, <2>3, <2>4
  <2> HIDE DEF s
  <2>7. IsBlock(s, lines)  BY <2>3, <2>4, <2>5, <2>6 DEF IsBlock
  <2> QED  BY <2>3, <2>7 DEF s, a, b
<1> HIDE DEF block
<1> DEFINE r == [h \in DOMAIN at |-> block(h)]
<1>11. r \in [1 .. Len(at) -> Seq(ScreenLine)] /\ \A h \in DOMAIN r : IsBlock(r[h], lines)
  BY <1>7, <1>10
<1> HIDE DEF r
<1>12. r \in Seq(Seq(ScreenLine))  BY <1>7, <1>11
<1> QED  BY <1>1, <1>11, <1>12 DEF r

\* The percentage of a block is that of one of its lines, if it has one.
LEMMA PercentIsOfLine ==
  ASSUME NEW lines \in Seq(ScreenLine), NEW block, IsBlock(block, lines),
         PercentOf(block) # NoPercent
  PROVE  /\ PercentOf(block) \in Int
         /\ \E l \in DOMAIN lines : /\ lines[l].type = "percent" /\ lines[l].value \in 0..100
                                    /\ PercentOf(block) = Used(lines[l])
<1> DEFINE all == Percentages(block)
           explicit == {i \in all : block[i].word # "none"}
<1>1. all \in SUBSET Nat /\ explicit \in SUBSET Nat  BY DEF Percentages, IsBlock
<1>2. \E i \in all : PercentOf(block) = Used(block[i])
  <2>1. CASE explicit # {}
    <3>1. FirstOf(explicit) \in explicit
      <4> HIDE DEF explicit
      <4> QED  BY <1>1, <2>1, FirstOfPlaces
    <3>2. PercentOf(block) = Used(block[FirstOf(explicit)])  BY <2>1 DEF PercentOf
    <3> QED  BY <3>1, <3>2
  <2>2. CASE explicit = {}
    <3>1. all # {} /\ PercentOf(block) = Used(block[FirstOf(all)])  BY <2>2 DEF PercentOf
    <3>2. FirstOf(all) \in all
      <4> HIDE DEF all
      <4> QED  BY <1>1, <3>1, FirstOfPlaces
    <3> QED  BY <3>1, <3>2
  <2> QED  BY <2>1, <2>2
<1>3. PICK i \in all : PercentOf(block) = Used(block[i])  BY <1>2
<1>4. PICK l \in DOMAIN lines : block[i] = lines[l]  BY <1>3 DEF Percentages, IsBlock
<1>5. lines[l].type = "percent" /\ lines[l].value \in 0..100  BY <1>3, <1>4 DEF Percentages
<1>6. Used(lines[l]) \in Int
  <2> DEFINE v == lines[l].value
  <2>0. v \in 0 .. 100  BY <1>5
  <2>2. Used(lines[l]) = 100 - v \/ Used(lines[l]) = v  BY DEF Used
  <2> HIDE DEF v
  <2>1. v \in Int  BY <2>0
  <2> QED  BY <2>1, <2>2
<1> QED  BY <1>3, <1>4, <1>5, <1>6

LEMMA ResetIsTyped ==
  ASSUME NEW lines \in Seq(ScreenLine), NEW block, IsBlock(block, lines)
  PROVE  ResetOf(block) \in Int \cup {NoReset}
<1> DEFINE resets == {i \in DOMAIN block : block[i].reset # <<>>}
<1>1. resets \in SUBSET Nat  BY DEF IsBlock
<1>2. CASE resets = {}  BY <1>2 DEF ResetOf
<1>3. CASE resets # {}
  <2>1. FirstOf(resets) \in resets
    <3> HIDE DEF resets
    <3> QED  BY <1>1, <1>3, FirstOfPlaces
  <2>2. PICK l \in DOMAIN lines : block[FirstOf(resets)] = lines[l]  BY <2>1 DEF IsBlock
  <2>3. lines[l] \in ScreenLine /\ lines[l].reset # <<>>  BY <2>1, <2>2
  <2>4. lines[l].reset[1] \in Int \cup {NoReset}
    <3>1. /\ lines[l].reset \in Seq(Int \cup {NoReset}) /\ Len(lines[l].reset) <= 1
      BY <2>3 DEF ScreenLine, Reset
    <3> QED  BY <2>3, <3>1
  <2>5. ResetOf(block) = block[FirstOf(resets)].reset[1]  BY <1>3 DEF ResetOf
  <2> QED  BY <2>2, <2>4, <2>5
<1> QED  BY <1>2, <1>3

\* Every block that is read says something of a scope.
LEMMA ParsedTyped ==
  ASSUME NEW lines \in Seq(ScreenLine)
  PROVE  Parsed(lines) \in Seq(PanelOf(lines))
<1> DEFINE blocks == Blocks(lines)
           I == {b \in DOMAIN blocks : PercentOf(blocks[b]) # NoPercent}
           read == Sift(blocks, I)
           window(b) == [scope |-> read[b][1].scope, used |-> PercentOf(read[b]),
                         reset |-> ResetOf(read[b])]
           W == PanelOf(lines)
<1>1. blocks \in Seq(Seq(ScreenLine)) /\ \A h \in DOMAIN blocks : IsBlock(blocks[h], lines)
  BY BlocksAre
<1>2. I \in SUBSET (DOMAIN blocks)  OBVIOUS
<1>3. Parsed(lines) = [b \in DOMAIN read |-> window(b)]  BY DEF Parsed
<1> HIDE DEF blocks
<1>4. read \in Seq(Seq(ScreenLine)) /\ \E at : Picks(read, at, blocks, I)
  <2> HIDE DEF I
  <2> QED  BY <1>1, <1>2, SiftPicks
<1>5. PICK at : Picks(read, at, blocks, I)  BY <1>4
<1> HIDE DEF read
<1>6. DOMAIN read = 1 .. Len(read) /\ Len(read) \in Nat  BY <1>4
<1>7. ASSUME NEW b \in 1 .. Len(read) PROVE window(b) \in W
  <2> DEFINE block == read[b]
  <2>1. at[b] \in I /\ block = blocks[at[b]]
    <3> HIDE DEF I
    <3> QED  BY <1>5 DEF Picks
  <2>2. IsBlock(block, lines) /\ PercentOf(block) # NoPercent  BY <1>1, <2>1
  <2> HIDE DEF block
  <2>3. PICK l \in DOMAIN lines : block[1] = lines[l]  BY <2>2 DEF IsBlock
  <2>4. lines[l] \in ScreenLine /\ lines[l].type = "header"  BY <2>2, <2>3 DEF IsBlock
  <2>5. block[1].scope \in ScopeNames  BY <2>3, <2>4 DEF ScreenLine, ScopeNames
  <2> DEFINE w == window(b)
  <2>6. /\ w.scope = block[1].scope /\ w.used = PercentOf(block) /\ w.reset = ResetOf(block)
        /\ w = [scope |-> w.scope, used |-> w.used, reset |-> w.reset]
    BY DEF block
  <2> HIDE DEF w
  <2>7. w.used \in Int /\ \E j \in DOMAIN lines :
           /\ lines[j].type = "percent" /\ lines[j].value \in 0..100
           /\ w.used = Used(lines[j])
    BY <2>2, <2>6, PercentIsOfLine
  <2>8. w.reset \in Int \cup {NoReset}  BY <2>2, <2>6, ResetIsTyped
  <2>9. w \in [scope : ScopeNames, used : Int, reset : Int \cup {NoReset}]
    BY <2>5, <2>6, <2>7, <2>8
  <2>10. w \in W  BY <2>7, <2>9 DEF PanelOf
  <2> QED  BY <2>10 DEF w
<1> HIDE DEF window, W
<1> DEFINE r == [b \in DOMAIN read |-> window(b)]
<1>8. r \in [1 .. Len(read) -> W]  BY <1>6, <1>7
<1> HIDE DEF r
<1>9. r \in Seq(W)  BY <1>6, <1>8
<1> QED  BY <1>3, <1>9 DEF r, W

\* Of the first i panels, b says most of a scope: the last with a reset, or the last.
IsBest(ps, i, scope, b) ==
    /\ b \in 1 .. i /\ ps[b].scope = scope
    /\ \A c \in 1 .. i : ps[c].scope = scope =>
         IF ps[b].reset # NoReset THEN ps[c].reset # NoReset => c <= b
         ELSE ps[c].reset = NoReset /\ c <= b

\* The windows kept of the first i panels: the best of every scope, once.
Kept(r, ps, i) ==
    /\ \A k, l \in DOMAIN r : r[k].scope = r[l].scope => k = l
    /\ \A k \in DOMAIN r : \E b : IsBest(ps, i, r[k].scope, b) /\ r[k] = ps[b]
    /\ \A b \in 1 .. i : \E k \in DOMAIN r : r[k].scope = ps[b].scope

LEMMA MergedTyped ==
  ASSUME NEW W, NEW r \in Seq(W), NEW w \in W
  PROVE  Merged(r, w) \in Seq(W)
<1> DEFINE t == [k \in DOMAIN r |-> IF r[k].scope = w.scope /\ Replaces(w, r[k]) THEN w ELSE r[k]]
<1>1. t \in [1 .. Len(r) -> W] /\ Len(r) \in Nat  OBVIOUS
<1> HIDE DEF t
<1>2. t \in Seq(W)  BY <1>1
<1>3. Append(r, w) \in Seq(W)  OBVIOUS
<1> QED  BY <1>2, <1>3 DEF Merged, t

\* One panel more.
LEMMA MergedKeeps ==
  ASSUME NEW W, NEW ps \in Seq(W), NEW r \in Seq(W), NEW i \in 1 .. Len(ps), Kept(r, ps, i - 1)
  PROVE  Kept(Merged(r, ps[i]), ps, i)
<1> DEFINE w == ps[i]
           t == Merged(r, w)
           n == Len(r)
<1>1. i \in Nat /\ i >= 1 /\ n \in Nat /\ DOMAIN r = 1 .. n  OBVIOUS
<1>2. ASSUME NEW scope, NEW b, IsBest(ps, i - 1, scope, b), scope # w.scope
      PROVE  IsBest(ps, i, scope, b)
  BY <1>1, <1>2 DEF IsBest
<1>3. CASE \A k \in DOMAIN r : r[k].scope # w.scope
  <2>1. t = Append(r, w)  BY <1>3 DEF Merged
  <2>2. /\ DOMAIN t = 1 .. n + 1 /\ t[n + 1] = w
        /\ \A k \in 1 .. n : t[k] = r[k]
    BY <2>1
  <2> HIDE DEF t, n
  <2>3. \A b \in 1 .. i - 1 : ps[b].scope # w.scope  BY <1>3 DEF Kept
  <2> HIDE DEF w
  <2>4. IsBest(ps, i, w.scope, i)  BY <1>1, <2>3 DEF IsBest, w
  <2>5. ASSUME NEW k \in DOMAIN t, NEW l \in DOMAIN t, t[k].scope = t[l].scope PROVE k = l
    BY <1>1, <1>3, <2>2, <2>5 DEF Kept
  <2>6. ASSUME NEW k \in DOMAIN t PROVE \E b : IsBest(ps, i, t[k].scope, b) /\ t[k] = ps[b]
    <3>1. CASE k = n + 1  BY <2>2, <2>4, <3>1 DEF w
    <3>2. CASE k # n + 1
      <4>1. k \in DOMAIN r /\ t[k] = r[k]  BY <1>1, <2>2, <3>2
      <4>2. PICK b : IsBest(ps, i - 1, r[k].scope, b) /\ r[k] = ps[b]  BY <4>1 DEF Kept
      <4>3. IsBest(ps, i, r[k].scope, b)  BY <1>2, <1>3, <4>1, <4>2
      <4> QED  BY <4>1, <4>2, <4>3
    <3> QED  BY <3>1, <3>2
  <2>7. ASSUME NEW b \in 1 .. i PROVE \E k \in DOMAIN t : t[k].scope = ps[b].scope
    <3>1. CASE b = i
      <4>1. n + 1 \in DOMAIN t  BY <1>1, <2>2
      <4> QED  BY <2>2, <3>1, <4>1 DEF w
    <3>2. CASE b # i
      <4>1. b \in 1 .. i - 1  BY <1>1, <3>2
      <4>2. PICK k \in DOMAIN r : r[k].scope = ps[b].scope  BY <4>1 DEF Kept
      <4>3. k \in DOMAIN t /\ t[k] = r[k]  BY <1>1, <2>2
      <4> QED  BY <4>2, <4>3
    <3> QED  BY <3>1, <3>2
  <2> QED  BY <2>5, <2>6, <2>7 DEF Kept, t, w
<1>4. CASE \E k \in DOMAIN r : r[k].scope = w.scope
  <2> DEFINE u(k) == IF r[k].scope = w.scope /\ Replaces(w, r[k]) THEN w ELSE r[k]
  <2>1. t = [k \in DOMAIN r |-> u(k)]  BY <1>4 DEF Merged
  <2>2. DOMAIN t = DOMAIN r /\ \A k \in DOMAIN r : t[k] = u(k) /\ t[k].scope = r[k].scope
    BY <2>1
  <2> HIDE DEF t, n, w
  <2>3. ASSUME NEW k \in DOMAIN t PROVE \E b : IsBest(ps, i, t[k].scope, b) /\ t[k] = ps[b]
    <3>1. k \in DOMAIN r /\ t[k] = u(k) /\ t[k].scope = r[k].scope  BY <2>2
    <3>2. PICK b : IsBest(ps, i - 1, r[k].scope, b) /\ r[k] = ps[b]  BY <3>1 DEF Kept
    <3>3. CASE r[k].scope # w.scope
      <4>1. IsBest(ps, i, r[k].scope, b)  BY <1>2, <3>2, <3>3
      <4> QED  BY <3>1, <3>2, <3>3, <4>1
    <3>4. CASE r[k].scope = w.scope /\ Replaces(w, r[k])
      <4>1. w.reset # NoReset \/ ps[b].reset = NoReset  BY <3>2, <3>4 DEF Replaces
      <4>2. IsBest(ps, i, w.scope, i)
        BY <1>1, <3>2, <3>4, <4>1 DEF IsBest, w
      <4> QED  BY <3>1, <3>4, <4>2 DEF w
    <3>5. CASE r[k].scope = w.scope /\ ~Replaces(w, r[k])
      <4>1. w.reset = NoReset /\ ps[b].reset # NoReset  BY <3>2, <3>5 DEF Replaces
      <4>2. IsBest(ps, i, r[k].scope, b)
        BY <1>1, <3>2, <3>5, <4>1 DEF IsBest, w
      <4> QED  BY <3>1, <3>2, <3>5, <4>2
    <3> QED  BY <3>3, <3>4, <3>5
  <2>4. ASSUME NEW b \in 1 .. i PROVE \E k \in DOMAIN t : t[k].scope = ps[b].scope
    <3>1. \E k \in DOMAIN r : r[k].scope = ps[b].scope
      <4>1. CASE b = i  BY <1>4, <4>1 DEF w
      <4>2. CASE b # i
        <5>1. b \in 1 .. i - 1  BY <1>1, <4>2
        <5> QED  BY <5>1 DEF Kept
      <4> QED  BY <4>1, <4>2
    <3> QED  BY <2>2, <3>1
  <2>5. \A k, l \in DOMAIN t : t[k].scope = t[l].scope => k = l  BY <2>2 DEF Kept
  <2> QED  BY <2>3, <2>4, <2>5 DEF Kept, t, w
<1> QED  BY <1>3, <1>4

LEMMA UniqueKeeps ==
  ASSUME NEW W, NEW ps \in Seq(W)
  PROVE  Unique(ps) \in Seq(W) /\ Kept(Unique(ps), ps, Len(ps))
<1> DEFINE n == Len(ps)
           S == Seq(W)
           After(r, i) == Merged(r, ps[i])
           step == [p \in (1 .. n) \X S |-> After(p[2], p[1])]
           Fold(f) == f = [i \in 0 .. n |-> IF i = 0 THEN <<>> ELSE After(f[i - 1], i)]
<1>0. n \in Nat /\ \A i \in 1 .. n : ps[i] \in W  OBVIOUS
<1>1. \A r \in S, i \in 1 .. n : After(r, i) \in S
  <2> HIDE DEF n
  <2> QED  BY <1>0, MergedTyped
<1>2. step \in [(1 .. n) \X S -> S]
  <2> HIDE DEF After, S
  <2> QED  BY <1>1
<1>3. <<>> \in S  OBVIOUS
<1>4. PICK f : Folded(f, S, <<>>, n, step)
  <2> HIDE DEF step, n, S
  <2> QED  BY <1>0, <1>2, <1>3, FoldExists
<1> HIDE DEF n, S
<1>5. f \in [0 .. n -> S] /\ f[0] = <<>> /\ \A i \in 1 .. n : f[i - 1] \in S
  <2> HIDE DEF step
  <2> QED  BY <1>0, <1>4 DEF Folded
<1>6. Fold(f)
  <2> HIDE DEF After
  <2>1. \A i \in 1 .. n : f[i] = After(f[i - 1], i)  BY <1>4, <1>5 DEF Folded
  <2>2. f = [i \in 0 .. n |-> f[i]]  BY <1>5
  <2>3. \A i \in 0 .. n : f[i] = IF i = 0 THEN <<>> ELSE After(f[i - 1], i)
    BY <1>0, <1>5, <2>1
  <2> QED  BY <2>2, <2>3
<1>7. PICK g : Fold(g) /\ Unique(ps) = g[n]
  <2> DEFINE c == CHOOSE g : Fold(g)
  <2>1. Unique(ps) = c[n]  BY DEF Unique, n
  <2> HIDE DEF Fold
  <2>2. Fold(c)  BY <1>6
  <2> HIDE DEF c
  <2> QED  BY <2>1, <2>2
<1>8. g[0] = <<>> /\ \A i \in 1 .. n : g[i] = After(g[i - 1], i)
  <2> HIDE DEF After
  <2> QED  BY <1>0, <1>7
<1> DEFINE P == {i \in 0 .. n : g[i] \in S /\ Kept(g[i], ps, i)}
<1>9. 0 \in P
  <2>1. Kept(<<>>, ps, 0)  BY DEF Kept
  <2> QED  BY <1>0, <1>3, <1>8, <2>1
<1>10. \A i \in 1 .. n : i - 1 \in P => i \in P
  <2> SUFFICES ASSUME NEW i \in 1 .. n, i - 1 \in P PROVE i \in P  OBVIOUS
  <2>1. i \in 0 .. n /\ g[i - 1] \in Seq(W) /\ Kept(g[i - 1], ps, i - 1) /\ i \in 1 .. Len(ps)
    BY <1>0 DEF S, n
  <2>2. g[i] = Merged(g[i - 1], ps[i])  BY <1>8
  <2>3. ps[i] \in W  BY <1>0
  <2>4. g[i] \in S  BY <2>1, <2>2, <2>3, MergedTyped DEF S
  <2>5. Kept(g[i], ps, i)  BY <2>1, <2>2, MergedKeeps
  <2> QED  BY <2>1, <2>4, <2>5
<1>11. \A i \in 0 .. n : i \in P
  <2> HIDE DEF P
  <2> QED  BY <1>0, <1>9, <1>10, IndexInduction
<1>12. n \in P
  <2> HIDE DEF P
  <2> QED  BY <1>0, <1>11
<1> QED  BY <1>7, <1>12 DEF S, n

\* Sifting out what one place has.
LEMMA SiftNoneOrOne ==
  ASSUME NEW D, NEW s \in Seq(D), NEW I \in SUBSET (DOMAIN s), \A i, j \in I : i = j
  PROVE  \/ I = {} /\ Sift(s, I) = <<>>
         \/ \E i \in I : Sift(s, I) = <<s[i]>>
<1> DEFINE r == Sift(s, I)
<1>1. r \in Seq(D) /\ \E at : Picks(r, at, s, I)  BY SiftPicks
<1> HIDE DEF r
<1>2. PICK at : Picks(r, at, s, I)  BY <1>1
<1>3. Len(r) \in Nat /\ DOMAIN r = 1 .. Len(r)  BY <1>1
<1>4. /\ \A k \in 1 .. Len(r) : at[k] \in I /\ r[k] = s[at[k]]
      /\ \A i \in I : \E k \in 1 .. Len(r) : at[k] = i
      /\ \A k, l \in 1 .. Len(r) : k < l => at[k] < at[l]
  BY <1>2 DEF Picks
<1>5. Len(r) <= 1
  <2> SUFFICES ASSUME Len(r) >= 2 PROVE FALSE  BY <1>3
  <2>1. 1 \in 1 .. Len(r) /\ 2 \in 1 .. Len(r)  BY <1>3
  <2>2. at[1] = at[2] /\ at[1] < at[2] /\ at[1] \in I  BY <1>4, <2>1
  <2>3. at[1] \in Nat  BY <2>2
  <2> QED  BY <2>2, <2>3
<1>6. CASE Len(r) = 0
  <2>1. I = {} /\ r = <<>>  BY <1>1, <1>4, <1>6
  <2> QED  BY <2>1 DEF r
<1>7. CASE Len(r) = 1
  <2>1. r = <<r[1]>> /\ at[1] \in I /\ r[1] = s[at[1]]  BY <1>1, <1>4, <1>7
  <2> QED  BY <2>1 DEF r
<1> QED  BY <1>3, <1>5, <1>6, <1>7

IsOneOfThree(t, k, a, b, c) ==
    \/ Len(a) = 1 /\ k = 1 /\ t[k] = a[1]
    \/ Len(b) = 1 /\ k = Len(a) + 1 /\ t[k] = b[1]
    \/ Len(c) = 1 /\ k = Len(a) + Len(b) + 1 /\ t[k] = c[1]

\* Three sequences of at most one element, one after the other.
LEMMA ThreeAtMost ==
  ASSUME NEW D, NEW a \in Seq(D), NEW b \in Seq(D), NEW c \in Seq(D),
         Len(a) \in {0, 1}, Len(b) \in {0, 1}, Len(c) \in {0, 1}
  PROVE  LET t == a \o b \o c IN \A k \in DOMAIN t : IsOneOfThree(t, k, a, b, c)
<1> DEFINE t == a \o b \o c
           la == Len(a)
           lb == Len(b)
           lc == Len(c)
<1>1. /\ DOMAIN t = 1 .. (la + lb + lc)
      /\ \A k \in 1 .. la : t[k] = a[k]
      /\ \A k \in 1 .. lb : t[la + k] = b[k]
      /\ \A k \in 1 .. lc : t[la + lb + k] = c[k]
  OBVIOUS
<1>2. la \in {0, 1} /\ lb \in {0, 1} /\ lc \in {0, 1}  OBVIOUS
<1> HIDE DEF t, la, lb, lc
<1>3. ASSUME NEW k \in DOMAIN t
      PROVE  \/ la = 1 /\ k = 1 /\ t[k] = a[1]
             \/ lb = 1 /\ k = la + 1 /\ t[k] = b[1]
             \/ lc = 1 /\ k = la + lb + 1 /\ t[k] = c[1]
  <2>1. k \in 1 .. (la + lb + lc)  BY <1>1
  <2>2. CASE k <= la
    <3>1. la = 1 /\ k = 1 /\ 1 \in 1 .. la  BY <1>2, <2>1, <2>2
    <3> QED  BY <1>1, <3>1
  <2>3. CASE k > la /\ k <= la + lb
    <3>1. lb = 1 /\ k = la + 1 /\ 1 \in 1 .. lb  BY <1>2, <2>1, <2>3
    <3> QED  BY <1>1, <3>1
  <2>4. CASE k > la + lb
    <3>1. lc = 1 /\ k = la + lb + 1 /\ 1 \in 1 .. lc  BY <1>2, <2>1, <2>4
    <3> QED  BY <1>1, <3>1
  <2> QED  BY <1>2, <2>1, <2>2, <2>3, <2>4
<1> QED  BY <1>3 DEF IsOneOfThree, t, la, lb, lc

\* The windows of a screen are those of u, each scope once.
Sorted(t, u) ==
    /\ \A k, l \in DOMAIN t : t[k].scope = t[l].scope => k = l
    /\ \A k \in DOMAIN t : \E i \in DOMAIN u : t[k] = u[i]
    /\ \A i \in DOMAIN u : \E k \in DOMAIN t : t[k] = u[i]

LEMMA ScreenSorted ==
  ASSUME NEW lines \in Seq(ScreenLine)
  PROVE  LET W == PanelOf(lines)
             u == Unique(Parsed(lines))
         IN  UsageScreen(lines) \in Seq(W) /\ Sorted(UsageScreen(lines), u)
<1> DEFINE W == PanelOf(lines)
           ps == Parsed(lines)
           u == Unique(ps)
           I(scope) == {k \in DOMAIN u : u[k].scope = scope}
           Of(scope) == Sift(u, I(scope))
           t == UsageScreen(lines)
           One(s, scope) == \/ s = <<>> /\ I(scope) = {}
                            \/ \E i \in DOMAIN u : s = <<u[i]>> /\ u[i].scope = scope
<1>1. ps \in Seq(W)  BY ParsedTyped
<1>2. u \in Seq(W) /\ \A k, l \in DOMAIN u : u[k].scope = u[l].scope => k = l
  <2> HIDE DEF ps, W
  <2> QED  BY <1>1, UniqueKeeps DEF Kept
<1>3. t = Of("5h") \o Of("fable") \o Of("all")  BY DEF UsageScreen, Scopes
<1> HIDE DEF u
<1>4. ASSUME NEW scope PROVE Of(scope) \in Seq(W) /\ One(Of(scope), scope)
  <2> DEFINE J == I(scope)
  <2>1. J \in SUBSET (DOMAIN u) /\ \A i, j \in J : i = j  BY <1>2
  <2>2. Sift(u, J) \in Seq(W)
    <3> HIDE DEF J
    <3> QED  BY <1>2, <2>1, SiftPicks
  <2>3. \/ J = {} /\ Sift(u, J) = <<>>
        \/ \E i \in J : Sift(u, J) = <<u[i]>>
    <3> HIDE DEF J
    <3> QED  BY <1>2, <2>1, SiftNoneOrOne
  <2> QED  BY <2>2, <2>3
<1> DEFINE a == Of("5h")
           b == Of("fable")
           c == Of("all")
<1>5. /\ a \in Seq(W) /\ b \in Seq(W) /\ c \in Seq(W)
      /\ One(a, "5h") /\ One(b, "fable") /\ One(c, "all")
  BY <1>4
<1>6. t = a \o b \o c  BY <1>3
<1>7. \A i \in DOMAIN u : u[i].scope \in ScopeNames
  <2>1. \A i \in DOMAIN u : u[i] \in W  BY <1>2
  <2> QED  BY <2>1 DEF PanelOf
<1>8. \A i \in DOMAIN u : i \in I("5h") \/ i \in I("fable") \/ i \in I("all")
  BY <1>7 DEF ScopeNames
<1> HIDE DEF a, b, c, t, W
<1>9. t \in Seq(W)  BY <1>5, <1>6
<1>p. ASSUME NEW s \in Seq(W), NEW scope, One(s, scope)
      PROVE  /\ Len(s) \in {0, 1}
             /\ Len(s) = 1 => s[1].scope = scope /\ \E i \in DOMAIN u : s[1] = u[i]
  <2> HIDE DEF I
  <2> QED  BY <1>p
<1>q. /\ Len(a) \in {0, 1} /\ Len(b) \in {0, 1} /\ Len(c) \in {0, 1}
      /\ Len(a) = 1 => a[1].scope = "5h" /\ \E i \in DOMAIN u : a[1] = u[i]
      /\ Len(b) = 1 => b[1].scope = "fable" /\ \E i \in DOMAIN u : b[1] = u[i]
      /\ Len(c) = 1 => c[1].scope = "all" /\ \E i \in DOMAIN u : c[1] = u[i]
  <2> HIDE DEF One
  <2> QED  BY <1>5, <1>p
<1>r. \A k \in DOMAIN t : IsOneOfThree(t, k, a, b, c)
  <2> HIDE DEF One
  <2> QED  BY <1>5, <1>6, <1>q, ThreeAtMost
<1>10. \A k \in DOMAIN t : \E i \in DOMAIN u : t[k] = u[i]
  <2> HIDE DEF One
  <2> QED  BY <1>q, <1>r DEF IsOneOfThree
<1>11. \A k, l \in DOMAIN t : t[k].scope = t[l].scope => k = l
  <2> HIDE DEF One
  <2> QED  BY <1>q, <1>r DEF IsOneOfThree
<1>12. ASSUME NEW i \in DOMAIN u PROVE \E k \in DOMAIN t : t[k] = u[i]
  <2>1. ASSUME NEW s, NEW scope, One(s, scope), i \in I(scope) PROVE s = <<u[i]>>
    BY <1>2, <2>1
  <2> HIDE DEF I, One
  <2>2. CASE i \in I("5h")
    <3>1. a = <<u[i]>>  BY <1>5, <2>1, <2>2
    <3>2. 1 \in DOMAIN t /\ t[1] = u[i]  BY <1>5, <1>6, <3>1
    <3> QED  BY <3>2
  <2>3. CASE i \in I("fable")
    <3>1. b = <<u[i]>>  BY <1>5, <2>1, <2>3
    <3>2. Len(a) + 1 \in DOMAIN t /\ t[Len(a) + 1] = u[i]  BY <1>5, <1>6, <3>1
    <3> QED  BY <3>2
  <2>4. CASE i \in I("all")
    <3>1. c = <<u[i]>>  BY <1>5, <2>1, <2>4
    <3>2. /\ Len(a) + Len(b) + 1 \in DOMAIN t
          /\ t[Len(a) + Len(b) + 1] = u[i]
      BY <1>5, <1>6, <3>1
    <3> QED  BY <3>2
  <2> QED  BY <1>8, <2>2, <2>3, <2>4
<1> QED  BY <1>9, <1>10, <1>11, <1>12 DEF Sorted, t, u, W

\* Of the scope's panels the best is among the windows, in the words of the property.
BestShown(t, ps, scope) ==
    LET of == {b \in DOMAIN ps : ps[b].scope = scope}
        timed == {b \in of : ps[b].reset # NoReset}
        best == IF timed # {} THEN timed ELSE of
    IN  IF of = {} THEN \A k \in DOMAIN t : t[k].scope # scope
        ELSE \E i \in DOMAIN t, b \in best : t[i] = ps[b] /\ \A c \in best : c <= b

LEMMA BestIsShown ==
  ASSUME NEW W, NEW ps \in Seq(W), NEW u \in Seq(W), NEW t \in Seq(W), NEW scope,
         Kept(u, ps, Len(ps)), Sorted(t, u)
  PROVE  BestShown(t, ps, scope)
<1> DEFINE of == {b \in DOMAIN ps : ps[b].scope = scope}
           timed == {b \in of : ps[b].reset # NoReset}
           best == IF timed # {} THEN timed ELSE of
           Shows == IF of = {} THEN \A k \in DOMAIN t : t[k].scope # scope
                    ELSE \E i \in DOMAIN t, d \in best : t[i] = ps[d] /\ \A c \in best : c <= d
<1>1. DOMAIN ps = 1 .. Len(ps) /\ Len(ps) \in Nat  OBVIOUS
<1>2. \A k \in DOMAIN u : \E b : IsBest(ps, Len(ps), u[k].scope, b) /\ u[k] = ps[b]
  BY DEF Kept
<1> SUFFICES Shows  BY DEF BestShown
<1>3. CASE of = {}
  <2> SUFFICES ASSUME NEW k \in DOMAIN t, t[k].scope = scope PROVE FALSE  BY <1>3
  <2>1. PICK i \in DOMAIN u : t[k] = u[i]  BY DEF Sorted
  <2>2. PICK b : IsBest(ps, Len(ps), u[i].scope, b) /\ u[i] = ps[b]  BY <1>2
  <2>3. b \in of  BY <1>1, <2>1, <2>2 DEF IsBest
  <2> QED  BY <1>3, <2>3
<1>4. CASE of # {}
  <2>1. PICK x \in DOMAIN ps : ps[x].scope = scope  BY <1>4
  <2>2. PICK k \in DOMAIN u : u[k].scope = scope  BY <1>1, <2>1 DEF Kept
  <2>3. PICK b : IsBest(ps, Len(ps), scope, b) /\ u[k] = ps[b]  BY <1>2, <2>2
  <2>4. PICK i \in DOMAIN t : t[i] = ps[b]  BY <2>3 DEF Sorted
  <2>5. b \in best /\ \A c \in best : c <= b  BY <1>1, <2>3 DEF IsBest
  <2> HIDE DEF best
  <2>6. \E j \in DOMAIN t, d \in best : t[j] = ps[d] /\ \A c \in best : c <= d
    BY <2>4, <2>5
  <2> QED  BY <1>4, <2>6 DEF best
<1> QED  BY <1>3, <1>4

LEMMA ListIsSeq ==
  ASSUME NEW S, NEW n \in Nat, NEW f \in [1 .. n -> S]
  PROVE  f \in Seq(S)
OBVIOUS

LEMMA FirstWhereHas ==
  ASSUME NEW r, NEW s, NEW I, IsFirstWhere(r, s, I)
  PROVE  Len(r) \in {0, 1} /\ (Len(r) = 1 => \E i \in I : r[1] = s[i])
<1>1. CASE r = <<>>  BY <1>1
<1>2. CASE I # {} /\ FirstOf(I) \in I /\ r = <<s[FirstOf(I)]>>
  <2>1. Len(r) = 1 /\ r[1] = s[FirstOf(I)]  BY <1>2
  <2> QED  BY <1>2, <2>1
<1> QED  BY <1>1, <1>2 DEF IsFirstWhere

LEMMA StartIsPrefix ==
  ASSUME NEW D, NEW a \in Seq(D), NEW b \in Seq(D)
  PROVE  IsPrefix(a, a \o b)
<1>1. /\ a \o b \in Seq(D) /\ Len(a) <= Len(a \o b)
      /\ \A i \in 1 .. Len(a) : a[i] = (a \o b)[i]
  OBVIOUS
<1> DEFINE t == a \o b
<1> HIDE DEF t
<1>2. IsPrefix(a, t)  BY <1>1, PrefixByPlaces DEF t
<1> QED  BY <1>2 DEF t

\* Claude: of every scope the window of the best panel, with the percentage of a
\* line, and on the card once (claude.rs:867-1171).
LEMMA ScreenIsSound ==
  ASSUME NEW lines \in Seq(ScreenLine)
  PROVE  LET windows == UsageScreen(lines)
             blocks == Parsed(lines)
             of(scope) == {b \in DOMAIN blocks : blocks[b].scope = scope}
             timed(scope) == {b \in of(scope) : blocks[b].reset # NoReset}
             best(scope) == IF timed(scope) # {} THEN timed(scope) ELSE of(scope)
             as == ClaudeWindows(windows, KindOf)
         IN  /\ \A scope \in {"5h", "fable", "all"} :
                  IF of(scope) = {}
                  THEN \A i \in DOMAIN as : as[i].id # <<"claude", scope>>
                  ELSE \E i \in DOMAIN windows, b \in best(scope) :
                         windows[i] = blocks[b] /\ \A c \in best(scope) : c <= b
             /\ \A i \in DOMAIN windows : \E l \in DOMAIN lines :
                  /\ lines[l].type = "percent" /\ lines[l].value \in 0..100
                  /\ windows[i].used = Used(lines[l])
             /\ ShowsAll("claude", as) /\ CompactAgrees("claude", as)
<1> DEFINE W == PanelOf(lines)
           blocks == Parsed(lines)
           u == Unique(blocks)
           windows == UsageScreen(lines)
           of(scope) == {b \in DOMAIN blocks : blocks[b].scope = scope}
           timed(scope) == {b \in of(scope) : blocks[b].reset # NoReset}
           best(scope) == IF timed(scope) # {} THEN timed(scope) ELSE of(scope)
           ws == ClaudeWindows(windows, KindOf)
           Best(scope) == IF of(scope) = {} THEN \A k \in DOMAIN windows : windows[k].scope # scope
                          ELSE \E i \in DOMAIN windows, b \in best(scope) :
                                 windows[i] = blocks[b] /\ \A c \in best(scope) : c <= b
<1>1. blocks \in Seq(W)  BY ParsedTyped
<1>2. u \in Seq(W) /\ Kept(u, blocks, Len(blocks))
  <2> HIDE DEF blocks, W
  <2> QED  BY <1>1, UniqueKeeps
<1>3. windows \in Seq(W) /\ Sorted(windows, u)  BY ScreenSorted
<1> HIDE DEF W, blocks, u, windows
<1>4. ASSUME NEW scope PROVE Best(scope)
  <2>1. BestShown(windows, blocks, scope)  BY <1>1, <1>2, <1>3, BestIsShown
  <2> QED  BY <2>1 DEF BestShown
<1>5. \A i \in DOMAIN windows : /\ windows[i] \in W /\ windows[i].scope \in ScopeNames
                                /\ \E l \in DOMAIN lines :
                                     /\ lines[l].type = "percent" /\ lines[l].value \in 0..100
                                     /\ windows[i].used = Used(lines[l])
  <2> SUFFICES ASSUME NEW i \in DOMAIN windows
               PROVE  /\ windows[i] \in W /\ windows[i].scope \in ScopeNames
                      /\ \E l \in DOMAIN lines :
                                     /\ lines[l].type = "percent" /\ lines[l].value \in 0..100
                                     /\ windows[i].used = Used(lines[l])
    OBVIOUS
  <2>1. windows[i] \in W  BY <1>3
  <2> HIDE DEF windows
  <2> QED  BY <2>1 DEF W, PanelOf
<1> DEFINE w(i) == Window(<<"claude", windows[i].scope>>, KindOf[windows[i].scope], windows[i].used)
           V == {w(i) : i \in DOMAIN windows}
<1>6. ws = [i \in DOMAIN windows |-> w(i)]  BY DEF ClaudeWindows
<1>7. DOMAIN windows = 1 .. Len(windows) /\ Len(windows) \in Nat  BY <1>3
<1>8. ws \in [1 .. Len(windows) -> V]  BY <1>6, <1>7
<1>9. DOMAIN ws = DOMAIN windows /\ \A i \in DOMAIN ws : ws[i] = w(i)  BY <1>6
<1> HIDE DEF ws, V
<1>10. ws \in Seq(V)
  <2> DEFINE n == Len(windows)
  <2>1. n \in Nat /\ ws \in [1 .. n -> V]  BY <1>7, <1>8
  <2> HIDE DEF n
  <2> QED  BY <2>1, ListIsSeq
<1>11. \A i \in DOMAIN ws : /\ ws[i].id = <<"claude", windows[i].scope>>
                            /\ ws[i].kind = KindOf[windows[i].scope]
  <2> SUFFICES ASSUME NEW i \in DOMAIN ws
               PROVE  /\ ws[i].id = <<"claude", windows[i].scope>>
                      /\ ws[i].kind = KindOf[windows[i].scope]
    OBVIOUS
  <2>1. ws[i] = w(i)  BY <1>9
  <2> QED  BY <2>1 DEF Window
<1>12. \A i, j \in DOMAIN ws : ws[i].id = ws[j].id => i = j
  <2> SUFFICES ASSUME NEW i \in DOMAIN ws, NEW j \in DOMAIN ws, ws[i].id = ws[j].id PROVE i = j
    OBVIOUS
  <2>1. <<"claude", windows[i].scope>> = <<"claude", windows[j].scope>>  BY <1>11
  <2>2. windows[i].scope = windows[j].scope  BY <2>1
  <2> QED  BY <1>3, <1>9, <2>2 DEF Sorted
<1>13. ASSUME NEW scope \in ScopeNames, of(scope) = {}
       PROVE  \A i \in DOMAIN ws : ws[i].id # <<"claude", scope>>
  <2>1. \A k \in DOMAIN windows : windows[k].scope # scope  BY <1>4, <1>13
  <2>2. \A k \in DOMAIN ws : ws[k].id # <<"claude", scope>>
    <3> SUFFICES ASSUME NEW k \in DOMAIN ws, ws[k].id = <<"claude", scope>> PROVE FALSE
      OBVIOUS
    <3>1. <<"claude", windows[k].scope>> = <<"claude", scope>>  BY <1>11
    <3>2. windows[k].scope = scope  BY <3>1
    <3> QED  BY <1>9, <2>1, <3>2
  <2> QED  BY <2>2
<1> DEFINE five == ByKind(ws, "FiveHour")
           week == ByKind(ws, "Weekly")
           fables == {i \in DOMAIN ws : Fable(ws[i])}
           fable == FirstWhere(ws, fables)
           primary == five \o week \o fable
<1>14. PrimaryWindows("claude", ws) = primary  BY DEF PrimaryWindows
<1>15. five \in Seq(V) /\ IsFirstWhere(five, ws, {i \in DOMAIN ws : ws[i].kind = "FiveHour"})
  BY <1>10, FirstOfKind
<1>16. week \in Seq(V) /\ IsFirstWhere(week, ws, {i \in DOMAIN ws : ws[i].kind = "Weekly"})
  BY <1>10, FirstOfKind
<1>17. fable \in Seq(V) /\ IsFirstWhere(fable, ws, fables)
  <2>1. fables \in SUBSET (DOMAIN ws)  OBVIOUS
  <2> HIDE DEF fables
  <2> QED  BY <1>10, <2>1, FirstWhereIs
<1> HIDE DEF five, week, fable
<1> DEFINE Has(s, kind) ==
             /\ Len(s) \in {0, 1}
             /\ Len(s) = 1 => s[1].kind = kind /\ \E i \in DOMAIN ws : s[1] = ws[i]
<1>18. Has(five, "FiveHour")
  <2> DEFINE I == {i \in DOMAIN ws : ws[i].kind = "FiveHour"}
  <2>1. Len(five) \in {0, 1} /\ (Len(five) = 1 => \E i \in I : five[1] = ws[i])
    <3> HIDE DEF I
    <3> QED  BY <1>15, FirstWhereHas DEF I
  <2> QED  BY <2>1
<1>19. Has(week, "Weekly")
  <2> DEFINE I == {i \in DOMAIN ws : ws[i].kind = "Weekly"}
  <2>1. Len(week) \in {0, 1} /\ (Len(week) = 1 => \E i \in I : week[1] = ws[i])
    <3> HIDE DEF I
    <3> QED  BY <1>16, FirstWhereHas DEF I
  <2> QED  BY <2>1
<1>20. Has(fable, "ModelWeekly")
  <2>1. Len(fable) \in {0, 1} /\ (Len(fable) = 1 => \E i \in fables : fable[1] = ws[i])
    <3> HIDE DEF fables
    <3> QED  BY <1>17, FirstWhereHas
  <2> QED  BY <2>1 DEF Fable
<1>21. \A p \in DOMAIN primary : IsOneOfThree(primary, p, five, week, fable)
  BY <1>15, <1>16, <1>17, <1>18, <1>19, <1>20, ThreeAtMost
<1> HIDE DEF primary
<1>22. \A p \in DOMAIN primary : \E i \in DOMAIN ws : primary[p] = ws[i]
  BY <1>18, <1>19, <1>20, <1>21 DEF IsOneOfThree
<1>23. \A p, q \in DOMAIN primary : primary[p].kind = primary[q].kind => p = q
  BY <1>18, <1>19, <1>20, <1>21 DEF IsOneOfThree
<1>24. \A p, q \in DOMAIN primary : primary[p].id = primary[q].id => p = q
  <2> SUFFICES ASSUME NEW p \in DOMAIN primary, NEW q \in DOMAIN primary,
                      primary[p].id = primary[q].id
               PROVE  p = q
    OBVIOUS
  <2>1. PICK i \in DOMAIN ws : primary[p] = ws[i]  BY <1>22
  <2>2. PICK j \in DOMAIN ws : primary[q] = ws[j]  BY <1>22
  <2>3. i = j  BY <1>12, <2>1, <2>2
  <2> QED  BY <1>23, <2>1, <2>2, <2>3
<1>25. \A x : Shown("claude", x)  BY DEF Shown
<1>26. primary \in Seq(V)  BY <1>15, <1>16, <1>17 DEF primary
<1>27. ShowsAll("claude", ws)
  <2>1. /\ PrimaryWindows("claude", ws) \in Seq(V) /\ IdsDistinct(PrimaryWindows("claude", ws))
    BY <1>14, <1>24, <1>26 DEF IdsDistinct
  <2> QED  BY <1>10, <1>25, <2>1, AllOnCard
<1>28. CompactAgrees("claude", ws)
  <2>1. CompactFive("claude", ws) = five
    <3>1. {i \in DOMAIN ws : \/ ws[i].kind = "FiveHour"
                             \/ "claude" = "antigravity"
                                /\ ws[i].id = <<"agy", "gemini", "5h">>}
          = {i \in DOMAIN ws : ws[i].kind = "FiveHour"}
      OBVIOUS
    <3> QED  BY <3>1 DEF CompactFive, ByKind, five
  <2>2. CompactWeekly("claude", ws) = week  BY DEF CompactWeekly, week
  <2> DEFINE both == five \o week
  <2>3. both \in Seq(V)  BY <1>15, <1>16
  <2>4. primary = both \o fable  BY DEF primary
  <2> HIDE DEF both
  <2>5. IsPrefix(both, primary)  BY <1>17, <2>3, <2>4, StartIsPrefix
  <2> QED  BY <1>14, <2>1, <2>2, <2>5 DEF CompactAgrees, both
<1>29. \A scope \in ScopeNames :
         IF of(scope) = {} THEN \A i \in DOMAIN ws : ws[i].id # <<"claude", scope>>
         ELSE \E i \in DOMAIN windows, b \in best(scope) :
                windows[i] = blocks[b] /\ \A c \in best(scope) : c <= b
  <2> HIDE DEF of, best
  <2> QED  BY <1>4, <1>13
<1> HIDE DEF of, best, timed
<1>30. /\ \A scope \in {"5h", "fable", "all"} :
            IF of(scope) = {} THEN \A i \in DOMAIN ws : ws[i].id # <<"claude", scope>>
            ELSE \E i \in DOMAIN windows, b \in best(scope) :
                   windows[i] = blocks[b] /\ \A c \in best(scope) : c <= b
       /\ \A i \in DOMAIN windows : \E l \in DOMAIN lines :
            /\ lines[l].type = "percent" /\ lines[l].value \in 0..100
            /\ windows[i].used = Used(lines[l])
       /\ ShowsAll("claude", ws) /\ CompactAgrees("claude", ws)
  BY <1>5, <1>27, <1>28, <1>29 DEF ScopeNames
<1> QED  BY <1>30 DEF of, best, timed, windows, blocks, ws

\* The line that answers a request: the first with its id after another line.
Answers(lines, id, after, i) ==
    /\ i \in DOMAIN lines /\ after < i /\ lines[i].id = id
    /\ \A j \in DOMAIN lines : after < j /\ lines[j].id = id => i <= j

IsResponse(r, lines, id, after) ==
    /\ r.code # "fresh" /\ r.at \in Nat
    /\ r.code = "ok" => Answers(lines, id, after, r.at) /\ lines[r.at].body = "result"
    /\ \A i : Answers(lines, id, after, i) /\ lines[i].body = "result"
                => r.code = "ok" /\ r.at = i

LEMMA ResponseIs ==
  ASSUME NEW lines \in Seq(ServerLine), NEW id, NEW after \in Nat, NEW ending
  PROVE  IsResponse(Response(lines, id, after, ending), lines, id, after)
<1> DEFINE I == {i \in DOMAIN lines : after < i /\ lines[i].id = id}
           mine == FirstOf(I)
           r == Response(lines, id, after, ending)
           code == CASE lines[mine].body = "error" -> "unavailable"
                     [] lines[mine].body = "result" -> "ok"
                     [] OTHER -> "unsupported_output"
<1>1. I \in SUBSET Nat /\ 0 \notin I /\ DOMAIN lines \subseteq Nat /\ Len(lines) \in Nat
  OBVIOUS
<1>2. r = IF mine = 0
          THEN [code |-> IF ending = "gone" THEN "process_failed" ELSE "timeout",
                at |-> Len(lines)]
          ELSE [code |-> code, at |-> mine]
  BY DEF Response
<1>3. code # "fresh" /\ (code = "ok" <=> lines[mine].body = "result")
  <2> DEFINE body == lines[mine].body
  <2> HIDE DEF body
  <2>1. code = CASE body = "error" -> "unavailable" [] body = "result" -> "ok"
                 [] OTHER -> "unsupported_output"
    BY DEF body
  <2> HIDE DEF code
  <2>2. code # "fresh" /\ (code = "ok" <=> body = "result")  BY <2>1
  <2> QED  BY <2>2 DEF body
<1> HIDE DEF code, r
<1>4. \A i : Answers(lines, id, after, i) <=> i \in I /\ \A j \in I : i <= j
  BY DEF Answers
<1>5. CASE I = {}
  <2>1. mine = 0
    <3> HIDE DEF I
    <3> QED  BY <1>1, <1>5, FirstOfPlaces
  <2> HIDE DEF I, mine
  <2>2. r.code \in {"process_failed", "timeout"} /\ r.at \in Nat  BY <1>1, <1>2, <2>1
  <2>3. \A i : ~Answers(lines, id, after, i)  BY <1>4, <1>5
  <2> QED  BY <2>2, <2>3 DEF r, IsResponse
<1>6. CASE I # {}
  <2>1. mine \in I /\ \A j \in I : mine <= j
    <3> HIDE DEF I
    <3> QED  BY <1>1, <1>6, FirstOfPlaces
  <2> HIDE DEF I, mine
  <2>2. mine # 0 /\ mine \in Nat  BY <1>1, <2>1
  <2>3. r.code = code /\ r.at = mine  BY <1>2, <2>2
  <2>4. ASSUME NEW i, Answers(lines, id, after, i) PROVE i = mine
    <3>1. i \in I /\ i <= mine /\ mine <= i  BY <1>4, <2>1, <2>4
    <3> QED  BY <1>1, <2>2, <3>1
  <2> QED  BY <1>3, <1>4, <2>1, <2>2, <2>3, <2>4 DEF r, IsResponse
<1> QED  BY <1>5, <1>6

\* The three requests are answered one after the other.
InTurn(lines, a, b, c) ==
    /\ Answers(lines, 1, 0, a) /\ Answers(lines, 2, a, b) /\ Answers(lines, 3, b, c)
    /\ lines[a].body = "result" /\ lines[b].body = "result" /\ lines[c].body = "result"

LEMMA TurnsAgree ==
  ASSUME NEW lines \in Seq(ServerLine)
  PROVE  AnsweredInTurn(lines) <=> \E a, b, c : InTurn(lines, a, b, c)
<1>1. DOMAIN lines = 1 .. Len(lines) /\ Len(lines) \in Nat  OBVIOUS
<1>2. \A i \in DOMAIN lines : lines[i] = [id |-> lines[i].id, body |-> lines[i].body]
  <2> SUFFICES ASSUME NEW i \in DOMAIN lines
               PROVE  lines[i] = [id |-> lines[i].id, body |-> lines[i].body]
    OBVIOUS
  <2>1. lines[i] \in ServerLine  OBVIOUS
  <2> QED  BY <2>1 DEF ServerLine
<1>3. ASSUME AnsweredInTurn(lines) PROVE \E a, b, c : InTurn(lines, a, b, c)
  <2>1. PICK f \in [1..3 -> DOMAIN lines] :
          /\ f[1] < f[2] /\ f[2] < f[3]
          /\ \A id \in 1..3 :
               /\ lines[f[id]] = [id |-> id, body |-> "result"]
               /\ \A i \in DOMAIN lines :
                    lines[i].id = id /\ i < f[id] => id > 1 /\ i < f[id - 1]
    BY <1>3 DEF AnsweredInTurn
  <2>2. f[1] \in DOMAIN lines /\ f[2] \in DOMAIN lines /\ f[3] \in DOMAIN lines  OBVIOUS
  <2> DEFINE Turn(id) == /\ lines[f[id]] = [id |-> id, body |-> "result"]
                         /\ \A i \in DOMAIN lines :
                              lines[i].id = id /\ i < f[id] => id > 1 /\ i < f[id - 1]
  <2>3. Turn(1) /\ Turn(2) /\ Turn(3)  BY <2>1
  <2>4. /\ lines[f[1]].id = 1 /\ lines[f[2]].id = 2 /\ lines[f[3]].id = 3
        /\ lines[f[1]].body = "result" /\ lines[f[2]].body = "result"
        /\ lines[f[3]].body = "result"
    BY <2>3
  <2>5. /\ \A i \in DOMAIN lines : lines[i].id = 1 => ~(i < f[1])
        /\ \A i \in DOMAIN lines : lines[i].id = 2 /\ i < f[2] => i < f[1]
        /\ \A i \in DOMAIN lines : lines[i].id = 3 /\ i < f[3] => i < f[2]
    BY <2>3
  <2>6. Answers(lines, 1, 0, f[1])  BY <1>1, <2>2, <2>4, <2>5 DEF Answers
  <2>7. Answers(lines, 2, f[1], f[2])  BY <1>1, <2>1, <2>2, <2>4, <2>5 DEF Answers
  <2>8. Answers(lines, 3, f[2], f[3])  BY <1>1, <2>1, <2>2, <2>4, <2>5 DEF Answers
  <2> QED  BY <2>4, <2>6, <2>7, <2>8 DEF InTurn
<1>4. ASSUME NEW a, NEW b, NEW c, InTurn(lines, a, b, c) PROVE AnsweredInTurn(lines)
  <2>1. a \in DOMAIN lines /\ b \in DOMAIN lines /\ c \in DOMAIN lines /\ a < b /\ b < c
    BY <1>4 DEF InTurn, Answers
  <2> DEFINE f == [id \in 1..3 |-> IF id = 1 THEN a ELSE IF id = 2 THEN b ELSE c]
             Turn(id) == /\ lines[f[id]] = [id |-> id, body |-> "result"]
                         /\ \A i \in DOMAIN lines :
                              lines[i].id = id /\ i < f[id] => id > 1 /\ i < f[id - 1]
  <2>2. f \in [1..3 -> DOMAIN lines] /\ f[1] = a /\ f[2] = b /\ f[3] = c  BY <2>1
  <2> HIDE DEF f
  <2>3. Turn(1)
    <3>1. lines[a] = [id |-> 1, body |-> "result"]  BY <1>2, <1>4, <2>1 DEF InTurn, Answers
    <3>2. \A i \in DOMAIN lines : lines[i].id = 1 => ~(i < a)
      BY <1>1, <1>4, <2>1 DEF InTurn, Answers
    <3> QED  BY <2>2, <3>1, <3>2
  <2>4. Turn(2)
    <3>1. lines[b] = [id |-> 2, body |-> "result"]  BY <1>2, <1>4, <2>1 DEF InTurn, Answers
    <3>2. ASSUME NEW i \in DOMAIN lines, lines[i].id = 2, i < b PROVE i < a
      <4>1. ~(a < i)  BY <1>1, <1>4, <2>1, <3>2 DEF InTurn, Answers
      <4>2. i # a  BY <1>4, <3>2 DEF InTurn, Answers
      <4> QED  BY <1>1, <2>1, <4>1, <4>2
    <3> QED  BY <2>2, <3>1, <3>2
  <2>5. Turn(3)
    <3>1. lines[c] = [id |-> 3, body |-> "result"]  BY <1>2, <1>4, <2>1 DEF InTurn, Answers
    <3>2. ASSUME NEW i \in DOMAIN lines, lines[i].id = 3, i < c PROVE i < b
      <4>1. ~(b < i)  BY <1>1, <1>4, <2>1, <3>2 DEF InTurn, Answers
      <4>2. i # b  BY <1>4, <3>2 DEF InTurn, Answers
      <4> QED  BY <1>1, <2>1, <4>1, <4>2
    <3> QED  BY <2>2, <3>1, <3>2
  <2>6. \A id \in 1..3 : Turn(id)
    <3> HIDE DEF Turn
    <3> QED  BY <2>3, <2>4, <2>5
  <2> QED  BY <2>1, <2>2, <2>6 DEF AnsweredInTurn
<1> QED  BY <1>3, <1>4

\* The conversation of somebody signed in succeeds when all three are answered.
LEMMA SessionInTurn ==
  ASSUME NEW lines \in Seq(ServerLine), NEW ending, NEW signedIn \in BOOLEAN,
         NEW failing \in 0 .. 4
  PROVE  /\ RpcSession(lines, ending, signedIn, failing) # "fresh"
         /\ signedIn => (RpcSession(lines, ending, signedIn, failing) = "ok"
                           <=> failing = 0 /\ AnsweredInTurn(lines))
<1> DEFINE first == Response(lines, 1, 0, ending)
           second == Response(lines, 2, first.at, ending)
           third == Response(lines, 3, second.at, ending)
           code == RpcSession(lines, ending, signedIn, failing)
<1>1. code = IF failing = 1 THEN "process_failed"
             ELSE IF first.code # "ok" THEN first.code
             ELSE IF failing \in {2, 3} THEN "process_failed"
             ELSE IF second.code # "ok" THEN second.code
             ELSE IF ~signedIn THEN "ok"
             ELSE IF failing = 4 THEN "process_failed" ELSE third.code
  BY DEF RpcSession
<1>2. IsResponse(first, lines, 1, 0)  BY ResponseIs
<1> HIDE DEF first, code
<1>3. IsResponse(second, lines, 2, first.at)
  <2>1. first.at \in Nat  BY <1>2 DEF IsResponse
  <2> QED  BY <2>1, ResponseIs
<1> HIDE DEF second
<1>4. IsResponse(third, lines, 3, second.at)
  <2>1. second.at \in Nat  BY <1>3 DEF IsResponse
  <2> QED  BY <2>1, ResponseIs
<1> HIDE DEF third
<1>5. code # "fresh"  BY <1>1, <1>2, <1>3, <1>4 DEF IsResponse
<1>6. ASSUME signedIn, code = "ok" PROVE failing = 0 /\ \E a, b, c : InTurn(lines, a, b, c)
  <2>1. failing = 0 /\ first.code = "ok" /\ second.code = "ok" /\ third.code = "ok"
    BY <1>1, <1>6
  <2>2. InTurn(lines, first.at, second.at, third.at)
    BY <1>2, <1>3, <1>4, <2>1 DEF InTurn, IsResponse
  <2> QED  BY <2>1, <2>2
<1>7. ASSUME signedIn, failing = 0, NEW a, NEW b, NEW c, InTurn(lines, a, b, c)
      PROVE  code = "ok"
  <2>1. first.code = "ok" /\ first.at = a  BY <1>2, <1>7 DEF InTurn, IsResponse
  <2>2. second.code = "ok" /\ second.at = b  BY <1>3, <1>7, <2>1 DEF InTurn, IsResponse
  <2>3. third.code = "ok"  BY <1>4, <1>7, <2>2 DEF InTurn, IsResponse
  <2> QED  BY <1>1, <1>7, <2>1, <2>2, <2>3
<1> QED  BY <1>5, <1>6, <1>7, TurnsAgree DEF code

(* -- Codex: what every slot becomes -------------------------------------- *)

Places(limits) == (0 .. Len(limits.byId)) \X {"primary", "secondary"}

Five == <<"codex", "five-hour">>
Week == <<"codex", "weekly">>
OtherFive == <<"codex", "base-primary">>
OtherWeek == <<"codex", "base-secondary">>

Is(limits, p, length) == SlotAt(limits, p).minutes = length

IdAt(limits, p) ==
    IF p[1] # 0 THEN <<"codex", limits.byId[p[1]].id, p[2]>>
    ELSE IF p[2] = "primary" THEN (IF Is(limits, p, FiveHour) THEN Five ELSE OtherFive)
    ELSE IF Is(limits, p, Weekly) THEN Week ELSE OtherWeek

KindAt(limits, p) ==
    IF p[1] # 0
    THEN IF ~Is(limits, p, Weekly) THEN "Other"
         ELSE IF p[1] = AccountLimit(limits) THEN "Weekly" ELSE "ModelWeekly"
    ELSE IF p[2] = "primary" THEN (IF Is(limits, p, FiveHour) THEN "FiveHour" ELSE "Other")
    ELSE IF Is(limits, p, Weekly) THEN "Weekly" ELSE "Other"

ReserveAt(limits, p) ==
    IF p[1] = 0 THEN FALSE ELSE limits.byId[p[1]].reserve /\ p[2] = "secondary"

WindowOf(limits, p, kind) ==
    CodexWindow(IdAt(limits, p), kind, SlotAt(limits, p).used, p, ReserveAt(limits, p))

WindowAt(limits, p) == WindowOf(limits, p, KindAt(limits, p))

\* The windows an answer may have.
AnyWindow(limits) ==
    {WindowOf(limits, p, kind) :
        p \in Given(limits), kind \in {"FiveHour", "Weekly", "ModelWeekly", "Other"}}
    \cup {ExpectedUnavailable[1], ExpectedUnavailable[2]}

LEMMA GivenSlot ==
  ASSUME NEW limits \in Limits, NEW p \in Given(limits)
  PROVE  /\ p \in Places(limits) /\ p = <<p[1], p[2]>> /\ p # <<>>
         /\ p[1] \in Nat /\ p[2] \in {"primary", "secondary"}
         /\ p[1] # 0 => p[1] \in DOMAIN limits.byId
         /\ SlotAt(limits, p) # NoValue /\ SlotAt(limits, p).used # NoValue
<1>1. /\ limits.primary \in Slot /\ limits.secondary \in Slot /\ limits.byId \in Seq(Limit)
  BY DEF Limits
<1>2. Len(limits.byId) \in Nat /\ DOMAIN limits.byId = 1 .. Len(limits.byId)  BY <1>1
<1>3. /\ p[1] \in 0 .. Len(limits.byId) /\ p[2] \in {"primary", "secondary"}
      /\ p \in Places(limits) /\ p = <<p[1], p[2]>> /\ SlotAt(limits, p) # NoValue
  BY DEF Given, Places
<1>4. p # <<>>
  <2>1. \A a, b : <<a, b>> # <<>>  OBVIOUS
  <2> QED  BY <1>3, <2>1
<1>5. SlotAt(limits, p) \in Slot
  <2>1. CASE p[1] = 0  BY <1>1, <2>1 DEF SlotAt
  <2>2. CASE p[1] # 0
    <3>1. limits.byId[p[1]] \in Limit  BY <1>1, <1>2, <1>3, <2>2
    <3>2. limits.byId[p[1]].primary \in Slot /\ limits.byId[p[1]].secondary \in Slot
      BY <3>1 DEF Limit
    <3> QED  BY <2>2, <3>2 DEF SlotAt
  <2> QED  BY <2>1, <2>2
<1>6. SlotAt(limits, p).used # NoValue
  <2>1. PICK s : s = SlotAt(limits, p)  OBVIOUS
  <2>2. s \in [minutes : Nat \cup {NoValue}, used : 0 .. 100 \cup {Invalid}]
    BY <1>3, <1>5, <2>1 DEF Slot
  <2>3. s.used \in 0 .. 100 \cup {Invalid}  BY <2>2
  <2> QED  BY <2>1, <2>3, NoValues
<1> QED  BY <1>2, <1>3, <1>4, <1>6

LEMMA WindowFields ==
  ASSUME NEW limits \in Limits, NEW p \in Given(limits), NEW kind
  PROVE  LET w == WindowOf(limits, p, kind)
         IN  /\ w.id = IdAt(limits, p) /\ w.kind = kind /\ w.used = SlotAt(limits, p).used
             /\ w.from = p /\ w.reserve = ReserveAt(limits, p) /\ Fresh(w)
<1> DEFINE w == WindowOf(limits, p, kind)
<1>1. w = [id |-> IdAt(limits, p), kind |-> kind, used |-> SlotAt(limits, p).used,
           from |-> p, reserve |-> ReserveAt(limits, p)]
  BY DEF WindowOf, CodexWindow
<1> HIDE DEF w
<1>2. /\ w.id = IdAt(limits, p) /\ w.kind = kind /\ w.used = SlotAt(limits, p).used
      /\ w.from = p /\ w.reserve = ReserveAt(limits, p)
  BY <1>1
<1>3. Fresh(w)  BY <1>2, GivenSlot DEF Fresh
<1> QED  BY <1>2, <1>3 DEF w

LEMMA MissingFields ==
  LET e == ExpectedUnavailable
  IN  /\ e[1].id = Five /\ e[1].kind = "FiveHour" /\ e[1].from = <<>> /\ ~Fresh(e[1])
      /\ e[2].id = Week /\ e[2].kind = "Weekly" /\ e[2].from = <<>> /\ ~Fresh(e[2])
      /\ e = <<e[1], e[2]>>
<1> DEFINE e == ExpectedUnavailable
           a == [id |-> Five, kind |-> "FiveHour", used |-> NoValue, from |-> <<>>,
                 reserve |-> FALSE]
           b == [id |-> Week, kind |-> "Weekly", used |-> NoValue, from |-> <<>>,
                 reserve |-> FALSE]
<1>1. e = <<a, b>>  BY DEF ExpectedUnavailable, CodexWindow, Five, Week
<1>2. /\ a.id = Five /\ a.kind = "FiveHour" /\ a.from = <<>> /\ a.used = NoValue
      /\ b.id = Week /\ b.kind = "Weekly" /\ b.from = <<>> /\ b.used = NoValue
  OBVIOUS
<1> HIDE DEF a, b, e
<1>3. e[1] = a /\ e[2] = b /\ e = <<e[1], e[2]>>  BY <1>1
<1> QED  BY <1>2, <1>3 DEF Fresh, e

LEMMA AnyFresh ==
  ASSUME NEW limits \in Limits, NEW w \in AnyWindow(limits)
  PROVE  /\ Fresh(w) => w.from \in Given(limits)
         /\ ~Fresh(w) => w \in {ExpectedUnavailable[1], ExpectedUnavailable[2]}
         /\ ~Fresh(w) => w.from = <<>>
<1>1. CASE w \in {ExpectedUnavailable[1], ExpectedUnavailable[2]}  BY <1>1, MissingFields
<1>2. CASE \E p \in Given(limits) : \E kind : w = WindowOf(limits, p, kind)
  BY <1>2, WindowFields
<1> QED  BY <1>1, <1>2 DEF AnyWindow

\* A weekly window is the account's if no limit before it has one.
LEMMA KindIs ==
  ASSUME NEW limits \in Limits, NEW p \in Given(limits)
  PROVE  /\ KindAt(limits, p) \in {"FiveHour", "Weekly", "ModelWeekly", "Other"}
         /\ KindAt(limits, p) = "Weekly" <=>
              /\ IsWeekly(SlotAt(limits, p)) /\ p[1] = AccountLimit(limits)
              /\ p[1] = 0 => p[2] = "secondary"
<1> DEFINE weekly == Is(limits, p, Weekly)
           A == AccountLimit(limits)
<1>1. p[1] \in Nat /\ p[2] \in {"primary", "secondary"}  BY GivenSlot
<1>2. IsWeekly(SlotAt(limits, p)) <=> weekly  BY GivenSlot DEF IsWeekly, Is
<1>3. p[1] = 0 /\ p[2] = "secondary" /\ weekly => A = 0
  <2>1. p[1] = 0 /\ p[2] = "secondary" => SlotAt(limits, p) = limits.secondary
    BY <1>1 DEF SlotAt
  <2> QED  BY <1>2, <2>1 DEF AccountLimit
<1> HIDE DEF weekly, A
<1>4. KindAt(limits, p) = IF p[1] # 0
                          THEN IF ~weekly THEN "Other"
                               ELSE IF p[1] = A THEN "Weekly" ELSE "ModelWeekly"
                          ELSE IF p[2] = "primary"
                          THEN IF Is(limits, p, FiveHour) THEN "FiveHour" ELSE "Other"
                          ELSE IF weekly THEN "Weekly" ELSE "Other"
  BY DEF KindAt, weekly, A
<1>5. CASE p[1] = 0  BY <1>1, <1>2, <1>3, <1>4, <1>5 DEF A
<1>6. CASE p[1] # 0  BY <1>1, <1>2, <1>4, <1>6 DEF A
<1> QED  BY <1>5, <1>6

\* The fresh windows of r are those of the places G, one each, and of one limit
\* the first comes first.
Assembled(r, limits, G) ==
    /\ r \in Seq(AnyWindow(limits))
    /\ \A k \in DOMAIN r : Fresh(r[k]) => r[k].from \in G /\ r[k] = WindowAt(limits, r[k].from)
    /\ \A p \in G : \E k \in DOMAIN r : r[k].from = p
    /\ \A k, l \in DOMAIN r : Fresh(r[k]) /\ r[k].from = r[l].from => k = l
    /\ \A k, l \in DOMAIN r : \A n :
         r[k].from = <<n, "primary">> /\ r[l].from = <<n, "secondary">> => k < l

LEMMA BaseWindowIs ==
  ASSUME NEW limits \in Limits, NEW p \in Places(limits), NEW length, NEW otherId,
         NEW e, NEW kind, e.kind = kind, p[1] = 0,
         IF p[2] = "primary" THEN length = FiveHour /\ e.id = Five /\ otherId = OtherFive
                                  /\ kind = "FiveHour"
         ELSE length = Weekly /\ e.id = Week /\ otherId = OtherWeek /\ kind = "Weekly"
  PROVE  BaseWindow(limits, p, length, e, otherId) =
           IF p \in Given(limits) THEN WindowAt(limits, p) ELSE e
<1> DEFINE slot == SlotAt(limits, p)
<1>1. p \in Given(limits) <=> slot # NoValue  BY DEF Given, Places
<1>2. CASE slot = NoValue  BY <1>1, <1>2 DEF BaseWindow
<1>3. CASE slot # NoValue
  <2>1. BaseWindow(limits, p, length, e, otherId) =
          IF Is(limits, p, length) THEN CodexWindow(e.id, e.kind, slot.used, p, FALSE)
          ELSE CodexWindow(otherId, "Other", slot.used, p, FALSE)
    BY <1>3 DEF BaseWindow, Is
  <2>2. ReserveAt(limits, p) = FALSE  BY DEF ReserveAt
  <2>3. /\ IdAt(limits, p) = IF Is(limits, p, length) THEN e.id ELSE otherId
        /\ KindAt(limits, p) = IF Is(limits, p, length) THEN e.kind ELSE "Other"
    BY DEF IdAt, KindAt
  <2>4. WindowAt(limits, p) = CodexWindow(IdAt(limits, p), KindAt(limits, p), slot.used, p, FALSE)
    BY <2>2 DEF WindowAt, WindowOf
  <2> HIDE DEF slot
  <2>5. CASE Is(limits, p, length)  BY <1>1, <1>3, <2>1, <2>3, <2>4, <2>5
  <2>6. CASE ~Is(limits, p, length)  BY <1>1, <1>3, <2>1, <2>3, <2>4, <2>6
  <2> QED  BY <2>5, <2>6
<1> QED  BY <1>2, <1>3

LEMMA AtAny ==
  ASSUME NEW limits \in Limits, NEW p \in Given(limits)
  PROVE  WindowAt(limits, p) \in AnyWindow(limits)
BY KindIs DEF WindowAt, AnyWindow

LEMMA BaseAre ==
  ASSUME NEW limits \in Limits
  PROVE  LET base == BaseWindows(limits)
             e == ExpectedUnavailable
         IN  /\ base \in Seq(AnyWindow(limits)) /\ DOMAIN base = {1, 2}
             /\ base[1] = IF <<0, "primary">> \in Given(limits)
                          THEN WindowAt(limits, <<0, "primary">>) ELSE e[1]
             /\ base[2] = IF <<0, "secondary">> \in Given(limits)
                          THEN WindowAt(limits, <<0, "secondary">>) ELSE e[2]
<1> DEFINE e == ExpectedUnavailable
           p == <<0, "primary">>
           q == <<0, "secondary">>
           a == BaseWindow(limits, p, FiveHour, e[1], OtherFive)
           b == BaseWindow(limits, q, Weekly, e[2], OtherWeek)
           base == BaseWindows(limits)
<1>1. base = <<a, b>>  BY DEF BaseWindows, OtherFive, OtherWeek
<1>2. p \in Places(limits) /\ q \in Places(limits) /\ p[1] = 0 /\ q[1] = 0
      /\ p[2] = "primary" /\ q[2] = "secondary"
  <2>1. Len(limits.byId) \in Nat  BY DEF Limits
  <2> QED  BY <2>1 DEF Places
<1>3. /\ e[1].id = Five /\ e[1].kind = "FiveHour" /\ e[2].id = Week /\ e[2].kind = "Weekly"
  BY MissingFields
<1> HIDE DEF p, q, e, base
<1>4. a = IF p \in Given(limits) THEN WindowAt(limits, p) ELSE e[1]
  BY <1>2, <1>3, BaseWindowIs
<1>5. b = IF q \in Given(limits) THEN WindowAt(limits, q) ELSE e[2]
  BY <1>2, <1>3, BaseWindowIs
<1> HIDE DEF a, b
<1>6. a \in AnyWindow(limits) /\ b \in AnyWindow(limits)
  <2>1. e[1] \in AnyWindow(limits) /\ e[2] \in AnyWindow(limits)  BY DEF AnyWindow, e
  <2> QED  BY <1>4, <1>5, <2>1, AtAny
<1>7. base \in Seq(AnyWindow(limits)) /\ DOMAIN base = {1, 2} /\ base[1] = a /\ base[2] = b
  BY <1>1, <1>6
<1> QED  BY <1>4, <1>5, <1>7 DEF p, q, e, base

\* The places that are there, of the base limits and the first of the others.
UpTo(limits, i) == {p \in Given(limits) : p[1] <= i}

LEMMA BaseAssembled ==
  ASSUME NEW limits \in Limits
  PROVE  Assembled(BaseWindows(limits), limits, UpTo(limits, 0))
<1> DEFINE base == BaseWindows(limits)
           e == ExpectedUnavailable
           p == <<0, "primary">>
           q == <<0, "secondary">>
           G == UpTo(limits, 0)
<1>1. /\ base \in Seq(AnyWindow(limits)) /\ DOMAIN base = {1, 2}
      /\ base[1] = IF p \in Given(limits) THEN WindowAt(limits, p) ELSE e[1]
      /\ base[2] = IF q \in Given(limits) THEN WindowAt(limits, q) ELSE e[2]
  BY BaseAre
<1>2. /\ e[1].from = <<>> /\ ~Fresh(e[1]) /\ e[2].from = <<>> /\ ~Fresh(e[2])
  BY MissingFields
<1>3. /\ p # q /\ p # <<>> /\ q # <<>>
      /\ \A n : p # <<n, "secondary">> /\ q # <<n, "primary">>
      /\ \A n : <<>> # <<n, "primary">> /\ <<>> # <<n, "secondary">>
  OBVIOUS
<1>4. /\ p \in G <=> p \in Given(limits)
      /\ q \in G <=> q \in Given(limits)
      /\ \A o \in G : o = p \/ o = q
  <2>1. p[1] <= 0 /\ q[1] <= 0  OBVIOUS
  <2>2. ASSUME NEW o \in G PROVE o = p \/ o = q
    <3>1. o \in Given(limits) /\ o[1] <= 0  BY DEF UpTo
    <3>2. o = <<o[1], o[2]>> /\ o[1] \in Nat /\ o[2] \in {"primary", "secondary"}
      BY <3>1, GivenSlot
    <3>3. o[1] = 0  BY <3>1, <3>2
    <3> QED  BY <3>2, <3>3
  <2> HIDE DEF p, q
  <2> QED  BY <2>1, <2>2 DEF UpTo
<1>5. /\ p \in Given(limits) => /\ WindowAt(limits, p).from = p /\ Fresh(WindowAt(limits, p))
      /\ q \in Given(limits) => /\ WindowAt(limits, q).from = q /\ Fresh(WindowAt(limits, q))
  <2> HIDE DEF p, q
  <2> QED  BY WindowFields DEF WindowAt
<1> HIDE DEF base, e, p, q, G
<1>6. \A k \in DOMAIN base :
        Fresh(base[k]) => base[k].from \in G /\ base[k] = WindowAt(limits, base[k].from)
  BY <1>1, <1>2, <1>4, <1>5
<1>7. \A o \in G : \E k \in DOMAIN base : base[k].from = o
  BY <1>1, <1>4, <1>5
<1>8. \A k, l \in DOMAIN base : Fresh(base[k]) /\ base[k].from = base[l].from => k = l
  BY <1>1, <1>2, <1>3, <1>5
<1>9. ASSUME NEW k \in DOMAIN base, NEW l \in DOMAIN base, NEW n,
             base[k].from = <<n, "primary">>, base[l].from = <<n, "secondary">>
      PROVE  k < l
  <2>1. base[1].from # <<n, "secondary">> /\ base[2].from # <<n, "primary">>
    BY <1>1, <1>2, <1>3, <1>5
  <2>2. k = 1 /\ l = 2  BY <1>1, <1>9, <2>1
  <2> QED  BY <2>2
<1>10. Assembled(base, limits, G)  BY <1>1, <1>6, <1>7, <1>8, <1>9 DEF Assembled
<1> QED  BY <1>10 DEF base, G

\* One window more, of a place that had none.
LEMMA AddWindow ==
  ASSUME NEW limits \in Limits, NEW G \in SUBSET Given(limits), NEW r,
         Assembled(r, limits, G), NEW p \in Given(limits), p \notin G,
         p[2] = "primary" => <<p[1], "secondary">> \notin G
  PROVE  Assembled(r \o <<WindowAt(limits, p)>>, limits, G \cup {p})
<1> DEFINE w == WindowAt(limits, p)
           t == r \o <<w>>
           n == Len(r)
           W == AnyWindow(limits)
<1>1. w \in W  BY AtAny
<1>2. w.from = p /\ Fresh(w)  BY WindowFields DEF WindowAt
<1>3. r \in Seq(W)  BY DEF Assembled
<1>w. w = WindowAt(limits, w.from)  BY <1>2
<1> HIDE DEF W, w
<1>4. n \in Nat /\ DOMAIN r = 1 .. n /\ \A k \in DOMAIN r : r[k] \in W  BY <1>3
<1>5. /\ t \in Seq(W) /\ DOMAIN t = 1 .. n + 1 /\ t[n + 1] = w
      /\ \A k \in 1 .. n : t[k] = r[k]
  BY <1>1, <1>3
<1> HIDE DEF t, n
<1>6. \A k \in DOMAIN t : k \in 1 .. n \/ k = n + 1  BY <1>4, <1>5
<1>7. n + 1 \in DOMAIN t /\ \A k \in 1 .. n : k \in DOMAIN t  BY <1>4, <1>5
<1>8. \A k \in 1 .. n : r[k].from # p /\ (r[k].from \in G \/ r[k].from = <<>>)
  <2> SUFFICES ASSUME NEW k \in 1 .. n
               PROVE  r[k].from # p /\ (r[k].from \in G \/ r[k].from = <<>>)
    OBVIOUS
  <2>1. r[k] \in W  BY <1>4
  <2>2. ~Fresh(r[k]) => r[k].from = <<>>  BY <2>1, AnyFresh DEF W
  <2>3. Fresh(r[k]) => r[k].from \in G  BY <1>4 DEF Assembled
  <2>4. p # <<>>  BY GivenSlot
  <2> QED  BY <2>2, <2>3, <2>4
<1>9. ASSUME NEW k \in DOMAIN t, Fresh(t[k])
      PROVE  t[k].from \in G \cup {p} /\ t[k] = WindowAt(limits, t[k].from)
  <2>1. CASE k \in 1 .. n  BY <1>4, <1>5, <1>9, <2>1 DEF Assembled
  <2>2. CASE k = n + 1  BY <1>2, <1>5, <1>w, <2>2
  <2> QED  BY <1>6, <2>1, <2>2
<1>10. ASSUME NEW o \in G \cup {p} PROVE \E k \in DOMAIN t : t[k].from = o
  <2>1. CASE o \in G
    <3>1. PICK k \in 1 .. n : r[k].from = o  BY <1>4, <2>1 DEF Assembled
    <3> QED  BY <1>5, <1>7, <3>1
  <2>2. CASE o = p  BY <1>2, <1>5, <1>7, <2>2
  <2> QED  BY <2>1, <2>2
<1>11. ASSUME NEW k \in DOMAIN t, NEW l \in DOMAIN t, Fresh(t[k]), t[k].from = t[l].from
       PROVE  k = l
  <2>1. CASE k \in 1 .. n /\ l \in 1 .. n  BY <1>4, <1>5, <1>11, <2>1 DEF Assembled
  <2>2. CASE k = n + 1 \/ l = n + 1
    <3>1. k = n + 1 /\ l = n + 1  BY <1>2, <1>5, <1>6, <1>8, <1>11, <2>2
    <3> QED  BY <3>1
  <2> QED  BY <1>6, <2>1, <2>2
<1>12. ASSUME NEW k \in DOMAIN t, NEW l \in DOMAIN t, NEW m,
              t[k].from = <<m, "primary">>, t[l].from = <<m, "secondary">>
       PROVE  k < l
  <2>1. CASE k \in 1 .. n /\ l \in 1 .. n
    <3>1. r[k].from = <<m, "primary">> /\ r[l].from = <<m, "secondary">>
      BY <1>5, <1>12, <2>1
    <3> QED  BY <1>4, <2>1, <3>1 DEF Assembled
  <2>2. CASE k \in 1 .. n /\ l = n + 1  BY <1>4, <2>2
  <2>3. CASE k = n + 1
    <3>1. p = <<m, "primary">>  BY <1>2, <1>5, <1>12, <2>3
    <3>2. p[1] = m /\ p[2] = "primary"  BY <3>1
    <3>3. <<m, "secondary">> \notin G  BY <3>2
    <3>4. <<m, "secondary">> # <<>> /\ <<m, "secondary">> # p  BY <3>1
    <3>5. CASE l \in 1 .. n
      <4>1. r[l].from = <<m, "secondary">>  BY <1>5, <1>12, <3>5
      <4> QED  BY <1>8, <3>3, <3>4, <3>5, <4>1
    <3>6. CASE l = n + 1  BY <1>2, <1>5, <1>12, <3>4, <3>6
    <3> QED  BY <1>6, <3>5, <3>6
  <2> QED  BY <1>6, <2>1, <2>2, <2>3
<1>13. Assembled(t, limits, G \cup {p})
  BY <1>5, <1>9, <1>10, <1>11, <1>12 DEF Assembled, W
<1> QED  BY <1>13 DEF t, w

LEMMA LimitWindowIs ==
  ASSUME NEW limits \in Limits, NEW p \in Places(limits), p[1] # 0,
         NEW weekly \in {"Weekly", "ModelWeekly"}
  PROVE  LET s == LimitWindow(limits, p, weekly)
         IN  /\ s \in Seq(AnyWindow(limits))
             /\ p \notin Given(limits) => s = <<>>
             /\ p \in Given(limits) /\ (IsWeekly(SlotAt(limits, p)) => weekly = KindAt(limits, p))
                  => s = <<WindowAt(limits, p)>>
<1> DEFINE s == LimitWindow(limits, p, weekly)
           slot == SlotAt(limits, p)
           kind == IF Is(limits, p, Weekly) THEN weekly ELSE "Other"
           w == WindowOf(limits, p, kind)
<1>1. p \in Given(limits) <=> slot # NoValue  BY DEF Given, Places
<1>2. ASSUME slot # NoValue PROVE s = <<w>>
  <2>1. s = <<CodexWindow(<<"codex", limits.byId[p[1]].id, p[2]>>, kind, slot.used, p,
                          limits.byId[p[1]].reserve /\ p[2] = "secondary")>>
    BY <1>2 DEF LimitWindow, Is
  <2>2. IdAt(limits, p) = <<"codex", limits.byId[p[1]].id, p[2]>>  BY DEF IdAt
  <2>3. ReserveAt(limits, p) = (limits.byId[p[1]].reserve /\ p[2] = "secondary")
    BY DEF ReserveAt
  <2> HIDE DEF s, kind
  <2> QED  BY <2>1, <2>2, <2>3 DEF WindowOf
<1>3. slot = NoValue => s = <<>>  BY DEF LimitWindow
<1>4. kind \in {"FiveHour", "Weekly", "ModelWeekly", "Other"}  OBVIOUS
<1>5. slot # NoValue => (IsWeekly(slot) <=> Is(limits, p, Weekly))  BY DEF IsWeekly, Is
<1>6. /\ Is(limits, p, Weekly) => kind = weekly
      /\ ~Is(limits, p, Weekly) => kind = "Other" /\ KindAt(limits, p) = "Other"
  BY DEF KindAt
<1>7. s \in Seq(AnyWindow(limits))
  <2> HIDE DEF s, slot, kind
  <2>1. CASE slot = NoValue
    <3>1. <<>> \in Seq(AnyWindow(limits))  OBVIOUS
    <3> QED  BY <1>3, <2>1, <3>1
  <2>2. CASE slot # NoValue
    <3>1. w \in AnyWindow(limits)  BY <1>1, <1>4, <2>2 DEF AnyWindow
    <3> HIDE DEF w
    <3>2. <<w>> \in Seq(AnyWindow(limits))  BY <3>1
    <3> QED  BY <1>2, <2>2, <3>2
  <2> QED  BY <2>1, <2>2
<1>8. ASSUME p \in Given(limits), IsWeekly(slot) => weekly = KindAt(limits, p)
      PROVE  s = <<WindowAt(limits, p)>>
  <2>1. kind = KindAt(limits, p)
    <3> HIDE DEF s, slot, kind
    <3> QED  BY <1>1, <1>5, <1>6, <1>8
  <2> HIDE DEF s, slot, kind
  <2> QED  BY <1>1, <1>2, <1>8, <2>1 DEF WindowAt
<1> HIDE DEF s
<1>9. p \notin Given(limits) => s = <<>>  BY <1>1, <1>3
<1>10. \/ ~(p \in Given(limits) /\ (IsWeekly(slot) => weekly = KindAt(limits, p)))
       \/ s = <<WindowAt(limits, p)>>
  BY <1>8
<1> HIDE DEF slot
<1> QED  BY <1>7, <1>9, <1>10 DEF s, slot

\* A slot of a limit adds its window, if it is there.
LEMMA AddSlot ==
  ASSUME NEW limits \in Limits, NEW G \in SUBSET Given(limits), NEW r,
         Assembled(r, limits, G), NEW p \in Places(limits), p[1] # 0, p \notin G,
         p[2] = "primary" => <<p[1], "secondary">> \notin G,
         NEW weekly \in {"Weekly", "ModelWeekly"},
         p \in Given(limits) /\ IsWeekly(SlotAt(limits, p)) => weekly = KindAt(limits, p)
  PROVE  Assembled(r \o LimitWindow(limits, p, weekly), limits, G \cup ({p} \cap Given(limits)))
<1> DEFINE s == LimitWindow(limits, p, weekly)
<1>1. /\ p \notin Given(limits) => s = <<>>
      /\ p \in Given(limits) => s = <<WindowAt(limits, p)>>
  BY LimitWindowIs
<1> HIDE DEF s
<1>2. CASE p \in Given(limits)
  <2>1. G \cup ({p} \cap Given(limits)) = G \cup {p}  BY <1>2
  <2>2. Assembled(r \o <<WindowAt(limits, p)>>, limits, G \cup {p})  BY <1>2, AddWindow
  <2> QED  BY <1>1, <1>2, <2>1, <2>2 DEF s
<1>3. CASE p \notin Given(limits)
  <2>1. G \cup ({p} \cap Given(limits)) = G  BY <1>3
  <2>2. r \in Seq(AnyWindow(limits))  BY DEF Assembled
  <2>3. r \o s = r  BY <1>1, <1>3, <2>2
  <2> QED  BY <2>1, <2>3 DEF s
<1> QED  BY <1>2, <1>3

\* A limit with a week is the account's if it is codex and no week came before.
LEMMA AccountIs ==
  ASSUME NEW limits \in Limits, NEW i \in DOMAIN limits.byId, NEW r,
         Assembled(r, limits, UpTo(limits, i - 1)),
         NEW p \in Given(limits), p[1] = i, IsWeekly(SlotAt(limits, p))
  PROVE  (limits.byId[i].codex /\ FreshPlaces(r, "Weekly") = {}) <=> i = AccountLimit(limits)
<1> DEFINE S == {k \in DOMAIN limits.byId :
                   /\ limits.byId[k].codex
                   /\ IsWeekly(limits.byId[k].primary) \/ IsWeekly(limits.byId[k].secondary)}
           A == AccountLimit(limits)
           G == UpTo(limits, i - 1)
           q == <<0, "secondary">>
<1>0. /\ Len(limits.byId) \in Nat /\ DOMAIN limits.byId = 1 .. Len(limits.byId)
      /\ i \in Nat /\ i # 0
  <2>1. limits.byId \in Seq(Limit)  BY DEF Limits
  <2> QED  BY <2>1
<1>1. A = IF IsWeekly(limits.secondary) THEN 0 ELSE FirstOf(S)  BY DEF AccountLimit
<1>2. /\ S \in SUBSET Nat /\ S \subseteq DOMAIN limits.byId /\ 0 \notin S  BY <1>0
<1>3. S = {} => FirstOf(S) = 0  BY DEF FirstOf
<1>4. S # {} => FirstOf(S) \in S /\ \A k \in S : FirstOf(S) <= k
  <2> HIDE DEF S
  <2> QED  BY <1>2, FirstOfPlaces
<1>5. limits.byId[i].codex => i \in S
  <2>1. SlotAt(limits, p) = limits.byId[i].primary \/ SlotAt(limits, p) = limits.byId[i].secondary
    BY <1>0 DEF SlotAt
  <2> QED  BY <2>1
<1>6. FreshPlaces(r, "Weekly") = {} <=> \A o \in G : KindAt(limits, o) # "Weekly"
  <2>1. ASSUME NEW o \in G, KindAt(limits, o) = "Weekly" PROVE FreshPlaces(r, "Weekly") # {}
    <3>1. PICK k \in DOMAIN r : r[k].from = o  BY DEF Assembled
    <3>2. r \in Seq(AnyWindow(limits)) /\ o \in Given(limits)  BY DEF Assembled, UpTo
    <3>3. o # <<>>  BY <3>2, GivenSlot
    <3>4. r[k] \in AnyWindow(limits)  BY <3>2
    <3>5. Fresh(r[k])  BY <3>1, <3>3, <3>4, AnyFresh
    <3>6. r[k] = WindowAt(limits, o)  BY <3>1, <3>5 DEF Assembled
    <3>7. r[k].kind = "Weekly"  BY <2>1, <3>2, <3>6, WindowFields DEF WindowAt
    <3> QED  BY <3>5, <3>7 DEF FreshPlaces
  <2>2. ASSUME NEW k \in FreshPlaces(r, "Weekly")
        PROVE  \E o \in G : KindAt(limits, o) = "Weekly"
    <3>1. k \in DOMAIN r /\ r[k].kind = "Weekly" /\ Fresh(r[k])  BY DEF FreshPlaces
    <3>2. PICK o \in G : r[k] = WindowAt(limits, o)  BY <3>1 DEF Assembled
    <3>3. o \in Given(limits)  BY DEF UpTo
    <3>4. WindowAt(limits, o).kind = KindAt(limits, o)  BY <3>3, WindowFields DEF WindowAt
    <3> QED  BY <3>1, <3>2, <3>4
  <2> QED  BY <2>1, <2>2
<1>7. \A o \in Given(limits) :
        KindAt(limits, o) = "Weekly" <=>
          /\ IsWeekly(SlotAt(limits, o)) /\ o[1] = A
          /\ o[1] = 0 => o[2] = "secondary"
  BY KindIs DEF A
<1>8. \A o \in G : o \in Given(limits) /\ o[1] <= i - 1  BY DEF UpTo
<1>9. q[1] = 0 /\ q[2] = "secondary" /\ SlotAt(limits, q) = limits.secondary
  BY DEF SlotAt
<1>10. IsWeekly(limits.secondary) => q \in G
  <2>1. q \in (0 .. Len(limits.byId)) \X {"primary", "secondary"} /\ q[1] <= i - 1  BY <1>0
  <2> HIDE DEF q
  <2> QED  BY <1>9, <2>1 DEF Given, UpTo, IsWeekly
<1>11. \A k \in S : k <= i - 1 => \E o \in G : o[1] = k /\ IsWeekly(SlotAt(limits, o))
  <2> SUFFICES ASSUME NEW k \in S, k <= i - 1
               PROVE  \E o \in G : o[1] = k /\ IsWeekly(SlotAt(limits, o))
    OBVIOUS
  <2>1. k \in DOMAIN limits.byId /\ k # 0 /\ k \in 0 .. Len(limits.byId)  BY <1>0, <1>2
  <2>2. PICK side \in {"primary", "secondary"} : IsWeekly(SlotAt(limits, <<k, side>>))
    <3>1. SlotAt(limits, <<k, "primary">>) = limits.byId[k].primary
          /\ SlotAt(limits, <<k, "secondary">>) = limits.byId[k].secondary
      BY <2>1 DEF SlotAt
    <3> QED  BY <3>1
  <2> DEFINE o == <<k, side>>
  <2>3. o \in (0 .. Len(limits.byId)) \X {"primary", "secondary"} /\ o[1] = k  BY <2>1
  <2>4. IsWeekly(SlotAt(limits, o))  BY <2>2
  <2> HIDE DEF o
  <2> QED  BY <2>3, <2>4 DEF Given, UpTo, IsWeekly
<1> HIDE DEF S, A, G, q
<1>12. ASSUME i = A PROVE limits.byId[i].codex /\ FreshPlaces(r, "Weekly") = {}
  <2>1. i \in S  BY <1>0, <1>1, <1>3, <1>4, <1>12
  <2>2. limits.byId[i].codex  BY <2>1 DEF S
  <2>3. \A o \in G : o[1] # A
    <3>1. ~(i <= i - 1)  BY <1>0
    <3> QED  BY <1>8, <1>12, <3>1
  <2> QED  BY <1>6, <1>7, <1>8, <2>2, <2>3
<1>13. ASSUME limits.byId[i].codex, FreshPlaces(r, "Weekly") = {} PROVE i = A
  <2>1. \A o \in G : KindAt(limits, o) # "Weekly"  BY <1>6, <1>13
  <2>2. ~IsWeekly(limits.secondary)
    <3> SUFFICES ASSUME IsWeekly(limits.secondary) PROVE FALSE  OBVIOUS
    <3>1. q \in G /\ A = 0  BY <1>1, <1>10
    <3> QED  BY <1>7, <1>8, <1>9, <2>1, <3>1
  <2>3. A \in S /\ \A k \in S : A <= k  BY <1>1, <1>4, <1>5, <1>13, <2>2
  <2>4. A <= i /\ A \in Nat /\ A # 0  BY <1>2, <1>5, <1>13, <2>3
  <2>5. ~(A <= i - 1)
    <3> SUFFICES ASSUME A <= i - 1 PROVE FALSE  OBVIOUS
    <3>1. PICK o \in G : o[1] = A /\ IsWeekly(SlotAt(limits, o))  BY <1>11, <2>3
    <3> QED  BY <1>7, <1>8, <2>1, <2>4, <3>1
  <2> QED  BY <1>0, <2>4, <2>5
<1> QED  BY <1>12, <1>13 DEF A

LEMMA LimitAdded ==
  ASSUME NEW limits \in Limits, NEW i \in DOMAIN limits.byId, NEW r,
         Assembled(r, limits, UpTo(limits, i - 1))
  PROVE  Assembled(LimitWindows(r, limits, i), limits, UpTo(limits, i))
<1> DEFINE p == <<i, "primary">>
           q == <<i, "secondary">>
           G == UpTo(limits, i - 1)
           weekly == IF limits.byId[i].codex /\ FreshPlaces(r, "Weekly") = {}
                     THEN "Weekly" ELSE "ModelWeekly"
           H == G \cup ({p} \cap Given(limits))
           a == r \o LimitWindow(limits, p, weekly)
           b == a \o LimitWindow(limits, q, weekly)
<1>1. i \in Nat /\ i # 0 /\ i \in 0 .. Len(limits.byId)
  <2>1. limits.byId \in Seq(Limit)  BY DEF Limits
  <2> QED  BY <2>1
<1>2. /\ p \in Places(limits) /\ q \in Places(limits) /\ p[1] = i /\ q[1] = i /\ p # q
      /\ p[2] = "primary" /\ q[2] = "secondary"
  BY <1>1 DEF Places
<1>3. LimitWindows(r, limits, i) = b  BY DEF LimitWindows
<1>4. weekly \in {"Weekly", "ModelWeekly"}  OBVIOUS
<1>5. ASSUME NEW o \in Given(limits), o[1] = i, IsWeekly(SlotAt(limits, o))
      PROVE  weekly = KindAt(limits, o)
  <2>1. (limits.byId[i].codex /\ FreshPlaces(r, "Weekly") = {}) <=> i = AccountLimit(limits)
    BY <1>5, AccountIs
  <2>2. KindAt(limits, o) = IF i = AccountLimit(limits) THEN "Weekly" ELSE "ModelWeekly"
    BY <1>1, <1>5 DEF KindAt, IsWeekly, Is
  <2> QED  BY <2>1, <2>2
<1> HIDE DEF weekly
<1>6. /\ G \in SUBSET Given(limits) /\ p \notin G /\ q \notin G /\ <<i, "secondary">> \notin G
  <2>1. \A o \in G : o \in Given(limits) /\ o[1] <= i - 1  BY DEF UpTo
  <2>2. ~(i <= i - 1)  BY <1>1
  <2>3. q = <<i, "secondary">>  OBVIOUS
  <2> HIDE DEF G, p, q
  <2> QED  BY <1>2, <2>1, <2>2, <2>3
<1>7. UpTo(limits, i) = H \cup ({q} \cap Given(limits))
  <2>1. \A o \in Given(limits) : o[1] <= i <=> o[1] <= i - 1 \/ o = p \/ o = q
    <3> SUFFICES ASSUME NEW o \in Given(limits)
                 PROVE  o[1] <= i <=> o[1] <= i - 1 \/ o = p \/ o = q
      OBVIOUS
    <3>1. o = <<o[1], o[2]>> /\ o[1] \in Nat /\ o[2] \in {"primary", "secondary"}
      BY GivenSlot
    <3>2. o[1] <= i <=> o[1] <= i - 1 \/ o[1] = i  BY <1>1, <3>1
    <3>3. o[1] = i => o = p \/ o = q  BY <3>1
    <3> QED  BY <1>2, <3>2, <3>3
  <2> HIDE DEF p, q
  <2> QED  BY <2>1 DEF UpTo
<1>8. Assembled(r, limits, G)  OBVIOUS
<1>s. <<q[1], "secondary">> = q /\ <<p[1], "secondary">> = q  BY <1>2
<1> HIDE DEF p, q, G
<1>9. Assembled(a, limits, H)
  BY <1>1, <1>2, <1>4, <1>5, <1>6, <1>8, <1>s, AddSlot
<1>10. H \in SUBSET Given(limits) /\ q \notin H  BY <1>2, <1>6
<1> HIDE DEF a, H
<1>11. Assembled(b, limits, H \cup ({q} \cap Given(limits)))
  <2>1. q[2] # "primary"  BY <1>2
  <2> QED  BY <1>1, <1>2, <1>4, <1>5, <1>9, <1>10, <2>1, AddSlot
<1> QED  BY <1>3, <1>7, <1>11

LEMMA AllAssembled ==
  ASSUME NEW limits \in Limits
  PROVE  Assembled(AllWindows(limits), limits, Given(limits))
<1> DEFINE n == Len(limits.byId)
           S == Seq(AnyWindow(limits))
           base == BaseWindows(limits)
           After(r, i) == LimitWindows(r, limits, i)
           step == [p \in (1 .. n) \X S |-> After(p[2], p[1])]
           Fold(f) == f = [i \in 0 .. n |-> IF i = 0 THEN base ELSE After(f[i - 1], i)]
<1>0. n \in Nat /\ DOMAIN limits.byId = 1 .. n
  <2>1. limits.byId \in Seq(Limit)  BY DEF Limits
  <2> QED  BY <2>1
<1>1. \A r \in S, i \in 1 .. n : After(r, i) \in S
  <2> SUFFICES ASSUME NEW r \in S, NEW i \in 1 .. n PROVE After(r, i) \in S  OBVIOUS
  <2>1. PICK weekly \in {"Weekly", "ModelWeekly"} :
          After(r, i) = r \o LimitWindow(limits, <<i, "primary">>, weekly)
                          \o LimitWindow(limits, <<i, "secondary">>, weekly)
    BY DEF LimitWindows
  <2> DEFINE p == <<i, "primary">>
             q == <<i, "secondary">>
             u == LimitWindow(limits, p, weekly)
             v == LimitWindow(limits, q, weekly)
  <2>2. p \in Places(limits) /\ q \in Places(limits) /\ p[1] # 0 /\ q[1] # 0
    BY <1>0 DEF Places
  <2> HIDE DEF p, q
  <2>3. u \in S /\ v \in S  BY <2>2, LimitWindowIs
  <2>4. After(r, i) = (r \o u) \o v  BY <2>1 DEF p, q
  <2> HIDE DEF u, v, After
  <2> QED  BY <2>3, <2>4
<1>2. step \in [(1 .. n) \X S -> S]
  <2> HIDE DEF After, S
  <2> QED  BY <1>1
<1>3. base \in S  BY BaseAre
<1>4. PICK f : Folded(f, S, base, n, step)
  <2> HIDE DEF step, n, S, base
  <2> QED  BY <1>0, <1>2, <1>3, FoldExists
<1> HIDE DEF n, S, base
<1>5. f \in [0 .. n -> S] /\ f[0] = base /\ \A i \in 1 .. n : f[i - 1] \in S
  <2> HIDE DEF step
  <2> QED  BY <1>0, <1>4 DEF Folded
<1>6. Fold(f)
  <2> HIDE DEF After
  <2>1. \A i \in 1 .. n : f[i] = After(f[i - 1], i)  BY <1>4, <1>5 DEF Folded
  <2>2. f = [i \in 0 .. n |-> f[i]]  BY <1>5
  <2>3. \A i \in 0 .. n : f[i] = IF i = 0 THEN base ELSE After(f[i - 1], i)
    BY <1>0, <1>5, <2>1
  <2> QED  BY <2>2, <2>3
<1>7. PICK g : Fold(g) /\ AllWindows(limits) = g[n]
  <2> DEFINE c == CHOOSE g : Fold(g)
  <2>1. AllWindows(limits) = c[n]  BY DEF AllWindows, n, base
  <2> HIDE DEF Fold
  <2>2. Fold(c)  BY <1>6
  <2> HIDE DEF c
  <2> QED  BY <2>1, <2>2
<1>8. g[0] = base /\ \A i \in 1 .. n : g[i] = After(g[i - 1], i)
  <2> HIDE DEF After
  <2> QED  BY <1>0, <1>7
<1> DEFINE P == {i \in 0 .. n : Assembled(g[i], limits, UpTo(limits, i))}
<1>9. 0 \in P  BY <1>0, <1>8, BaseAssembled DEF base
<1>10. \A i \in 1 .. n : i - 1 \in P => i \in P
  <2> SUFFICES ASSUME NEW i \in 1 .. n, i - 1 \in P PROVE i \in P  OBVIOUS
  <2>1. Assembled(g[i - 1], limits, UpTo(limits, i - 1))  OBVIOUS
  <2>2. Assembled(After(g[i - 1], i), limits, UpTo(limits, i))  BY <1>0, <2>1, LimitAdded
  <2>3. g[i] = After(g[i - 1], i)  BY <1>8
  <2> HIDE DEF After
  <2>4. Assembled(g[i], limits, UpTo(limits, i))  BY <2>2, <2>3
  <2>5. i \in 0 .. n  BY <1>0
  <2> QED  BY <2>4, <2>5
<1>11. \A i \in 0 .. n : i \in P
  <2> HIDE DEF P
  <2> QED  BY <1>0, <1>9, <1>10, IndexInduction
<1>12. Assembled(g[n], limits, UpTo(limits, n))
  <2>1. n \in P
    <3> HIDE DEF P
    <3> QED  BY <1>0, <1>11
  <2> QED  BY <2>1
<1>13. UpTo(limits, n) = Given(limits)
  <2>1. \A p \in Given(limits) : p[1] <= n  BY <1>0 DEF Given, n
  <2> QED  BY <2>1 DEF UpTo
<1> QED  BY <1>7, <1>12, <1>13

\* The window k of a selection is the window src[k] of ws, or a missing one.
IsSelection(sel, src, ws, W) ==
    /\ sel \in Seq(W) /\ Len(sel) >= 2
    /\ src \in [DOMAIN sel -> 0..Len(ws)]
    /\ \A k \in DOMAIN sel : src[k] = 0 => k \in {1, 2} /\ sel[k] = ExpectedUnavailable[k]
    /\ \A k \in DOMAIN sel : src[k] # 0 => sel[k] = ws[src[k]] /\ Fresh(sel[k])
    /\ \A k, l \in DOMAIN sel : src[k] # 0 /\ src[k] = src[l] => k = l
    /\ \A j \in DOMAIN ws : Fresh(ws[j]) => \E k \in DOMAIN sel : src[k] = j
    /\ src[1] = FirstOf(FreshPlaces(ws, "FiveHour"))
    /\ src[2] = FirstOf(FreshPlaces(ws, "Weekly"))

LEMMA FirstFresh ==
  ASSUME NEW W, NEW ws \in Seq(W), NEW kind
  PROVE  LET f == FirstOf(FreshPlaces(ws, kind))
         IN  \/ f = 0 /\ FreshPlaces(ws, kind) = {}
             \/ f \in DOMAIN ws /\ f # 0 /\ ws[f].kind = kind /\ Fresh(ws[f])
<1> DEFINE I == FreshPlaces(ws, kind)
<1>1. I \in SUBSET Nat /\ 0 \notin I  BY DEF FreshPlaces
<1>2. \A f \in I : f \in DOMAIN ws /\ ws[f].kind = kind /\ Fresh(ws[f])  BY DEF FreshPlaces
<1> HIDE DEF I
<1>3. CASE I = {}  BY <1>1, <1>3, FirstOfPlaces DEF I
<1>4. CASE I # {}
  <2>1. FirstOf(I) \in I  BY <1>1, <1>4, FirstOfPlaces
  <2> QED  BY <1>1, <1>2, <2>1 DEF I
<1> QED  BY <1>3, <1>4

LEMMA SelectedFrom ==
  ASSUME NEW W, NEW ws \in Seq(W), ExpectedUnavailable[1] \in W, ExpectedUnavailable[2] \in W
  PROVE  \E src : IsSelection(Selected(ws), src, ws, W)
<1> DEFINE five == FirstOf(FreshPlaces(ws, "FiveHour"))
           week == FirstOf(FreshPlaces(ws, "Weekly"))
           others == {i \in DOMAIN ws : i \notin {five, week} /\ Fresh(ws[i])}
           z == Sift(ws, others)
           a == IF five = 0 THEN ExpectedUnavailable[1] ELSE ws[five]
           b == IF week = 0 THEN ExpectedUnavailable[2] ELSE ws[week]
           sel == <<a, b>> \o z
           m == Len(z)
<1>1. Selected(ws) = sel  BY DEF Selected
<1>2. \/ five = 0 /\ FreshPlaces(ws, "FiveHour") = {}
      \/ five \in DOMAIN ws /\ five # 0 /\ ws[five].kind = "FiveHour" /\ Fresh(ws[five])
  BY FirstFresh
<1>3. \/ week = 0 /\ FreshPlaces(ws, "Weekly") = {}
      \/ week \in DOMAIN ws /\ week # 0 /\ ws[week].kind = "Weekly" /\ Fresh(ws[week])
  BY FirstFresh
<1>4. DOMAIN ws = 1..Len(ws) /\ Len(ws) \in Nat  OBVIOUS
<1> HIDE DEF five, week
<1>5. others \in SUBSET (DOMAIN ws)  OBVIOUS
<1>6. /\ \A i \in others : i \in 1..Len(ws) /\ i # five /\ i # week /\ Fresh(ws[i])
      /\ \A i \in DOMAIN ws : Fresh(ws[i]) => i = five \/ i = week \/ i \in others
  OBVIOUS
<1> HIDE DEF others
<1>7. z \in Seq(W) /\ \E at : Picks(z, at, ws, others)  BY <1>5, SiftPicks
<1>8. PICK at : Picks(z, at, ws, others)  BY <1>7
<1> HIDE DEF z
<1>9. m \in Nat /\ at \in [1..m -> others]  BY <1>7, <1>8 DEF Picks
<1>10. a \in W /\ b \in W
  <2>2. five # 0 => ws[five] \in W  BY <1>2
  <2>3. week # 0 => ws[week] \in W  BY <1>3
  <2> QED  BY <2>2, <2>3
<1>a. /\ five = 0 => a = ExpectedUnavailable[1]
      /\ five # 0 => a = ws[five]
      /\ week = 0 => b = ExpectedUnavailable[2]
      /\ week # 0 => b = ws[week]
  OBVIOUS
<1> HIDE DEF a, b
<1>11. /\ sel \in Seq(W) /\ Len(sel) = m + 2 /\ DOMAIN sel = 1..m + 2
       /\ sel[1] = a /\ sel[2] = b
       /\ \A k \in 1..m : sel[k + 2] = z[k]
  BY <1>7, <1>9, <1>10
<1> HIDE DEF sel, m
<1> DEFINE src == [k \in 1..m + 2 |-> IF k = 1 THEN five ELSE IF k = 2 THEN week ELSE at[k - 2]]
<1>12. \A k \in 1..m + 2 : \/ k = 1 /\ src[k] = five
                           \/ k = 2 /\ src[k] = week
                           \/ k - 2 \in 1..m /\ src[k] = at[k - 2] /\ at[k - 2] \in others
                              /\ sel[k] = ws[at[k - 2]]
  <2> SUFFICES ASSUME NEW k \in 1..m + 2, k # 1, k # 2
               PROVE  k - 2 \in 1..m /\ src[k] = at[k - 2] /\ at[k - 2] \in others
                      /\ sel[k] = ws[at[k - 2]]
    BY <1>9
  <2>1. k - 2 \in 1..m /\ (k - 2) + 2 = k  BY <1>9
  <2> DEFINE l == k - 2
  <2>2. l \in 1..m /\ l + 2 = k  BY <2>1
  <2>3. src[k] = at[l]  OBVIOUS
  <2> HIDE DEF l, src
  <2>4. sel[l + 2] = z[l] /\ at[l] \in others  BY <1>9, <1>11, <2>2
  <2>5. z[l] = ws[at[l]]  BY <1>8, <2>2 DEF Picks, m
  <2>6. l \in 1..m /\ src[k] = at[l] /\ at[l] \in others /\ sel[k] = ws[at[l]]
    BY <2>2, <2>3, <2>4, <2>5
  <2> QED  BY <2>6 DEF l
<1>13. src[1] = five /\ src[2] = week  BY <1>9
<1>14. \A l \in 1..m : l + 2 \in 1..m + 2 /\ src[l + 2] = at[l]
  <2> SUFFICES ASSUME NEW l \in 1..m PROVE l + 2 \in 1..m + 2 /\ src[l + 2] = at[l]
    OBVIOUS
  <2>1. l + 2 \in 1..m + 2 /\ l + 2 # 1 /\ l + 2 # 2 /\ (l + 2) - 2 = l  BY <1>9
  <2> QED  BY <2>1
<1>15. src \in [1..m + 2 -> 0..Len(ws)]
  <2>1. five \in 0..Len(ws) /\ week \in 0..Len(ws)  BY <1>2, <1>3, <1>4
  <2>2. \A i \in others : i \in 0..Len(ws)  BY <1>4, <1>6
  <2>3. \A k \in 1..m + 2 : src[k] \in 0..Len(ws)
    <3> HIDE DEF src
    <3> QED  BY <1>12, <2>1, <2>2
  <2> QED  BY <2>3
<1> HIDE DEF src
<1>16. \A k \in 1..m + 2 : src[k] = 0 => k \in {1, 2} /\ sel[k] = ExpectedUnavailable[k]
  BY <1>4, <1>6, <1>11, <1>12, <1>a
<1>17. \A k \in 1..m + 2 : src[k] # 0 => sel[k] = ws[src[k]] /\ Fresh(sel[k])
  BY <1>2, <1>3, <1>6, <1>11, <1>12, <1>a
<1>18. \A k, l \in 1..m + 2 : src[k] # 0 /\ src[k] = src[l] => k = l
  <2>1. five # 0 => five # week  BY <1>2, <1>3
  <2>2. \A i, j \in 1..m : at[i] = at[j] => i = j
    <3>1. \A i, j \in 1..m : i < j => at[i] < at[j]  BY <1>8 DEF Picks, m
    <3>2. \A i \in 1..m : at[i] \in Nat  BY <1>4, <1>6, <1>9
    <3> QED  BY <1>9, <3>1, <3>2
  <2> SUFFICES ASSUME NEW k \in 1..m + 2, NEW l \in 1..m + 2, src[k] # 0, src[k] = src[l]
               PROVE  k = l
    OBVIOUS
  <2>3. CASE k - 2 \in 1..m /\ src[k] = at[k - 2] /\ at[k - 2] \in others
    <3>1. src[l] # five /\ src[l] # week  BY <1>6, <2>3
    <3>2. l - 2 \in 1..m /\ src[l] = at[l - 2]  BY <1>12, <3>1
    <3>3. k - 2 = l - 2  BY <2>2, <2>3, <3>2
    <3> QED  BY <1>9, <3>3
  <2>4. CASE k = 1 /\ src[k] = five
    <3>1. src[l] # week /\ src[l] \notin others  BY <1>6, <2>1, <2>4
    <3> QED  BY <1>12, <2>4, <3>1
  <2>5. CASE k = 2 /\ src[k] = week
    <3>1. src[l] # five /\ src[l] \notin others  BY <1>6, <2>1, <2>5
    <3> QED  BY <1>12, <2>5, <3>1
  <2> QED  BY <1>12, <2>3, <2>4, <2>5
<1>19. ASSUME NEW j \in DOMAIN ws, Fresh(ws[j]) PROVE \E k \in 1..m + 2 : src[k] = j
  <2>1. 1 \in 1..m + 2 /\ 2 \in 1..m + 2  BY <1>9
  <2>2. CASE j = five  BY <1>13, <2>1, <2>2
  <2>3. CASE j = week  BY <1>13, <2>1, <2>3
  <2>4. CASE j \in others
    <3>1. PICK l \in 1..m : at[l] = j  BY <1>8, <2>4 DEF Picks, m
    <3> QED  BY <1>14, <3>1
  <2> QED  BY <1>6, <1>19, <2>2, <2>3, <2>4
<1>20. IsSelection(sel, src, ws, W)
  <2>1. Len(sel) >= 2  BY <1>9, <1>11
  <2> QED  BY <1>11, <1>13, <1>15, <1>16, <1>17, <1>18, <1>19, <2>1 DEF IsSelection, five, week
<1> QED  BY <1>1, <1>20

\* The selection of all windows: every place once, and of the account's week the
\* first slot.
IsChosen(sel, limits) ==
    /\ sel \in Seq(AnyWindow(limits)) /\ 1 \in DOMAIN sel /\ 2 \in DOMAIN sel
    /\ sel[1].kind = "FiveHour" /\ sel[2].kind = "Weekly"
    /\ \A k \in DOMAIN sel :
         Fresh(sel[k]) => sel[k].from \in Given(limits) /\ sel[k] = WindowAt(limits, sel[k].from)
    /\ \A k \in DOMAIN sel : ~Fresh(sel[k]) => sel[k].from = <<>> /\ sel[k].id \in {Five, Week}
    /\ \A p \in Given(limits) : \E k \in DOMAIN sel : sel[k].from = p
    /\ \A k, l \in DOMAIN sel : Fresh(sel[k]) /\ sel[k].from = sel[l].from => k = l
    /\ \A p \in Given(limits) : KindAt(limits, p) = "Weekly" =>
         /\ sel[2].from \in Given(limits) /\ KindAt(limits, sel[2].from) = "Weekly"
         /\ \A n : sel[2].from = <<n, "secondary">> => p # <<n, "primary">>

LEMMA SelectionIs ==
  ASSUME NEW limits \in Limits, NEW ws, Assembled(ws, limits, Given(limits)), NEW sel, NEW src,
         IsSelection(sel, src, ws, AnyWindow(limits))
  PROVE  IsChosen(sel, limits)
<1> DEFINE W == AnyWindow(limits)
           e == ExpectedUnavailable
           week == src[2]
<1>1. /\ sel \in Seq(W) /\ Len(sel) >= 2 /\ 1 \in DOMAIN sel /\ 2 \in DOMAIN sel
      /\ \A k \in DOMAIN sel : src[k] \in 0 .. Len(ws)
  BY DEF IsSelection
<1>2. ws \in Seq(W) /\ Len(ws) \in Nat /\ DOMAIN ws = 1 .. Len(ws)  BY DEF Assembled
<1>3. \A k \in DOMAIN sel : src[k] # 0 => src[k] \in DOMAIN ws  BY <1>1, <1>2
<1>4. LET f == FirstOf(FreshPlaces(ws, "FiveHour"))
      IN  \/ f = 0
          \/ f # 0 /\ ws[f].kind = "FiveHour"
  BY <1>2, FirstFresh
<1>5. \/ week = 0 /\ FreshPlaces(ws, "Weekly") = {}
      \/ week # 0 /\ week \in FreshPlaces(ws, "Weekly") /\ ws[week].kind = "Weekly"
         /\ \A j \in FreshPlaces(ws, "Weekly") : week <= j
  <2> DEFINE I == FreshPlaces(ws, "Weekly")
  <2>1. week = FirstOf(I)  BY DEF IsSelection
  <2>2. I \in SUBSET Nat /\ I \subseteq DOMAIN ws /\ 0 \notin I
        /\ \A j \in I : ws[j].kind = "Weekly"
    BY <1>2 DEF FreshPlaces
  <2> HIDE DEF I
  <2>3. I = {} => FirstOf(I) = 0  BY DEF FirstOf
  <2>4. I # {} => FirstOf(I) \in I /\ \A j \in I : FirstOf(I) <= j  BY <2>2, FirstOfPlaces
  <2> QED  BY <2>1, <2>2, <2>3, <2>4 DEF I
<1>6. /\ e[1].id = Five /\ e[1].kind = "FiveHour" /\ e[1].from = <<>> /\ ~Fresh(e[1])
      /\ e[2].id = Week /\ e[2].kind = "Weekly" /\ e[2].from = <<>> /\ ~Fresh(e[2])
  BY MissingFields
<1>7. \A k \in DOMAIN sel : \/ src[k] = 0 /\ sel[k] = e[k] /\ k \in {1, 2}
                            \/ src[k] # 0 /\ sel[k] = ws[src[k]] /\ Fresh(sel[k])
  BY DEF IsSelection
<1>8. \A k, l \in DOMAIN sel : src[k] # 0 /\ src[k] = src[l] => k = l  BY DEF IsSelection
<1>9. src[1] = FirstOf(FreshPlaces(ws, "FiveHour"))  BY DEF IsSelection
<1> HIDE DEF W, e, week
<1>10. sel[1].kind = "FiveHour"  BY <1>1, <1>4, <1>6, <1>7, <1>9
<1>11. sel[2].kind = "Weekly"  BY <1>1, <1>5, <1>6, <1>7 DEF week
<1>12. ASSUME NEW k \in DOMAIN sel, Fresh(sel[k])
       PROVE  /\ src[k] \in DOMAIN ws /\ src[k] # 0 /\ sel[k] = ws[src[k]]
              /\ sel[k].from \in Given(limits) /\ sel[k] = WindowAt(limits, sel[k].from)
  <2>1. src[k] # 0  BY <1>6, <1>7, <1>12
  <2>2. sel[k] = ws[src[k]] /\ src[k] \in DOMAIN ws  BY <1>3, <1>7, <2>1
  <2> QED  BY <1>12, <2>1, <2>2 DEF Assembled
<1>13. \A k \in DOMAIN sel : ~Fresh(sel[k]) => sel[k].from = <<>> /\ sel[k].id \in {Five, Week}
  BY <1>6, <1>7
<1>14. ASSUME NEW p \in Given(limits)
       PROVE  \E j \in DOMAIN ws : ws[j].from = p /\ Fresh(ws[j]) /\ ws[j] = WindowAt(limits, p)
  <2>1. PICK j \in DOMAIN ws : ws[j].from = p  BY DEF Assembled
  <2>2. ws[j] \in W  BY <1>2
  <2>3. p # <<>>  BY GivenSlot
  <2>4. Fresh(ws[j])  BY <2>1, <2>2, <2>3, AnyFresh DEF W
  <2>5. ws[j] = WindowAt(limits, p)  BY <2>1, <2>4 DEF Assembled
  <2> QED  BY <2>1, <2>4, <2>5
<1>15. ASSUME NEW p \in Given(limits) PROVE \E k \in DOMAIN sel : sel[k].from = p
  <2>1. PICK j \in DOMAIN ws : ws[j].from = p /\ Fresh(ws[j])  BY <1>14
  <2>2. PICK k \in DOMAIN sel : src[k] = j  BY <2>1 DEF IsSelection
  <2>3. j # 0  BY <1>2
  <2> QED  BY <1>7, <2>1, <2>2, <2>3
<1>16. ASSUME NEW k \in DOMAIN sel, NEW l \in DOMAIN sel, Fresh(sel[k]), sel[k].from = sel[l].from
       PROVE  k = l
  <2>1. src[k] \in DOMAIN ws /\ src[k] # 0 /\ sel[k] = ws[src[k]] /\ sel[k].from \in Given(limits)
    BY <1>12, <1>16
  <2>2. sel[k].from # <<>>  BY <2>1, GivenSlot
  <2>3. Fresh(sel[l])  BY <1>13, <1>16, <2>2
  <2>4. src[l] \in DOMAIN ws /\ sel[l] = ws[src[l]]  BY <1>12, <2>3
  <2>5. src[k] = src[l]  BY <1>16, <2>1, <2>4 DEF Assembled
  <2> QED  BY <1>8, <2>1, <2>5
<1>17. ASSUME NEW p \in Given(limits), KindAt(limits, p) = "Weekly"
       PROVE  /\ sel[2].from \in Given(limits) /\ KindAt(limits, sel[2].from) = "Weekly"
              /\ \A n : sel[2].from = <<n, "secondary">> => p # <<n, "primary">>
  <2>1. PICK j \in DOMAIN ws : ws[j].from = p /\ Fresh(ws[j]) /\ ws[j] = WindowAt(limits, p)
    BY <1>14
  <2>2. ws[j].kind = "Weekly"  BY <1>17, <2>1, WindowFields DEF WindowAt
  <2>3. j \in FreshPlaces(ws, "Weekly")  BY <2>1, <2>2 DEF FreshPlaces
  <2>4. week # 0 /\ week \in FreshPlaces(ws, "Weekly") /\ week <= j  BY <1>5, <2>3
  <2>5. sel[2] = ws[week] /\ Fresh(sel[2])  BY <1>1, <1>7, <2>4 DEF week
  <2>6. sel[2].from \in Given(limits) /\ sel[2] = WindowAt(limits, sel[2].from)
    BY <1>1, <1>12, <2>5
  <2>7. KindAt(limits, sel[2].from) = "Weekly"
    <3>1. PICK o \in Given(limits) : o = sel[2].from  BY <2>6
    <3>2. WindowAt(limits, o).kind = KindAt(limits, o)  BY WindowFields DEF WindowAt
    <3> QED  BY <1>11, <2>6, <3>1, <3>2
  <2>8. ASSUME NEW n, sel[2].from = <<n, "secondary">>, p = <<n, "primary">> PROVE FALSE
    <3>1. week \in DOMAIN ws /\ week \in Nat /\ j \in Nat  BY <1>2, <2>4 DEF FreshPlaces
    <3>2. ws[j].from = <<n, "primary">> /\ ws[week].from = <<n, "secondary">>
      BY <2>1, <2>5, <2>8
    <3>3. j < week  BY <3>1, <3>2 DEF Assembled
    <3> QED  BY <2>4, <3>1, <3>3
  <2> QED  BY <2>6, <2>7, <2>8
<1>18. IsChosen(sel, limits)
  BY <1>1, <1>10, <1>11, <1>12, <1>13, <1>15, <1>16, <1>17 DEF IsChosen, W
<1> QED  BY <1>18

(* -- Codex: the windows on the card -------------------------------------- *)

LEMMA IdsDiffer ==
  \A key, side : <<"codex", key, side>> \notin {Five, Week, OtherFive, OtherWeek}
<1> SUFFICES ASSUME NEW key, NEW side
             PROVE  <<"codex", key, side>> \notin {Five, Week, OtherFive, OtherWeek}
  OBVIOUS
<1>1. Len(<<"codex", key, side>>) = 3  OBVIOUS
<1>2. Len(Five) = 2 /\ Len(Week) = 2 /\ Len(OtherFive) = 2 /\ Len(OtherWeek) = 2
  BY DEF Five, Week, OtherFive, OtherWeek
<1> QED  BY <1>1, <1>2

OwnIds(limits) ==
    \A k, l \in DOMAIN limits.byId : limits.byId[k].id = limits.byId[l].id => k = l

LEMMA IdAtDiffers ==
  ASSUME NEW limits \in Limits, OwnIds(limits), NEW p \in Given(limits), p[1] # 0,
         NEW q \in Given(limits), IdAt(limits, p) = IdAt(limits, q)
  PROVE  p = q
<1>1. /\ p = <<p[1], p[2]>> /\ p[1] \in DOMAIN limits.byId
      /\ q = <<q[1], q[2]>>
      /\ q[1] # 0 => q[1] \in DOMAIN limits.byId
  BY GivenSlot
<1>2. IdAt(limits, p) = <<"codex", limits.byId[p[1]].id, p[2]>>  BY DEF IdAt
<1>3. CASE q[1] = 0
  <2>1. IdAt(limits, q) \in {Five, Week, OtherFive, OtherWeek}  BY <1>3 DEF IdAt
  <2> QED  BY <1>2, <2>1, IdsDiffer
<1>4. CASE q[1] # 0
  <2>0. IdAt(limits, q) = <<"codex", limits.byId[q[1]].id, q[2]>>  BY <1>4 DEF IdAt
  <2>1. <<"codex", limits.byId[p[1]].id, p[2]>> = <<"codex", limits.byId[q[1]].id, q[2]>>
    BY <1>2, <2>0
  <2>2. limits.byId[p[1]].id = limits.byId[q[1]].id /\ p[2] = q[2]  BY <2>1
  <2>3. p[1] = q[1]  BY <1>1, <1>4, <2>2 DEF OwnIds
  <2> QED  BY <1>1, <2>2, <2>3
<1> QED  BY <1>3, <1>4

\* The windows of the limits by id, but not the account's nor the reserve's.
ShownAt(limits, p) ==
    /\ p[1] # 0
    /\ KindAt(limits, p) = "Other" \/ (KindAt(limits, p) = "ModelWeekly" /\ ~ReserveAt(limits, p))

LEMMA ShownIs ==
  ASSUME NEW limits \in Limits, NEW p \in Given(limits)
  PROVE  Shown("codex", WindowAt(limits, p)) <=> ShownAt(limits, p)
<1> DEFINE w == WindowAt(limits, p)
<1>1. /\ w.id = IdAt(limits, p) /\ w.kind = KindAt(limits, p) /\ w.reserve = ReserveAt(limits, p)
  BY WindowFields DEF WindowAt
<1> HIDE DEF w
<1>2. Shown("codex", w) <=> \/ w.kind = "ModelWeekly" /\ ~w.reserve
                            \/ w.kind = "Other" /\ Len(w.id) = 3
  BY DEF Shown
<1>3. CASE p[1] = 0
  <2>1. w.id \in {Five, Week, OtherFive, OtherWeek}  BY <1>1, <1>3 DEF IdAt
  <2>2. Len(Five) = 2 /\ Len(Week) = 2 /\ Len(OtherFive) = 2 /\ Len(OtherWeek) = 2
    BY DEF Five, Week, OtherFive, OtherWeek
  <2>3. Len(w.id) # 3  BY <2>1, <2>2
  <2>4. w.kind # "ModelWeekly"  BY <1>1, <1>3 DEF KindAt
  <2> QED  BY <1>2, <1>3, <2>3, <2>4 DEF ShownAt, w
<1>4. CASE p[1] # 0
  <2>1. w.id = <<"codex", limits.byId[p[1]].id, p[2]>>  BY <1>1, <1>4 DEF IdAt
  <2>2. Len(w.id) = 3  BY <2>1
  <2>3. ShownAt(limits, p) <=> w.kind = "Other" \/ (w.kind = "ModelWeekly" /\ ~w.reserve)
    BY <1>1, <1>4 DEF ShownAt
  <2> QED  BY <1>2, <2>2, <2>3 DEF w
<1> QED  BY <1>3, <1>4

LEMMA CodexCard ==
  ASSUME NEW W, NEW sel \in Seq(W), 2 \in DOMAIN sel,
         sel[1].kind = "FiveHour", sel[2].kind = "Weekly"
  PROVE  /\ CardIs(Card("codex", sel), <<sel[2]>>, sel, Additions("codex", sel))
         /\ PrimaryWindows("codex", sel) = <<sel[2]>>
         /\ CompactAgrees("codex", sel)
<1> DEFINE I == {i \in DOMAIN sel : sel[i].kind = "Weekly"}
           primary == ByKind(sel, "Weekly")
<1>1. primary \in Seq(W) /\ IsFirstWhere(primary, sel, I)  BY FirstOfKind
<1>2. 2 \in I /\ 1 \notin I /\ I \in SUBSET Nat /\ 0 \notin I
  <2>1. DOMAIN sel = 1 .. Len(sel) /\ Len(sel) \in Nat  OBVIOUS
  <2> QED  BY <2>1
<1>3. PrimaryWindows("codex", sel) = primary /\ CompactWeekly("codex", sel) = primary
  BY DEF PrimaryWindows, CompactWeekly
<1> HIDE DEF primary, I
<1>4. PICK i \in I : primary = <<sel[i]>> /\ \A j \in I : i <= j
  BY <1>1, <1>2 DEF IsFirstWhere
<1>5. i = 2
  <2>1. i \in Nat /\ i <= 2 /\ i # 0 /\ i # 1  BY <1>2, <1>4
  <2> QED  BY <2>1
<1>6. primary = <<sel[2]>>  BY <1>4, <1>5
<1>7. IdsDistinct(primary)  BY <1>6 DEF IdsDistinct
<1>8. CardIs(Card("codex", sel), primary, sel, Additions("codex", sel))
  BY <1>1, <1>3, <1>7, OnCard
<1>9. CompactAgrees("codex", sel)
  <2>1. <<>> \o primary = primary /\ primary = primary \o <<>>  BY <1>1
  <2>2. IsPrefix(primary, primary)
    <3>1. <<>> \in Seq(W)  OBVIOUS
    <3>2. IsPrefix(primary, primary \o <<>>)  BY <1>1, <3>1, StartIsPrefix
    <3> QED  BY <2>1, <3>2
  <2> QED  BY <1>3, <2>1, <2>2 DEF CompactAgrees
<1> QED  BY <1>3, <1>6, <1>8, <1>9

\* On the card is the second window, and what may be shown.
LEMMA OnTheCard ==
  ASSUME NEW limits \in Limits, OwnIds(limits), NEW sel, IsChosen(sel, limits),
         NEW p \in Given(limits)
  PROVE  LET card == Card("codex", sel)
         IN  (\E i \in DOMAIN card : card[i].from = p) <=> sel[2].from = p \/ ShownAt(limits, p)
<1> DEFINE card == Card("codex", sel)
           I == Additions("codex", sel)
<1>1. sel \in Seq(AnyWindow(limits)) /\ DOMAIN sel = 1 .. Len(sel) /\ Len(sel) \in Nat
      /\ 2 \in DOMAIN sel /\ sel[1].kind = "FiveHour" /\ sel[2].kind = "Weekly"
  BY DEF IsChosen
<1>2. CardIs(card, <<sel[2]>>, sel, I) /\ PrimaryWindows("codex", sel) = <<sel[2]>>
  BY <1>1, CodexCard
<1>3. \A i \in DOMAIN sel :
        i \in I <=> /\ sel[2].id # sel[i].id
                    /\ ~\E j \in 1 .. i - 1 : sel[j].id = sel[i].id
                    /\ Shown("codex", sel[i])
  <2>1. \A x : DOMAIN <<sel[2]>> = {1} /\ <<sel[2]>>[1] = sel[2]  OBVIOUS
  <2> QED  BY <1>2, <2>1 DEF Additions
<1>4. I \subseteq DOMAIN sel  BY DEF Additions
<1>5. PICK k \in DOMAIN sel : sel[k].from = p  BY DEF IsChosen
<1>6. p # <<>>  BY GivenSlot
<1>7. Fresh(sel[k])  BY <1>5, <1>6 DEF IsChosen
<1>8. sel[k] = WindowAt(limits, p)  BY <1>5, <1>7 DEF IsChosen
<1>9. \A l \in DOMAIN sel : sel[l].from = p => l = k  BY <1>5, <1>7 DEF IsChosen
<1>10. sel[k].id = IdAt(limits, p)  BY <1>8, WindowFields DEF WindowAt
<1>11. Shown("codex", sel[k]) <=> ShownAt(limits, p)  BY <1>8, ShownIs
<1>12. ASSUME ShownAt(limits, p), NEW l \in DOMAIN sel, sel[l].id = sel[k].id PROVE l = k
  <2>1. p[1] # 0  BY <1>12 DEF ShownAt
  <2>2. CASE Fresh(sel[l])
    <3>1. PICK q \in Given(limits) : q = sel[l].from /\ sel[l] = WindowAt(limits, q)
      BY <2>2 DEF IsChosen
    <3>2. sel[l].id = IdAt(limits, q)  BY <3>1, WindowFields DEF WindowAt
    <3>3. p = q  BY <1>10, <1>12, <2>1, <3>2, IdAtDiffers
    <3> QED  BY <1>9, <3>1, <3>3
  <2>3. CASE ~Fresh(sel[l])
    <3>1. sel[l].id \in {Five, Week}  BY <2>3 DEF IsChosen
    <3>2. IdAt(limits, p) = <<"codex", limits.byId[p[1]].id, p[2]>>  BY <2>1 DEF IdAt
    <3> QED  BY <1>10, <1>12, <3>1, <3>2, IdsDiffer
  <2> QED  BY <2>2, <2>3
<1> HIDE DEF card, I
<1>c. /\ DOMAIN <<sel[2]>> = {1} /\ <<sel[2]>>[1] = sel[2]  OBVIOUS
<1>13. ASSUME sel[2].from = p PROVE \E i \in DOMAIN card : card[i].from = p
  <2>1. \E i \in DOMAIN card : card[i] = sel[2]  BY <1>2, <1>c DEF CardIs
  <2> QED  BY <1>13, <2>1
<1>14. ASSUME ShownAt(limits, p) PROVE \E i \in DOMAIN card : card[i].from = p
  <2>1. CASE k = 2  BY <1>5, <1>13, <2>1
  <2>2. CASE k # 2
    <3>1. sel[2].id # sel[k].id  BY <1>1, <1>12, <1>14, <2>2
    <3>2. ~\E j \in 1 .. k - 1 : sel[j].id = sel[k].id
      <4> SUFFICES ASSUME NEW j \in 1 .. k - 1, sel[j].id = sel[k].id PROVE FALSE  OBVIOUS
      <4>1. j \in DOMAIN sel /\ j # k  BY <1>1
      <4> QED  BY <1>12, <1>14, <4>1
    <3>3. k \in I  BY <1>3, <1>11, <1>14, <3>1, <3>2
    <3>4. \E i \in DOMAIN card : card[i] = sel[k]  BY <1>2, <3>3 DEF CardIs
    <3> QED  BY <1>5, <3>4
  <2> QED  BY <2>1, <2>2
<1>15. ASSUME NEW i \in DOMAIN card, card[i].from = p PROVE sel[2].from = p \/ ShownAt(limits, p)
  <2>1. card[i] = sel[2] \/ \E j \in I : card[i] = sel[j]  BY <1>2, <1>c DEF CardIs
  <2>2. CASE card[i] = sel[2]  BY <1>15, <2>2
  <2>3. CASE \E j \in I : card[i] = sel[j]
    <3>1. PICK j \in I : card[i] = sel[j]  BY <2>3
    <3>2. j = k  BY <1>4, <1>9, <1>15, <3>1
    <3> QED  BY <1>3, <1>4, <1>11, <3>1, <3>2
  <2> QED  BY <2>1, <2>2, <2>3
<1> QED  BY <1>13, <1>14, <1>15 DEF card

\* The slots that are on no card are those of LeftOut.
LEMMA RestShown ==
  ASSUME NEW limits \in Limits, OwnIds(limits), NEW sel, IsChosen(sel, limits),
         NEW p \in Given(limits)
  PROVE  sel[2].from = p \/ ShownAt(limits, p) <=> ~LeftOut(limits, p)
<1> DEFINE A == AccountLimit(limits)
           weekly == IsWeekly(SlotAt(limits, p))
           first == sel[2].from
           n == p[1]
<1>1. /\ p = <<n, p[2]>> /\ n \in Nat /\ p[2] \in {"primary", "secondary"}
      /\ n # 0 => n \in DOMAIN limits.byId /\ n \in 0 .. Len(limits.byId)
  <2>1. limits.byId \in Seq(Limit)  BY DEF Limits
  <2> QED  BY <2>1, GivenSlot
<1>2. KindAt(limits, p) = "Weekly" <=> weekly /\ n = A /\ (n = 0 => p[2] = "secondary")
  BY KindIs
<1>3. ASSUME KindAt(limits, p) # "Weekly" PROVE first # p
  <2> SUFFICES ASSUME first = p PROVE FALSE  OBVIOUS
  <2>1. p # <<>> /\ 2 \in DOMAIN sel  BY GivenSlot DEF IsChosen
  <2>2. sel[2] = WindowAt(limits, p) /\ sel[2].kind = "Weekly"  BY <2>1 DEF IsChosen
  <2>3. sel[2].kind = KindAt(limits, p)  BY <2>2, WindowFields DEF WindowAt
  <2> QED  BY <1>3, <2>2, <2>3
<1>4. weekly <=> Is(limits, p, Weekly)  BY GivenSlot DEF IsWeekly, Is
<1>5. ASSUME KindAt(limits, p) = "Weekly"
      PROVE  /\ first \in Given(limits) /\ KindAt(limits, first) = "Weekly"
             /\ first = <<n, "primary">> \/ first = <<n, "secondary">>
             /\ first = <<n, "secondary">> => p[2] # "primary"
             /\ n = 0 => first = p
  <2>1. /\ first \in Given(limits) /\ KindAt(limits, first) = "Weekly"
        /\ \A m : first = <<m, "secondary">> => p # <<m, "primary">>
    BY <1>5 DEF IsChosen
  <2>2. PICK q \in Given(limits) : q = first  BY <2>1
  <2>3. q[1] = A /\ (q[1] = 0 => q[2] = "secondary")  BY <2>1, <2>2, KindIs
  <2>4. q = <<q[1], q[2]>> /\ q[2] \in {"primary", "secondary"}  BY GivenSlot
  <2>5. n = A  BY <1>2, <1>5
  <2>6. first = <<n, "primary">> \/ first = <<n, "secondary">>  BY <2>2, <2>3, <2>4, <2>5
  <2>7. first = <<n, "secondary">> => p[2] # "primary"  BY <1>1, <2>1
  <2>8. n = 0 => first = p
    <3>1. n = 0 => p[2] = "secondary"  BY <1>2, <1>5
    <3> QED  BY <1>1, <2>2, <2>3, <2>4, <2>5, <3>1
  <2> QED  BY <2>1, <2>6, <2>7, <2>8
<1>6. CASE n = 0
  <2>1. ~ShownAt(limits, p)  BY <1>6 DEF ShownAt
  <2>2. LeftOut(limits, p) <=> p[2] = "primary" \/ ~weekly  BY <1>6 DEF LeftOut
  <2>3. weekly /\ p[2] = "secondary" => KindAt(limits, p) = "Weekly"
    <3>1. weekly /\ p[2] = "secondary" => Is(limits, p, Weekly)  BY <1>4
    <3> HIDE DEF weekly
    <3> QED  BY <1>6, <3>1 DEF KindAt
  <2> HIDE DEF weekly, first, A
  <2>4. KindAt(limits, p) = "Weekly" <=> weekly /\ p[2] = "secondary"  BY <1>2, <1>6, <2>3
  <2>5. first = p <=> weekly /\ p[2] = "secondary"  BY <1>3, <1>5, <1>6, <2>4
  <2> QED  BY <1>1, <2>1, <2>2, <2>5 DEF first
<1>7. CASE n # 0
  <2>1. KindAt(limits, p) = IF ~weekly THEN "Other" ELSE IF n = A THEN "Weekly" ELSE "ModelWeekly"
    <3> HIDE DEF weekly, A
    <3> QED  BY <1>4, <1>7 DEF KindAt, A
  <2>2. ReserveAt(limits, p) <=> limits.byId[n].reserve /\ p[2] = "secondary"
    BY <1>7 DEF ReserveAt
  <2>3. LeftOut(limits, p) <=> /\ p[2] = "secondary" /\ weekly
                              /\ IF n = A THEN IsWeekly(limits.byId[n].primary)
                                 ELSE limits.byId[n].reserve
    BY <1>7 DEF LeftOut
  <2>4. ShownAt(limits, p) <=> \/ KindAt(limits, p) = "Other"
                               \/ KindAt(limits, p) = "ModelWeekly" /\ ~ReserveAt(limits, p)
    BY <1>7 DEF ShownAt
  <2>5. \A side \in {"primary", "secondary"} :
          <<n, side>> \in Given(limits) <=> SlotAt(limits, <<n, side>>) # NoValue
    BY <1>1, <1>7 DEF Given
  <2>6. SlotAt(limits, <<n, "primary">>) = limits.byId[n].primary  BY <1>7 DEF SlotAt
  <2> HIDE DEF weekly, A, first
  <2>7. CASE ~weekly \/ n # A
    <3>1. first # p  BY <1>2, <1>3, <2>7
    <3>2. ShownAt(limits, p) <=> ~LeftOut(limits, p)
      BY <2>1, <2>2, <2>3, <2>4, <2>7
    <3> QED  BY <3>1, <3>2 DEF first
  <2>8. CASE weekly /\ n = A
    <3>1. KindAt(limits, p) = "Weekly"  BY <2>1, <2>8
    <3>2. ~ShownAt(limits, p)  BY <2>4, <3>1
    <3>3. /\ first \in Given(limits) /\ KindAt(limits, first) = "Weekly"
          /\ first = <<n, "primary">> \/ first = <<n, "secondary">>
          /\ first = <<n, "secondary">> => p[2] # "primary"
      BY <1>5, <3>1
    <3>4. CASE p[2] = "primary"
      <4>1. first = p  BY <1>1, <3>3, <3>4
      <4>2. ~LeftOut(limits, p)  BY <2>3, <3>4
      <4> QED  BY <4>1, <4>2 DEF first
    <3>5. CASE p[2] = "secondary"
      <4>0. p = <<n, "secondary">> /\ p # <<n, "primary">>  BY <1>1, <3>5
      <4>1. LeftOut(limits, p) <=> IsWeekly(limits.byId[n].primary)  BY <2>3, <2>8, <3>5
      <4>2. ASSUME IsWeekly(limits.byId[n].primary) PROVE first # p
        <5> DEFINE q == <<n, "primary">>
        <5>1. IsWeekly(SlotAt(limits, q)) /\ q \in Given(limits)
          BY <2>5, <2>6, <4>2 DEF IsWeekly
        <5>2. q[1] = n  OBVIOUS
        <5>q. q = <<n, "primary">>  OBVIOUS
        <5> HIDE DEF q
        <5>3. KindAt(limits, q) = "Weekly"  BY <1>7, <2>8, <5>1, <5>2, KindIs DEF A
        <5>4. \A m : first = <<m, "secondary">> => q # <<m, "primary">>
          BY <5>1, <5>3 DEF IsChosen, first
        <5> QED  BY <4>0, <5>4, <5>q
      <4>3. ASSUME ~IsWeekly(limits.byId[n].primary) PROVE first = p
        <5>1. first # <<n, "primary">>
          <6> SUFFICES ASSUME first = <<n, "primary">> PROVE FALSE  OBVIOUS
          <6>1. IsWeekly(SlotAt(limits, first))  BY <3>3, KindIs
          <6> QED  BY <2>6, <4>3, <6>1
        <5> QED  BY <3>3, <4>0, <5>1
      <4> QED  BY <3>2, <4>1, <4>2, <4>3 DEF first
    <3> QED  BY <1>1, <3>4, <3>5
  <2> QED  BY <2>7, <2>8
<1> QED  BY <1>6, <1>7

LEMMA LimitsAreSound ==
  ASSUME NEW limits \in Limits
  PROVE  LET n == NormalizeLimits(limits)
         IN  /\ n[1].kind = "FiveHour" /\ n[2].kind = "Weekly"
             /\ OneWindowEach(n, limits) /\ ShowsTheRest(n, limits)
             /\ ShownOnce(Card("codex", n)) /\ CompactAgrees("codex", n)
<1> DEFINE ws == AllWindows(limits)
           n == Selected(ws)
           W == AnyWindow(limits)
           card == Card("codex", n)
<1>1. NormalizeLimits(limits) = n  BY DEF NormalizeLimits
<1>2. Assembled(ws, limits, Given(limits))  BY AllAssembled
<1>3. ws \in Seq(W)  BY <1>2 DEF Assembled
<1>4. ExpectedUnavailable[1] \in W /\ ExpectedUnavailable[2] \in W  BY DEF AnyWindow
<1> HIDE DEF ws, W, card
<1>5. PICK src : IsSelection(n, src, ws, W)  BY <1>3, <1>4, SelectedFrom
<1> HIDE DEF n
<1>6. IsChosen(n, limits)  BY <1>2, <1>5, SelectionIs DEF W
<1>7. n \in Seq(W) /\ 2 \in DOMAIN n /\ n[1].kind = "FiveHour" /\ n[2].kind = "Weekly"
  BY <1>6 DEF IsChosen, W
<1>8. ShownOnce(card) /\ CompactAgrees("codex", n)
  BY <1>7, CodexCard DEF CardIs, card
<1>9. OneWindowEach(n, limits)
  <2>1. \A i \in DOMAIN n : Fresh(n[i]) => n[i].from \in Given(limits)  BY <1>6 DEF IsChosen
  <2>2. ASSUME NEW place \in Given(limits)
        PROVE  \E i \in DOMAIN n :
                 /\ n[i].from = place /\ n[i].used = SlotAt(limits, place).used
                 /\ \A j \in DOMAIN n : n[j].from = place => j = i
    <3>1. PICK i \in DOMAIN n : n[i].from = place  BY <1>6 DEF IsChosen
    <3>2. place # <<>>  BY GivenSlot
    <3>3. Fresh(n[i])  BY <1>6, <3>1, <3>2 DEF IsChosen
    <3>4. n[i] = WindowAt(limits, place)  BY <1>6, <3>1, <3>3 DEF IsChosen
    <3>5. n[i].used = SlotAt(limits, place).used  BY <3>4, WindowFields DEF WindowAt
    <3>6. \A j \in DOMAIN n : n[j].from = place => j = i  BY <1>6, <3>1, <3>3 DEF IsChosen
    <3> QED  BY <3>1, <3>5, <3>6
  <2> QED  BY <2>1, <2>2 DEF OneWindowEach
<1>10. ShowsTheRest(n, limits)
  <2> SUFFICES ASSUME OwnIds(limits), NEW p \in Given(limits)
               PROVE  (\E i \in DOMAIN card : card[i].from = p) <=> ~LeftOut(limits, p)
    BY DEF ShowsTheRest, OwnIds, card
  <2>1. (\E i \in DOMAIN card : card[i].from = p) <=> n[2].from = p \/ ShownAt(limits, p)
    BY <1>6, OnTheCard DEF card
  <2>2. n[2].from = p \/ ShownAt(limits, p) <=> ~LeftOut(limits, p)  BY <1>6, RestShown
  <2> QED  BY <2>1, <2>2
<1> QED  BY <1>1, <1>7, <1>8, <1>9, <1>10 DEF card

LEMMA NothingIsSound ==
  LET e == ExpectedUnavailable
  IN  /\ e[1].kind = "FiveHour" /\ e[2].kind = "Weekly"
      /\ \A i \in DOMAIN e : ~Fresh(e[i])
      /\ ShownOnce(Card("codex", e)) /\ CompactAgrees("codex", e)
<1> DEFINE e == ExpectedUnavailable
           W == {e[1], e[2]}
<1>1. /\ e[1].kind = "FiveHour" /\ ~Fresh(e[1]) /\ e[2].kind = "Weekly" /\ ~Fresh(e[2])
      /\ e = <<e[1], e[2]>>
  BY MissingFields
<1>2. e[1] \in W /\ e[2] \in W  OBVIOUS
<1> HIDE DEF e, W
<1>3. PICK a \in W, b \in W : a = e[1] /\ b = e[2]  BY <1>2
<1>4. e = <<a, b>>  BY <1>1, <1>3
<1>5. e \in Seq(W) /\ DOMAIN e = {1, 2}  BY <1>4
<1>6. ShownOnce(Card("codex", e)) /\ CompactAgrees("codex", e)
  BY <1>1, <1>5, CodexCard DEF CardIs
<1> QED  BY <1>1, <1>5, <1>6 DEF e

\* Codex: the answer is fresh only if every request was written and answered in
\* turn and every value is in range; then each slot is one window, and those the
\* card leaves out are known (codex.rs:124-499).
LEMMA CodexIsSound ==
  ASSUME NEW c, CodexCase(c)
  PROVE  LET answer == CodexAnswer(c.lines, c.ending, c.signedIn, c.failing, c.limits)
             windows == answer.windows
         IN  /\ windows[1].kind = "FiveHour" /\ windows[2].kind = "Weekly"
             /\ answer.code = "fresh" <=>
                  /\ c.signedIn /\ c.failing = 0 /\ c.ending \in {"gone", "silent"}
                  /\ \A place \in Given(c.limits) : SlotAt(c.limits, place).used # Invalid
                  /\ AnsweredInTurn(c.lines)
             /\ IF answer.code = "fresh"
                THEN OneWindowEach(windows, c.limits) /\ ShowsTheRest(windows, c.limits)
                ELSE \A i \in DOMAIN windows : ~Fresh(windows[i])
             /\ ShownOnce(Card("codex", windows)) /\ CompactAgrees("codex", windows)
<1> DEFINE lines == c.lines
           limits == c.limits
           code == RpcSession(lines, c.ending, c.signedIn, c.failing)
           answer == CodexAnswer(lines, c.ending, c.signedIn, c.failing, limits)
           inRange == \A place \in Given(limits) : SlotAt(limits, place).used # Invalid
           good == /\ c.signedIn /\ c.failing = 0 /\ c.ending \in {"gone", "silent"}
                   /\ inRange /\ AnsweredInTurn(lines)
           e == ExpectedUnavailable
           n == NormalizeLimits(limits)
           Good(windows) == OneWindowEach(windows, limits) /\ ShowsTheRest(windows, limits)
           Empty(windows) == \A i \in DOMAIN windows : ~Fresh(windows[i])
           OnBoth(windows) == /\ windows[1].kind = "FiveHour" /\ windows[2].kind = "Weekly"
                              /\ ShownOnce(Card("codex", windows)) /\ CompactAgrees("codex", windows)
<1>1. /\ limits \in Limits /\ lines \in Seq(ServerLine) /\ c.signedIn \in BOOLEAN
      /\ c.failing \in 0 .. 4 /\ c.ending \in {"gone", "silent", "missing", "unstartable"}
  BY DEF CodexCase
<1>2. OnBoth(e) /\ Empty(e)  BY NothingIsSound
<1>3. OnBoth(n) /\ Good(n)  BY <1>1, LimitsAreSound
<1>4. /\ code # "fresh"
      /\ c.signedIn => (code = "ok" <=> c.failing = 0 /\ AnsweredInTurn(lines))
  BY <1>1, SessionInTurn
<1> HIDE DEF code, e, n, inRange, Good, Empty, OnBoth
<1>5. \/ answer.code = "fresh" /\ answer.windows = n /\ good
      \/ answer.code # "fresh" /\ answer.windows = e /\ ~good
  <2>1. NormalizeSnapshot(c.signedIn, limits) =
          IF ~c.signedIn THEN Answer("not_authenticated", e)
          ELSE IF ~inRange THEN Answer("unsupported_output", e)
          ELSE Answer("fresh", n)
    BY DEF NormalizeSnapshot, inRange, e, n
  <2>2. answer = IF c.ending = "missing" THEN Answer("not_installed", e)
                 ELSE IF c.ending = "unstartable" THEN Answer("process_failed", e)
                 ELSE IF code # "ok" THEN Answer(code, e)
                 ELSE NormalizeSnapshot(c.signedIn, limits)
    BY DEF CodexAnswer, code, e
  <2> HIDE DEF answer, lines, limits
  <2>3. CASE c.ending \in {"missing", "unstartable"}  BY <2>2, <2>3 DEF Answer
  <2>4. CASE c.ending \notin {"missing", "unstartable"} /\ code # "ok"
    BY <1>4, <2>2, <2>4 DEF Answer
  <2>5. CASE c.ending \notin {"missing", "unstartable"} /\ code = "ok"
    BY <1>1, <1>4, <2>1, <2>2, <2>5 DEF Answer
  <2> QED  BY <2>3, <2>4, <2>5
<1> HIDE DEF good
<1>6. OnBoth(answer.windows)  BY <1>2, <1>3, <1>5
<1>7. IF answer.code = "fresh" THEN Good(answer.windows) ELSE Empty(answer.windows)
  BY <1>2, <1>3, <1>5
<1> QED  BY <1>5, <1>6, <1>7 DEF good, inRange, Good, Empty, OnBoth

\* A quota is fresh only after every request was written and answered in turn.
\* Of every slot Codex reports there is one window, and of limits with ids of
\* their own the card leaves out those of LeftOut and no other; no card shows an
\* id twice, and that of Claude and of Antigravity leaves none out.  A Claude
\* percentage comes from its own panel.  A reset shows the time printed on the
\* host's clock, lies ahead, and is lost only if no clock shows it or the host's
\* is ever shifted (codex.rs:124-499, antigravity.rs:81-269, claude.rs:867-1319,
\* presentation.rs:12-56).
THEOREM AnswersSafe == Spec => []AnswersAreSound
<1>1. case \in Cases => AnswersAreSound
  <2> SUFFICES ASSUME case \in Cases PROVE AnswersAreSound  OBVIOUS
  <2>1. /\ case.kind = "codex" => CodexCase(case)
        /\ case.kind = "antigravity" => case \in AntigravityCase
        /\ case.kind = "screen" => case \in ScreenCase
        /\ case.kind = "time" => case \in TimeCase /\ (case.type = "date" => case.day <= 364)
    BY CasesOK
  <2>2. case.kind = "screen" => case.lines \in Seq(ScreenLine)  BY <2>1 DEF ScreenCase
  <2> DEFINE codex ==
               LET answer == CodexAnswer(case.lines, case.ending, case.signedIn, case.failing,
                                         case.limits)
                   windows == answer.windows
               IN  /\ windows[1].kind = "FiveHour" /\ windows[2].kind = "Weekly"
                   /\ answer.code = "fresh" <=>
                        /\ case.signedIn /\ case.failing = 0 /\ case.ending \in {"gone", "silent"}
                        /\ \A place \in Given(case.limits) :
                             SlotAt(case.limits, place).used # Invalid
                        /\ AnsweredInTurn(case.lines)
                   /\ IF answer.code = "fresh"
                      THEN OneWindowEach(windows, case.limits) /\ ShowsTheRest(windows, case.limits)
                      ELSE \A i \in DOMAIN windows : ~Fresh(windows[i])
                   /\ ShownOnce(Card("codex", windows)) /\ CompactAgrees("codex", windows)
  <2>3. case.kind = "codex" => codex
    <3> HIDE DEF codex
    <3>1. ASSUME CodexCase(case) PROVE codex
      <4> USE DEF codex
      <4> QED  BY <3>1, CodexIsSound
    <3> QED  BY <2>1, <3>1
  <2>4. case.kind = "time" => ResetIsRight(case, ResetTime(case, case.now, case.zone))
    BY <2>1, ResetAhead
  <2> HIDE DEF codex
  <2> QED  BY <2>1, <2>2, <2>3, <2>4, AntigravityIsSound, ScreenIsSound
           DEF AnswersAreSound, codex
<1> QED  BY <1>1, CaseStays, PTL
=============================================================================
