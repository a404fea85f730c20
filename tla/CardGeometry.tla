---------------------------- MODULE CardGeometry ----------------------------
(***************************************************************************)
(* The geometry of the card editor: an element is stored by its unrotated  *)
(* top-left corner, its size and its quarter turns, and drawn turned about *)
(* its centre.                                                             *)
(*                                                                         *)
(* Sizes are in pixels and positions in half pixels, so that the centre of *)
(* an element, x + w, and every number the code halves is an integer.      *)
(***************************************************************************)
EXTENDS Integers

Elements == [id : Nat, x : Int, y : Int, w : Int, h : Int, turn : 0..3]

Least(a, b) == IF a < b THEN a ELSE b
Most(a, b) == IF a > b THEN a ELSE b

\* Math.round of a position, halves up.
RoundHalf(v) == 2 * ((v + 1) \div 2)

Sideways(e) == e.turn \in {1, 3}
BoundsW(e) == IF Sideways(e) THEN e.h ELSE e.w
BoundsH(e) == IF Sideways(e) THEN e.w ELSE e.h

CentreX(e) == e.x + e.w
CentreY(e) == e.y + e.h

\* Where the element is seen: the corner of its bounding box.
BoxX(e) == CentreX(e) - BoundsW(e)
BoxY(e) == CentreY(e) - BoundsH(e)

At(e, cx, cy) == [e EXCEPT !.x = cx - e.w, !.y = cy - e.h]

\* Variant: the size of the element before it is turned.
ClampUnturned(e, cw, ch) ==
  At(e, Least(Most(CentreX(e), e.w), 2 * cw - e.w), Least(Most(CentreY(e), e.h), 2 * ch - e.h))

Clamp(e, cw, ch) ==
  At(e, Least(Most(CentreX(e), BoundsW(e)), 2 * cw - BoundsW(e)),
        Least(Most(CentreY(e), BoundsH(e)), 2 * ch - BoundsH(e)))

\* The middle of the canvas attracts a centre first, then the two edges.
SnapTo(c, b, size, threshold) ==
  LET Near(d) == d < 2 * threshold /\ d > -2 * threshold
  IN IF Near(c - size) THEN size
     ELSE IF Near(c - b) THEN b
     ELSE IF Near(c + b - 2 * size) THEN 2 * size - b
     ELSE c

SnapToCanvas(e, cw, ch, threshold) ==
  Clamp(At(e, SnapTo(CentreX(e), BoundsW(e), cw, threshold),
              SnapTo(CentreY(e), BoundsH(e), ch, threshold)), cw, ch)

\* Of half pixels, and of pixels.
SnapHalves(v, grid) == 2 * grid * ((v + grid) \div (2 * grid))
SnapPixels(v, grid) == grid * ((2 * v + grid) \div (2 * grid))

Move(e, dx, dy, cw, ch, grid, threshold) ==
  SnapToCanvas([e EXCEPT !.x = SnapHalves(e.x + dx, grid), !.y = SnapHalves(e.y + dy, grid)],
               cw, ch, threshold)

\* The directions in which the width and the height of a turned element grow.
WidthAxis(e) == CASE e.turn = 0 -> <<1, 0>> [] e.turn = 1 -> <<0, 1>> [] e.turn = 2 -> <<-1, 0>> [] OTHER -> <<0, -1>>
HeightAxis(e) == CASE e.turn = 0 -> <<0, 1>> [] e.turn = 1 -> <<-1, 0>> [] e.turn = 2 -> <<0, -1>> [] OTHER -> <<1, 0>>

\* Pulling at the bottom right handle keeps the opposite corner where it is.
Grown(c, a, b, e, w, h) == c + a * (w - e.w) + b * (h - e.h)
Resized(e, w, h) ==
  At([e EXCEPT !.w = w, !.h = h],
     Grown(CentreX(e), WidthAxis(e)[1], HeightAxis(e)[1], e, w, h),
     Grown(CentreY(e), WidthAxis(e)[2], HeightAxis(e)[2], e, w, h))

Resize(e, dx, dy, cw, ch, grid, least) ==
  LET a == WidthAxis(e)
      b == HeightAxis(e)
      w == Most(least, SnapPixels(e.w + dx * a[1] + dy * a[2], grid))
      h == Most(least, SnapPixels(e.h + dx * b[1] + dy * b[2], grid))
  IN Clamp(Resized(e, w, h), cw, ch)

\* Turning keeps the corner of the bounding box.
Rotate(e, by) ==
  LET turned == [e EXCEPT !.turn = (@ + by) % 4]
  IN [turned EXCEPT !.x = RoundHalf(BoxX(e) - (e.w - BoundsW(turned))),
                    !.y = RoundHalf(BoxY(e) - (e.h - BoundsH(turned)))]

\* Sees all of the element, and where it is after rounding.
Fits(e, cw, ch) == BoundsW(e) <= cw /\ BoundsH(e) <= ch
Inside(e, cw, ch, slack) ==
  /\ BoxX(e) >= 0 - slack /\ BoxX(e) + 2 * BoundsW(e) <= 2 * cw + slack
  /\ BoxY(e) >= 0 - slack /\ BoxY(e) + 2 * BoundsH(e) <= 2 * ch + slack
=============================================================================
