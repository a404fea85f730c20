-------------------------- MODULE AdminPagesProofs --------------------------
(* Proofs about the two pages that administrators edit in. About Designer,  *)
(* for any pages, designs and editorials: what is dragged stays on the card,*)
(* and what is called saved is what cards get. About JournalistsPage, for   *)
(* any journalists, cards and requests: what is shown is what is stored.    *)
EXTENDS Designer, JournalistsPage, WellFoundedInduction, TLAPS

-----------------------------------------------------------------------------
(* Geometry                                                                *)

\* Putting the centre of an element somewhere leaves its size and its turn.
LEMMA AtElement ==
  ASSUME NEW e \in Elements, NEW cx \in Int, NEW cy \in Int
  PROVE  /\ At(e, cx, cy) \in Elements
         /\ At(e, cx, cy).w = e.w /\ At(e, cx, cy).h = e.h /\ At(e, cx, cy).turn = e.turn
<1>1. cx - e.w \in Int /\ cy - e.h \in Int
  BY DEF Elements
<1> QED
  BY <1>1 DEF At, Elements

\* Clamping leaves all of an element that fits on the canvas, however turned.
THEOREM ClampInside ==
  ASSUME NEW e \in Elements, NEW cw \in Nat, NEW ch \in Nat, Fits(e, cw, ch)
  PROVE  Inside(Clamp(e, cw, ch), cw, ch, 0)
<1> DEFINE c == Clamp(e, cw, ch)
           px == Least(Most(CentreX(e), BoundsW(e)), 2 * cw - BoundsW(e))
           py == Least(Most(CentreY(e), BoundsH(e)), 2 * ch - BoundsH(e))
<1>1. /\ c = [e EXCEPT !.x = px - e.w, !.y = py - e.h]
      /\ c.x = px - e.w /\ c.y = py - e.h /\ c.w = e.w /\ c.h = e.h /\ c.turn = e.turn
  BY DEF Clamp, At, Elements
<1>2. BoundsW(c) = BoundsW(e) /\ BoundsH(c) = BoundsH(e)
  BY <1>1 DEF BoundsW, BoundsH, Sideways
<1>3. BoundsW(e) \in Int /\ BoundsH(e) \in Int /\ CentreX(e) \in Int /\ CentreY(e) \in Int
  BY DEF BoundsW, BoundsH, Elements, CentreX, CentreY
<1>4. /\ px \in Int /\ px >= BoundsW(e) /\ px <= 2 * cw - BoundsW(e)
      /\ py \in Int /\ py >= BoundsH(e) /\ py <= 2 * ch - BoundsH(e)
  BY <1>3 DEF Fits, Least, Most
<1>5. BoxX(c) = px - BoundsW(e) /\ BoxY(c) = py - BoundsH(e)
  BY <1>1, <1>2, <1>3, <1>4 DEF BoxX, BoxY, CentreX, CentreY, Elements
<1> QED
  BY <1>2, <1>3, <1>4, <1>5 DEF Inside

\* Clamping changes neither size nor turn.
LEMMA ClampType ==
  ASSUME NEW e \in Elements, NEW cw \in Nat, NEW ch \in Nat
  PROVE  /\ Clamp(e, cw, ch) \in Elements
         /\ Clamp(e, cw, ch).w = e.w /\ Clamp(e, cw, ch).h = e.h /\ Clamp(e, cw, ch).turn = e.turn
<1> DEFINE px == Least(Most(CentreX(e), BoundsW(e)), 2 * cw - BoundsW(e))
           py == Least(Most(CentreY(e), BoundsH(e)), 2 * ch - BoundsH(e))
<1>1. px \in Int /\ py \in Int
  BY DEF BoundsW, BoundsH, Elements, CentreX, CentreY, Least, Most
<1>2. Clamp(e, cw, ch) = At(e, px, py)
  BY DEF Clamp
<1> HIDE DEF px, py
<1> QED
  BY <1>1, <1>2, AtElement

\* A snapped position is a position and a snapped size a size.
LEMMA SnapTypes ==
  ASSUME NEW v \in Int, NEW grid \in Nat \ {0}
  PROVE  SnapHalves(v, grid) \in Int /\ SnapPixels(v, grid) \in Int
<1>1. 2 * grid \in Nat \ {0} /\ v + grid \in Int /\ 2 * v + grid \in Int
  OBVIOUS
<1>2. \A a \in Int, b \in Nat \ {0} : a \div b \in Int
  OBVIOUS
<1>3. (v + grid) \div (2 * grid) \in Int /\ (2 * v + grid) \div (2 * grid) \in Int
  BY <1>1, <1>2
<1> QED
  BY <1>1, <1>3 DEF SnapHalves, SnapPixels

\* Dragging puts the centre somewhere, then clamps.
Clamped(m, e, cw, ch) ==
  \E s \in Elements : s.w = e.w /\ s.h = e.h /\ s.turn = e.turn /\ m = Clamp(s, cw, ch)

LEMMA MoveClamps ==
  ASSUME NEW e \in Elements, NEW dx \in Int, NEW dy \in Int, NEW cw \in Nat, NEW ch \in Nat,
         NEW grid \in Nat \ {0}, NEW threshold \in Nat
  PROVE  Clamped(Move(e, dx, dy, cw, ch, grid, threshold), e, cw, ch)
<1> DEFINE g == [e EXCEPT !.x = SnapHalves(e.x + dx, grid), !.y = SnapHalves(e.y + dy, grid)]
           sx == SnapTo(CentreX(g), BoundsW(g), cw, threshold)
           sy == SnapTo(CentreY(g), BoundsH(g), ch, threshold)
           s == At(g, sx, sy)
<1>1. e.x + dx \in Int /\ e.y + dy \in Int
  BY DEF Elements
<1>2. SnapHalves(e.x + dx, grid) \in Int /\ SnapHalves(e.y + dy, grid) \in Int
  BY <1>1, SnapTypes
<1>3. g \in Elements /\ g.w = e.w /\ g.h = e.h /\ g.turn = e.turn
  BY <1>2 DEF Elements
<1> HIDE DEF g
<1>4. CentreX(g) \in Int /\ CentreY(g) \in Int /\ BoundsW(g) \in Int /\ BoundsH(g) \in Int
  BY <1>3 DEF CentreX, CentreY, BoundsW, BoundsH, Elements
<1>5. sx \in Int /\ sy \in Int
  BY <1>4 DEF SnapTo
<1> HIDE DEF sx, sy
<1>6. s \in Elements /\ s.w = e.w /\ s.h = e.h /\ s.turn = e.turn
  BY <1>3, <1>5, AtElement DEF s
<1> HIDE DEF s
<1>7. Move(e, dx, dy, cw, ch, grid, threshold) = Clamp(s, cw, ch)
  BY DEF Move, SnapToCanvas, s, sx, sy, g
<1> QED
  BY <1>6, <1>7 DEF Clamped

LEMMA MoveType ==
  ASSUME NEW e \in Elements, NEW dx \in Int, NEW dy \in Int, NEW cw \in Nat, NEW ch \in Nat,
         NEW grid \in Nat \ {0}, NEW threshold \in Nat
  PROVE  LET m == Move(e, dx, dy, cw, ch, grid, threshold) IN
         m \in Elements /\ m.w = e.w /\ m.h = e.h /\ m.turn = e.turn
<1>0. Clamped(Move(e, dx, dy, cw, ch, grid, threshold), e, cw, ch)
  BY MoveClamps
<1>1. PICK s \in Elements : /\ s.w = e.w /\ s.h = e.h /\ s.turn = e.turn
                           /\ Move(e, dx, dy, cw, ch, grid, threshold) = Clamp(s, cw, ch)
  BY <1>0 DEF Clamped
<1> QED
  BY <1>1, ClampType

\* However far an element is dragged, it is dropped with all of it on the canvas.
THEOREM MoveInside ==
  ASSUME NEW e \in Elements, NEW dx \in Int, NEW dy \in Int, NEW cw \in Nat, NEW ch \in Nat,
         NEW grid \in Nat \ {0}, NEW threshold \in Nat, Fits(e, cw, ch)
  PROVE  Inside(Move(e, dx, dy, cw, ch, grid, threshold), cw, ch, 0)
<1>0. Clamped(Move(e, dx, dy, cw, ch, grid, threshold), e, cw, ch)
  BY MoveClamps
<1>1. PICK s \in Elements : /\ s.w = e.w /\ s.h = e.h /\ s.turn = e.turn
                           /\ Move(e, dx, dy, cw, ch, grid, threshold) = Clamp(s, cw, ch)
  BY <1>0 DEF Clamped
<1>2. Fits(s, cw, ch)
  BY <1>1 DEF Fits, BoundsW, BoundsH, Sideways
<1> QED
  BY <1>1, <1>2, ClampInside

\* Resizing pulls the handle somewhere, then clamps.
LEMMA ResizeClamps ==
  ASSUME NEW e \in Elements, NEW dx \in Int, NEW dy \in Int, NEW cw \in Nat, NEW ch \in Nat,
         NEW grid \in Nat \ {0}, NEW least \in Nat
  PROVE  \E r \in Elements : Resize(e, dx, dy, cw, ch, grid, least) = Clamp(r, cw, ch)
<1> DEFINE a == WidthAxis(e)
           b == HeightAxis(e)
           w == Most(least, SnapPixels(e.w + dx * a[1] + dy * a[2], grid))
           h == Most(least, SnapPixels(e.h + dx * b[1] + dy * b[2], grid))
           r == Resized(e, w, h)
<1>1. a[1] \in Int /\ a[2] \in Int /\ b[1] \in Int /\ b[2] \in Int
  BY DEF WidthAxis, HeightAxis
<1>2. e.w + dx * a[1] + dy * a[2] \in Int /\ e.h + dx * b[1] + dy * b[2] \in Int
  BY <1>1 DEF Elements
<1>3. w \in Int /\ h \in Int
  <2>1. SnapPixels(e.w + dx * a[1] + dy * a[2], grid) \in Int
    BY <1>2, SnapTypes
  <2>2. SnapPixels(e.h + dx * b[1] + dy * b[2], grid) \in Int
    BY <1>2, SnapTypes
  <2> QED
    BY <2>1, <2>2 DEF Most
<1> HIDE DEF w, h, a, b
<1>4. CentreX(e) \in Int /\ CentreY(e) \in Int /\ e.w \in Int /\ e.h \in Int
  BY DEF CentreX, CentreY, Elements
<1>5. r \in Elements
  <2> DEFINE g == [e EXCEPT !.w = w, !.h = h]
             cx == Grown(CentreX(e), a[1], b[1], e, w, h)
             cy == Grown(CentreY(e), a[2], b[2], e, w, h)
  <2>1. g \in Elements
    BY <1>3 DEF Elements
  <2>2. cx \in Int /\ cy \in Int
    BY <1>1, <1>3, <1>4 DEF Grown
  <2>3. r = At(g, cx, cy)
    BY DEF Resized, a, b
  <2> HIDE DEF g, cx, cy, r
  <2> QED
    BY <2>1, <2>2, <2>3, AtElement
<1>6. Resize(e, dx, dy, cw, ch, grid, least) = Clamp(r, cw, ch)
  BY DEF Resize, r, w, h, a, b
<1> QED
  BY <1>5, <1>6

LEMMA ResizeType ==
  ASSUME NEW e \in Elements, NEW dx \in Int, NEW dy \in Int, NEW cw \in Nat, NEW ch \in Nat,
         NEW grid \in Nat \ {0}, NEW least \in Nat
  PROVE  Resize(e, dx, dy, cw, ch, grid, least) \in Elements
<1>1. PICK r \in Elements : Resize(e, dx, dy, cw, ch, grid, least) = Clamp(r, cw, ch)
  BY ResizeClamps
<1> QED
  BY <1>1, ClampType

\* An element pulled larger stays on the canvas as long as its new size fits.
THEOREM ResizeInside ==
  ASSUME NEW e \in Elements, NEW dx \in Int, NEW dy \in Int, NEW cw \in Nat, NEW ch \in Nat,
         NEW grid \in Nat \ {0}, NEW least \in Nat,
         Fits(Resize(e, dx, dy, cw, ch, grid, least), cw, ch)
  PROVE  Inside(Resize(e, dx, dy, cw, ch, grid, least), cw, ch, 0)
<1>1. PICK r \in Elements : Resize(e, dx, dy, cw, ch, grid, least) = Clamp(r, cw, ch)
  BY ResizeClamps
<1>2. Clamp(r, cw, ch).w = r.w /\ Clamp(r, cw, ch).h = r.h /\ Clamp(r, cw, ch).turn = r.turn
  BY ClampType
<1>3. Fits(r, cw, ch)
  BY <1>1, <1>2 DEF Fits, BoundsW, BoundsH, Sideways
<1> QED
  BY <1>1, <1>3, ClampInside

\* A turn by any number of quarters moves the corner of what is seen by half a
\* pixel at most, and never to the left or upwards.
THEOREM RotateKeepsCorner ==
  ASSUME NEW e \in Elements, NEW by \in Int
  PROVE  /\ BoxX(Rotate(e, by)) - BoxX(e) \in {0, 1}
         /\ BoxY(Rotate(e, by)) - BoxY(e) \in {0, 1}
<1> DEFINE t == [e EXCEPT !.turn = (@ + by) % 4]
           r == Rotate(e, by)
           vx == BoxX(e) - (e.w - BoundsW(t))
           vy == BoxY(e) - (e.h - BoundsH(t))
<1>1. t.w = e.w /\ t.h = e.h /\ t.turn = (e.turn + by) % 4
  BY DEF Elements
<1>2. /\ BoundsW(t) \in Int /\ BoundsH(t) \in Int /\ BoundsW(e) \in Int /\ BoundsH(e) \in Int
      /\ BoxX(e) \in Int /\ BoxY(e) \in Int
  BY <1>1 DEF BoundsW, BoundsH, BoxX, BoxY, CentreX, CentreY, Elements
<1>3. r.x = RoundHalf(vx) /\ r.y = RoundHalf(vy) /\ r.w = e.w /\ r.h = e.h /\ r.turn = t.turn
  BY <1>1 DEF Rotate, Elements
<1>4. BoundsW(r) = BoundsW(t) /\ BoundsH(r) = BoundsH(t)
  BY <1>1, <1>3 DEF BoundsW, BoundsH, Sideways
<1>5. \A v \in Int : RoundHalf(v) \in Int /\ RoundHalf(v) - v \in {0, 1}
  BY DEF RoundHalf
<1>6. vx \in Int /\ vy \in Int
  BY <1>2 DEF Elements
<1>7. BoxX(r) = RoundHalf(vx) + e.w - BoundsW(t) /\ BoxY(r) = RoundHalf(vy) + e.h - BoundsH(t)
  <2>1. RoundHalf(vx) \in Int /\ RoundHalf(vy) \in Int
    BY <1>5, <1>6
  <2>2. e.w \in Int /\ e.h \in Int /\ r.x \in Int /\ r.y \in Int /\ r.w \in Int /\ r.h \in Int
    BY <2>1, <1>3 DEF Elements
  <2> HIDE DEF r, t, vx, vy
  <2> QED
    BY <1>2, <1>3, <1>4, <2>1, <2>2 DEF BoxX, BoxY, CentreX, CentreY
<1>8. BoxX(r) - BoxX(e) = RoundHalf(vx) - vx /\ BoxY(r) - BoxY(e) = RoundHalf(vy) - vy
  <2> DEFINE wx == RoundHalf(vx)
             wy == RoundHalf(vy)
  <2>1. wx \in Int /\ wy \in Int
    BY <1>5, <1>6
  <2> HIDE DEF wx, wy
  <2> QED
    BY <1>2, <1>7, <2>1 DEF Elements, wx, wy
<1> QED
  BY <1>5, <1>6, <1>8

-----------------------------------------------------------------------------
(* Types                                                                   *)

Drag == [id: Nat, mode: {"move", "resize"}, start: Elements]
Page == [open: BOOLEAN, asks: Targets, writes: Targets, template: Designs, selected: Nat,
         preview: BOOLEAN, saved: BOOLEAN, busy: BOOLEAN, drag: Drag \cup {None}]
Request == [kind: {"idle", "load", "save", "reset"}, page: Pages \cup {None}, to: Targets,
            step: {"none", "sent", "read", "inherit", "answered"}, design: Designs \cup {None}]
RequestOK(r) ==
    /\ r.kind = "idle" => r.step = "none"
    /\ r.step = "sent" => r.kind \in {"save", "reset"}
    /\ r.step = "answered" \/ (r.kind = "save" /\ r.step = "sent") => r.design \in Designs
TypeOK ==
    /\ page \in [Pages -> Page] /\ job \in [Jobs -> Request] /\ stored \in [Targets -> Designs \cup {Emptied, None}]
    /\ gestures \in Nat /\ calm \subseteq Pages
    /\ \A j \in Jobs : RequestOK(job[j])
    /\ \A j \in Jobs : job[j].page # None => page[job[j].page].open
AnswerOK(p, r) ==
    IF r.kind = "load" THEN ~page[p].saved
    ELSE /\ r.to = page[p].writes
         /\ r.step \in {"read", "inherit"} => stored[r.to] = None
         /\ r.step = "answered" => r.design = Effective(r.to)
CalmOK(p) ==
    /\ page[p].open
    /\ \A i, j \in Of(p) : i = j
    /\ \A j \in Of(p) : AnswerOK(p, job[j])
    /\ page[p].saved /\ (\A j \in Of(p) : job[j].step = "sent") => page[p].template = Effective(page[p].writes)
SavedInv == \A p \in calm : CalmOK(p)

-----------------------------------------------------------------------------
(* Filtering                                                               *)

LEMMA LeastOf ==
  ASSUME NEW T \in SUBSET Nat, T # {}
  PROVE  \E n \in T : \A m \in T : n <= m
<1>1. \E n \in T : \A m \in T : <<m, n>> \notin OpToRel(<, Nat)
  BY NatLessThanWellFounded, WFMin
<1>2. PICK n \in T : \A m \in T : <<m, n>> \notin OpToRel(<, Nat)
  BY <1>1
<1>3. \A m \in T : m < n => <<m, n>> \in OpToRel(<, Nat)
  BY DEF OpToRel
<1>4. n \in Nat /\ \A m \in T : m \in Nat
  OBVIOUS
<1>5. \A m \in T : ~(m < n)
  BY <1>2, <1>3
<1> QED
  BY <1>4, <1>5

\* What is kept up to a place: some function does what the definition asks of kept.
Keeps(kept, s, id, n) ==
  kept = [i \in 0..n |-> IF i = 0 THEN <<>>
                         ELSE IF s[i].id = id THEN kept[i - 1]
                         ELSE Append(kept[i - 1], s[i])]

LEMMA KeptExists ==
  ASSUME NEW s, NEW id, NEW l \in Nat
  PROVE  \E kept : Keeps(kept, s, id, l)
<1> SUFFICES ASSUME \A kept : ~Keeps(kept, s, id, l)
             PROVE  FALSE
  OBVIOUS
<1> DEFINE T == {n \in Nat : \A kept : ~Keeps(kept, s, id, n)}
<1>1. PICK n \in T : \A m \in T : n <= m
  <2>1. l \in T /\ T \in SUBSET Nat /\ T # {}
    OBVIOUS
  <2> QED
    BY <2>1, LeastOf
<1>2. n # 0
  <2> DEFINE k == [i \in 0..0 |-> <<>>]
  <2>1. Keeps(k, s, id, 0)
    BY DEF Keeps
  <2> QED
    BY <2>1, <1>1
<1>3. PICK k : Keeps(k, s, id, n - 1)
  <2>1. n - 1 \in Nat /\ ~(n <= n - 1)
    BY <1>1, <1>2
  <2> QED
    BY <1>1, <2>1
<1> DEFINE last == IF s[n].id = id THEN k[n - 1] ELSE Append(k[n - 1], s[n])
           longer == [i \in 0..n |-> IF i = n THEN last ELSE k[i]]
<1>4. Keeps(longer, s, id, n)
  <2>1. n \in Nat \ {0} /\ DOMAIN k = 0..n - 1
    BY <1>1, <1>2, <1>3 DEF Keeps
  <2>2. \A i \in 0..n - 1 : k[i] = IF i = 0 THEN <<>>
                                   ELSE IF s[i].id = id THEN k[i - 1] ELSE Append(k[i - 1], s[i])
    BY <1>3 DEF Keeps
  <2>3. \A i \in 0..n : longer[i] = IF i = 0 THEN <<>>
                                   ELSE IF s[i].id = id THEN longer[i - 1] ELSE Append(longer[i - 1], s[i])
    <3> SUFFICES ASSUME NEW i \in 0..n
                 PROVE  longer[i] = IF i = 0 THEN <<>>
                                    ELSE IF s[i].id = id THEN longer[i - 1] ELSE Append(longer[i - 1], s[i])
      OBVIOUS
    <3>1. i # 0 => i - 1 \in 0..n - 1 /\ i - 1 # n /\ i - 1 \in 0..n
      BY <2>1
    <3>2. i # 0 => longer[i - 1] = k[i - 1]
      BY <3>1
    <3>3. CASE i = n
      BY <2>1, <3>2, <3>3
    <3>4. CASE i # n
      <4>1. i \in 0..n - 1 /\ longer[i] = k[i]
        BY <2>1, <3>4
      <4> QED
        BY <2>2, <3>2, <4>1
    <3> QED
      BY <3>3, <3>4
  <2> QED
    BY <2>3 DEF Keeps
<1> QED
  BY <1>1, <1>4

LEMMA WithoutType ==
  ASSUME NEW S, NEW s \in Seq(S), NEW id
  PROVE  Without(s, id) \in Seq(S)
<1> DEFINE kept == CHOOSE k : Keeps(k, s, id, Len(s))
<1>1. Keeps(kept, s, id, Len(s))
  BY KeptExists
<1>2. Without(s, id) = kept[Len(s)]
  BY DEF Without, Keeps
<1> HIDE DEF kept
<1>3. \A i \in 0..Len(s) : kept[i] = IF i = 0 THEN <<>>
                                     ELSE IF s[i].id = id THEN kept[i - 1] ELSE Append(kept[i - 1], s[i])
  BY <1>1 DEF Keeps
<1> SUFFICES ASSUME kept[Len(s)] \notin Seq(S)
             PROVE  FALSE
  BY <1>2
<1> DEFINE T == {n \in 0..Len(s) : kept[n] \notin Seq(S)}
<1>4. PICK n \in T : \A m \in T : n <= m
  <2>1. Len(s) \in T /\ T \in SUBSET Nat /\ T # {}
    OBVIOUS
  <2> QED
    BY <2>1, LeastOf
<1>5. n # 0
  <2>1. kept[0] = <<>>
    BY <1>3
  <2>2. kept[0] \in Seq(S)
    BY <2>1
  <2>3. kept[n] \notin Seq(S)
    BY <1>4
  <2> QED
    BY <2>2, <2>3
<1>6. n - 1 \in 0..Len(s) /\ n \in 1..Len(s) /\ ~(n <= n - 1)
  BY <1>4, <1>5
<1>7. kept[n - 1] \in Seq(S)
  BY <1>4, <1>6
<1>8. s[n] \in S
  BY <1>6
<1>9. kept[n] \in Seq(S)
  <2>1. kept[n] = IF s[n].id = id THEN kept[n - 1] ELSE Append(kept[n - 1], s[n])
    BY <1>3, <1>5, <1>6
  <2>2. Append(kept[n - 1], s[n]) \in Seq(S)
    BY <1>7, <1>8
  <2> QED
    BY <1>7, <2>1, <2>2
<1> QED
  BY <1>4, <1>9

-----------------------------------------------------------------------------
(* Designs                                                                 *)

LEMMA Halves ==
  ASSUME NEW v \in Int
  PROVE  /\ RoundHalf(v) \in Int /\ RoundHalf(v) - v \in {0, 1}
         /\ RoundHalf(RoundHalf(v)) = RoundHalf(v)
         /\ \A m \in Int : v <= 2 * m => RoundHalf(v) <= 2 * m
BY DEF RoundHalf

LEMMA Bounding ==
  ASSUME NEW v \in Int, NEW low \in Int, NEW high \in Int, low <= high
  PROVE  /\ Bound(v, low, high) \in Int
         /\ low <= Bound(v, low, high) /\ Bound(v, low, high) <= high
         /\ low <= v /\ v <= high => Bound(v, low, high) = v
BY DEF Bound, Most, Least

LEMMA SanitizeElementType ==
  ASSUME NEW e \in Elements
  PROVE  /\ SanitizeElement(e) \in Elements
         /\ SanitizeElement(SanitizeElement(e)) = SanitizeElement(e)
<1> DEFINE M == 2 * MaxStored
           Place(v) == RoundHalf(Bound(v, -2 * MaxStored, 2 * MaxStored))
           Size(v) == Bound(v, MinStored, MaxStored)
<1>1. /\ MaxStored \in Int /\ MinStored \in Int /\ MinStored <= MaxStored
      /\ -2 * MaxStored \in Int /\ 2 * MaxStored \in Int /\ -2 * MaxStored <= 2 * MaxStored
  BY BoundsAssumption
<1>2. ASSUME NEW v \in Int
      PROVE  Place(v) \in Int /\ Place(Place(v)) = Place(v) /\ Size(v) \in Int /\ Size(Size(v)) = Size(v)
  <2> DEFINE b == Bound(v, -2 * MaxStored, 2 * MaxStored)
             r == RoundHalf(b)
  <2>1. b \in Int /\ -2 * MaxStored <= b /\ b <= 2 * MaxStored
    BY <1>1, Bounding
  <2> HIDE DEF b
  <2>2. r \in Int /\ r - b \in {0, 1} /\ RoundHalf(r) = r /\ r <= 2 * MaxStored
    BY <1>1, <2>1, Halves
  <2> HIDE DEF r
  <2>3. -2 * MaxStored <= r
    BY <1>1, <2>1, <2>2
  <2>4. Bound(r, -2 * MaxStored, 2 * MaxStored) = r
    BY <1>1, <2>2, <2>3, Bounding
  <2>5. Place(v) = r /\ Place(r) = r
    BY <2>2, <2>4 DEF r, b
  <2>6. Size(v) \in Int /\ Size(Size(v)) = Size(v)
    BY <1>1, Bounding
  <2> QED
    BY <2>2, <2>5, <2>6
<1>3. e.x \in Int /\ e.y \in Int /\ e.w \in Int /\ e.h \in Int
  BY DEF Elements
<1> DEFINE s == SanitizeElement(e)
<1>4. s = [e EXCEPT !.x = Place(e.x), !.y = Place(e.y), !.w = Size(e.w), !.h = Size(e.h)]
  BY DEF SanitizeElement
<1>5. SanitizeElement(s) = [s EXCEPT !.x = Place(s.x), !.y = Place(s.y), !.w = Size(s.w), !.h = Size(s.h)]
  BY DEF SanitizeElement
<1>6. \A v \in Int : Place(v) \in Int /\ Place(Place(v)) = Place(v) /\ Size(v) \in Int /\ Size(Size(v)) = Size(v)
  BY <1>2
<1> HIDE DEF s, Place, Size
<1>7. /\ s \in Elements
      /\ s.x = Place(e.x) /\ s.y = Place(e.y) /\ s.w = Size(e.w) /\ s.h = Size(e.h)
  BY <1>3, <1>4, <1>6 DEF Elements
<1>8. SanitizeElement(s) = s
  <2>1. Place(s.x) = s.x /\ Place(s.y) = s.y /\ Size(s.w) = s.w /\ Size(s.h) = s.h
    BY <1>3, <1>6, <1>7
  <2> QED
    BY <1>5, <1>7, <2>1 DEF Elements
<1> QED
  BY <1>7, <1>8 DEF s

\* A design with other elements, as many as they are.
LEMMA WithElements ==
  ASSUME NEW t \in Designs, NEW s \in Seq(Elements)
  PROVE  /\ [t EXCEPT !.elements = s] \in Designs
         /\ [t EXCEPT !.elements = s].elements = s /\ [t EXCEPT !.elements = s].width = t.width
BY DEF Designs

LEMMA BuiltIn == DefaultTemplate \in Designs /\ Emptied \notin Designs
<1>1. \E w \in CardWidths : \A v \in CardWidths : v <= w
  BY BoundsAssumption
<1>2. Widest \in CardWidths
  BY <1>1 DEF Widest
<1>3. DefaultTemplate \in Designs
  BY <1>2, DesignsAssumption DEF DefaultTemplate, Designs
<1>4. 0 \notin CardWidths
  BY BoundsAssumption
<1> QED
  BY <1>3, <1>4 DEF Emptied, Designs

LEMMA SanitizeType ==
  /\ \A t \in Designs \cup {Emptied} : Sanitize(t) \in Designs /\ Sanitize(Sanitize(t)) = Sanitize(t)
  /\ Sanitize(Emptied) = DefaultTemplate
<1>1. Sanitize(Emptied) = DefaultTemplate /\ Sanitize(Sanitize(Emptied)) = DefaultTemplate
  BY DesignsAssumption DEF Sanitize
<1>2. ASSUME NEW t \in Designs
      PROVE  Sanitize(t) \in Designs /\ Sanitize(Sanitize(t)) = Sanitize(t)
  <2> DEFINE n == Least(Len(t.elements), MaxElements)
             s == [i \in 1..n |-> SanitizeElement(t.elements[i])]
             u == [t EXCEPT !.elements = s]
  <2>1. t.elements \in Seq(Elements) /\ Len(t.elements) \in Nat /\ MaxElements \in Nat
    BY BoundsAssumption DEF Designs
  <2>2. n \in Nat /\ n <= Len(t.elements) /\ n <= MaxElements
    BY <2>1 DEF Least
  <2>3. \A i \in 1..n : t.elements[i] \in Elements
    BY <2>1, <2>2
  <2>4. \A i \in 1..n : s[i] \in Elements /\ SanitizeElement(s[i]) = s[i]
    BY <2>3, SanitizeElementType
  <2> HIDE DEF n
  <2>5. s \in Seq(Elements) /\ Len(s) = n
    BY <2>2, <2>4
  <2>6. Sanitize(t) = u
    BY BuiltIn DEF Sanitize, n
  <2> HIDE DEF s
  <2>7. u \in Designs /\ u.elements = s
    BY <2>5, WithElements
  <2> HIDE DEF u
  <2>8. Least(Len(s), MaxElements) = n
    BY <2>1, <2>2, <2>5 DEF Least
  <2>9. Sanitize(u) = [u EXCEPT !.elements = [i \in 1..n |-> SanitizeElement(s[i])]]
    BY <2>7, <2>8, BuiltIn DEF Sanitize
  <2>10. [i \in 1..n |-> SanitizeElement(s[i])] = s
    BY <2>4 DEF s
  <2>11. Sanitize(u) = u
    BY <2>7, <2>9, <2>10 DEF Designs
  <2> QED
    BY <2>6, <2>7, <2>11
<1> QED
  BY <1>1, <1>2, BuiltIn
-----------------------------------------------------------------------------
(* Where the gestures leave an element                                     *)

LEMMA RotateType ==
  ASSUME NEW e \in Elements, NEW by \in Int
  PROVE  Rotate(e, by) \in Elements
<1> DEFINE t == [e EXCEPT !.turn = (@ + by) % 4]
           vx == BoxX(e) - (e.w - BoundsW(t))
           vy == BoxY(e) - (e.h - BoundsH(t))
<1>1. (e.turn + by) % 4 \in 0..3
  BY DEF Elements
<1>2. t \in Elements
  BY <1>1 DEF Elements
<1> HIDE DEF t
<1>3. BoundsW(t) \in Int /\ BoundsH(t) \in Int /\ BoxX(e) \in Int /\ BoxY(e) \in Int
  BY <1>2 DEF BoundsW, BoundsH, BoxX, BoxY, CentreX, CentreY, Elements
<1>4. vx \in Int /\ vy \in Int
  BY <1>3 DEF Elements
<1>5. Rotate(e, by) = [t EXCEPT !.x = RoundHalf(vx), !.y = RoundHalf(vy)]
  BY DEF Rotate, t
<1> HIDE DEF vx, vy
<1>6. RoundHalf(vx) \in Int /\ RoundHalf(vy) \in Int
  BY <1>4, Halves
<1> QED
  BY <1>2, <1>5, <1>6 DEF Elements

-----------------------------------------------------------------------------
(* Edits                                                                   *)

Addressed(q) == page'[q].open = page[q].open /\ page'[q].writes = page[q].writes
Untouched(q) == page'[q].saved => page[q].saved /\ page'[q].template = page[q].template

(* What an edit may do: designs stay designs, pages theirs, and none comes  *)
(* to be called saved.                                                      *)
Edited ==
    /\ UNCHANGED <<job, stored, begun, calm>> /\ gestures' \in Nat
    /\ page' \in [Pages -> Page]
    /\ \A q \in Pages : Addressed(q) /\ Untouched(q)

LEMMA ChangesPage ==
  ASSUME TypeOK, NEW p \in Pages, NEW r \in Page, page' = [page EXCEPT ![p] = r],
         UNCHANGED <<job, stored, begun, calm>>, gestures' \in {gestures, gestures + 1},
         r.open = page[p].open, r.writes = page[p].writes,
         r.saved => page[p].saved /\ r.template = page[p].template
  PROVE  Edited
<1>1. page \in [Pages -> Page] /\ gestures \in Nat
  BY DEF TypeOK
<1>2. page' \in [Pages -> Page] /\ gestures' \in Nat
  BY <1>1
<1>3. \A q \in Pages : Addressed(q) /\ Untouched(q)
  BY <1>1 DEF Addressed, Untouched
<1> QED
  BY <1>2, <1>3 DEF Edited

LEMMA Edits ==
  ASSUME TypeOK, NEW p \in Pages, NEW t \in Designs, NEW r \in Page, Edit(p, t, r),
         r.open = page[p].open, r.writes = page[p].writes
  PROVE  Edited
<1> DEFINE s == [r EXCEPT !.template = t, !.saved = FALSE]
<1>1. /\ page' = [page EXCEPT ![p] = s] /\ gestures' = gestures + 1
      /\ UNCHANGED <<job, stored, begun, calm>>
  BY DEF Edit
<1>2. s \in Page /\ ~s.saved /\ s.open = r.open /\ s.writes = r.writes
  BY DEF Page
<1> HIDE DEF s
<1> QED
  BY <1>1, <1>2, ChangesPage

(* The element that is selected, and the others.                           *)
LEMMA SelectedType ==
  ASSUME TypeOK, NEW p \in Pages, WithSelected(p)
  PROVE  Selected(p) \in Elements
<1>1. page[p].template.elements \in Seq(Elements)
  BY DEF TypeOK, Page, Designs
<1> DEFINE i == CHOOSE n \in Named(page[p].template, page[p].selected) : TRUE
<1>2. i \in Named(page[p].template, page[p].selected)
  BY DEF WithSelected
<1>3. Selected(p) = page[p].template.elements[i]
  BY DEF Selected
<1> HIDE DEF i
<1>4. i \in DOMAIN page[p].template.elements
  BY <1>2 DEF Named
<1> QED
  BY <1>1, <1>3, <1>4

LEMMA PageType ==
  ASSUME TypeOK, NEW p \in Pages
  PROVE  /\ page[p] \in Page /\ page[p].template \in Designs
         /\ page[p].template.elements \in Seq(Elements) /\ page[p].template.width \in Nat
BY BoundsAssumption DEF TypeOK, Page, Designs

LEMMA SelectType ==
  ASSUME TypeOK, NEW p \in Pages, NEW n \in Nat
  PROVE  LET r == [page[p] EXCEPT !.selected = n] IN
         r \in Page /\ r.open = page[p].open /\ r.writes = page[p].writes
BY PageType DEF Page

(* A sequence of as many elements.                                         *)
LEMMA MapType ==
  ASSUME NEW t \in Designs, NEW f, DOMAIN f = DOMAIN t.elements, \A i \in DOMAIN t.elements : f[i] \in Elements,
         f = [i \in DOMAIN t.elements |-> f[i]]
  PROVE  [t EXCEPT !.elements = f] \in Designs
<1>1. t.elements \in Seq(Elements) /\ DOMAIN t.elements = 1..Len(t.elements) /\ Len(t.elements) \in Nat
  BY DEF Designs
<1>2. f \in Seq(Elements)
  BY <1>1
<1> QED
  BY <1>2, WithElements

LEMMA PointerMoveEdits ==
  ASSUME TypeOK, NEW p \in Pages, NEW d \in Drags, PointerMove(p, d)
  PROVE  Edited
<1> DEFINE r == page[p].drag
           t == page[p].template
           To(e) ==
             LET s == [r.start EXCEPT !.turn = e.turn] IN
             IF r.mode = "resize" THEN Resize(s, d[1], d[2], t.width, CardHeight, Grid, MinSize)
             ELSE LET m == Move(s, 2 * d[1], 2 * d[2], t.width, CardHeight, Grid, Threshold)
                  IN [e EXCEPT !.x = m.x, !.y = m.y]
           f == [i \in DOMAIN t.elements |-> IF t.elements[i].id = r.id THEN To(t.elements[i]) ELSE t.elements[i]]
<1>1. r # None /\ Edit(p, [t EXCEPT !.elements = f], page[p])
  BY DEF PointerMove, Update
<1>2. t \in Designs /\ t.elements \in Seq(Elements) /\ t.width \in Nat /\ r.start \in Elements
  <2>1. r \in Drag
    BY <1>1 DEF TypeOK, Page
  <2> QED
    BY <2>1, PageType DEF Drag
<1>3. d[1] \in Int /\ d[2] \in Int /\ 2 * d[1] \in Int /\ 2 * d[2] \in Int
  BY DesignerAssumption
<1>4. ASSUME NEW e \in Elements
      PROVE  To(e) \in Elements
  <2> DEFINE s == [r.start EXCEPT !.turn = e.turn]
             m == Move(s, 2 * d[1], 2 * d[2], t.width, CardHeight, Grid, Threshold)
  <2>1. s \in Elements
    BY <1>2 DEF Elements
  <2> HIDE DEF s
  <2>2. m \in Elements
    BY <2>1, <1>2, <1>3, MoveType, BoundsAssumption
  <2>3. Resize(s, d[1], d[2], t.width, CardHeight, Grid, MinSize) \in Elements
    BY <2>1, <1>2, <1>3, ResizeType, BoundsAssumption
  <2> HIDE DEF m
  <2>4. [e EXCEPT !.x = m.x, !.y = m.y] \in Elements
    BY <2>2 DEF Elements
  <2> QED
    BY <2>3, <2>4 DEF s, m
<1> HIDE DEF To
<1>5. \A i \in DOMAIN t.elements : f[i] \in Elements
  BY <1>2, <1>4
<1>6. [t EXCEPT !.elements = f] \in Designs
  BY <1>2, <1>5, MapType
<1> HIDE DEF f
<1> QED
  BY <1>1, <1>6, PageType, Edits

LEMMA TurnEdits ==
  ASSUME TypeOK, NEW p \in Pages, NEW by \in {-1, 1}, Turn(p, by)
  PROVE  Edited
<1> DEFINE t == page[p].template
           id == page[p].selected
           f == [i \in DOMAIN t.elements |-> IF t.elements[i].id = id THEN Rotate(t.elements[i], by) ELSE t.elements[i]]
<1>1. Edit(p, [t EXCEPT !.elements = f], page[p])
  BY DEF Turn, Update
<1>2. t \in Designs /\ t.elements \in Seq(Elements)
  BY PageType
<1>3. \A i \in DOMAIN t.elements : f[i] \in Elements
  BY <1>2, RotateType
<1>4. [t EXCEPT !.elements = f] \in Designs
  BY <1>2, <1>3, MapType
<1> HIDE DEF f
<1> QED
  BY <1>1, <1>4, PageType, Edits

LEMMA TypeEdits ==
  ASSUME TypeOK, NEW p \in Pages, NEW field \in {"x", "y", "width", "height"}, NEW v \in Typed, Type(p, field, v)
  PROVE  Edited
<1> DEFINE t == page[p].template
           id == page[p].selected
           Typing(e) == CASE field = "x" -> [e EXCEPT !.x = RoundHalf(2 * v - (e.w - BoundsW(e)))]
                          [] field = "y" -> [e EXCEPT !.y = RoundHalf(2 * v - (e.h - BoundsH(e)))]
                          [] field = "width" -> [e EXCEPT !.w = v]
                          [] OTHER -> [e EXCEPT !.h = v]
           f == [i \in DOMAIN t.elements |-> IF t.elements[i].id = id THEN Typing(t.elements[i]) ELSE t.elements[i]]
<1>1. Edit(p, [t EXCEPT !.elements = f], page[p])
  BY DEF Type, Update
<1>2. t \in Designs /\ t.elements \in Seq(Elements) /\ v \in Int
  BY PageType, DesignerAssumption
<1>3. ASSUME NEW e \in Elements
      PROVE  Typing(e) \in Elements
  <2>1. 2 * v - (e.w - BoundsW(e)) \in Int /\ 2 * v - (e.h - BoundsH(e)) \in Int
    BY <1>2 DEF Elements, BoundsW, BoundsH
  <2>2. RoundHalf(2 * v - (e.w - BoundsW(e))) \in Int /\ RoundHalf(2 * v - (e.h - BoundsH(e))) \in Int
    BY <2>1, Halves
  <2> QED
    BY <1>2, <2>2 DEF Elements
<1> HIDE DEF Typing
<1>4. \A i \in DOMAIN t.elements : f[i] \in Elements
  BY <1>2, <1>3
<1>5. [t EXCEPT !.elements = f] \in Designs
  BY <1>2, <1>4, MapType
<1> HIDE DEF f
<1> QED
  BY <1>1, <1>5, PageType, Edits

LEMMA AddEdits ==
  ASSUME TypeOK, NEW p \in Pages, Add(p) \/ Duplicate(p)
  PROVE  Edited
<1> DEFINE t == page[p].template
           s == [page[p] EXCEPT !.selected = FreshId]
<1>1. FreshId \in Nat
  BY DEF FreshId, TypeOK
<1>2. s \in Page /\ s.open = page[p].open /\ s.writes = page[p].writes
  BY <1>1, SelectType
<1>3. Grid \in Nat \ {0} /\ CardHeight \in Int /\ t.width \in Int /\ t \in Designs /\ t.elements \in Seq(Elements)
  BY BoundsAssumption, PageType
<1>4. PICK e : e \in Elements /\ Edit(p, [t EXCEPT !.elements = Append(t.elements, e)], s)
  <2>1. CASE Add(p)
    <3> DEFINE e == [id |-> FreshId, x |-> SnapHalves(t.width, Grid), y |-> SnapHalves(CardHeight, Grid), w |-> 2, h |-> 1, turn |-> 0]
    <3>1. SnapHalves(t.width, Grid) \in Int /\ SnapHalves(CardHeight, Grid) \in Int
      BY <1>3, SnapTypes
    <3>2. e \in Elements
      BY <1>1, <3>1 DEF Elements
    <3>3. Edit(p, [t EXCEPT !.elements = Append(t.elements, e)], s)
      BY <2>1 DEF Add
    <3> QED
      BY <3>2, <3>3
  <2>2. CASE Duplicate(p)
    <3> DEFINE a == Selected(p)
               e == [a EXCEPT !.id = FreshId, !.x = SnapHalves(a.x + 2 * Grid, Grid), !.y = SnapHalves(a.y + 2 * Grid, Grid)]
    <3>1. a \in Elements
      BY <2>2, SelectedType DEF Duplicate
    <3>2. Edit(p, [t EXCEPT !.elements = Append(t.elements, e)], s)
      BY <2>2 DEF Duplicate
    <3> HIDE DEF a
    <3>3. a.x + 2 * Grid \in Int /\ a.y + 2 * Grid \in Int
      BY <1>3, <3>1 DEF Elements
    <3>4. SnapHalves(a.x + 2 * Grid, Grid) \in Int /\ SnapHalves(a.y + 2 * Grid, Grid) \in Int
      BY <1>3, <3>3, SnapTypes
    <3>5. e \in Elements
      BY <1>1, <3>1, <3>4 DEF Elements
    <3> QED
      BY <3>2, <3>5
  <2> QED
    BY <2>1, <2>2
<1>5. Append(t.elements, e) \in Seq(Elements)
  BY <1>3, <1>4
<1>6. [t EXCEPT !.elements = Append(t.elements, e)] \in Designs
  BY <1>3, <1>5, WithElements
<1> HIDE DEF s
<1> QED
  BY <1>2, <1>4, <1>6, Edits

LEMMA RemoveEdits ==
  ASSUME TypeOK, NEW p \in Pages, Remove(p) \/ \E front \in BOOLEAN : Reorder(p, front)
  PROVE  Edited
<1> DEFINE t == page[p].template
<1>1. t \in Designs /\ page[p] \in Page /\ Others(p) \in Seq(Elements)
  BY PageType, WithoutType DEF Others
<1>2. CASE Remove(p)
  <2> DEFINE s == [page[p] EXCEPT !.selected = 0]
  <2>1. Edit(p, [t EXCEPT !.elements = Others(p)], s)
    BY <1>2 DEF Remove
  <2>2. s \in Page /\ s.open = page[p].open /\ s.writes = page[p].writes
    BY SelectType
  <2>3. [t EXCEPT !.elements = Others(p)] \in Designs
    BY <1>1, WithElements
  <2> HIDE DEF s
  <2> QED
    BY <2>1, <2>2, <2>3, Edits
<1>3. CASE \E front \in BOOLEAN : Reorder(p, front)
  <2>1. PICK front \in BOOLEAN : Reorder(p, front)
    BY <1>3
  <2> DEFINE s == IF front THEN Append(Others(p), Selected(p)) ELSE <<Selected(p)>> \o Others(p)
  <2>2. Edit(p, [t EXCEPT !.elements = s], page[p])
    BY <2>1 DEF Reorder
  <2>3. Selected(p) \in Elements
    BY <2>1, SelectedType DEF Reorder
  <2>4. s \in Seq(Elements)
    BY <1>1, <2>3
  <2> HIDE DEF s
  <2>5. [t EXCEPT !.elements = s] \in Designs
    BY <1>1, <2>4, WithElements
  <2> QED
    BY <1>1, <2>2, <2>5, Edits
<1> QED
  BY <1>2, <1>3

LEMMA StyleEdits ==
  ASSUME TypeOK, NEW p \in Pages,
         \/ \E look \in 0..1 : Restyle(p, look)
         \/ \E look \in 0..1, width \in CardWidths : PatchTheme(p, look, width)
         \/ \E t \in Imported : Import(p, t)
  PROVE  Edited
<1> DEFINE t == page[p].template
           s == [page[p] EXCEPT !.selected = 0]
<1>1. t \in Designs /\ page[p] \in Page /\ s \in Page /\ s.open = page[p].open /\ s.writes = page[p].writes
  BY PageType, SelectType
<1> HIDE DEF s
<1>2. ASSUME NEW look \in 0..1, Restyle(p, look)
      PROVE  Edited
  <2>1. Edit(p, [t EXCEPT !.look = look], page[p])
    BY <1>2 DEF Restyle
  <2>2. [t EXCEPT !.look = look] \in Designs
    BY <1>1 DEF Designs
  <2> QED
    BY <1>1, <2>1, <2>2, Edits
<1>3. ASSUME NEW look \in 0..1, NEW width \in CardWidths, PatchTheme(p, look, width)
      PROVE  Edited
  <2>1. Edit(p, [t EXCEPT !.look = look, !.width = width], page[p])
    BY <1>3 DEF PatchTheme
  <2> HIDE DEF t
  <2>2. [t EXCEPT !.look = look, !.width = width] \in Designs
    BY <1>1, look \in Nat DEF Designs
  <2> QED
    BY <1>1, <2>1, <2>2, Edits
<1>4. ASSUME NEW u \in Imported, Import(p, u)
      PROVE  Edited
  <2>1. Edit(p, Sanitize(u), s)
    BY <1>4 DEF Import, s
  <2>2. Sanitize(u) \in Designs
    BY DesignsAssumption, SanitizeType
  <2> QED
    BY <1>1, <2>1, <2>2, Edits
<1> QED
  BY <1>2, <1>3, <1>4

LEMMA PointerEdits ==
  ASSUME TypeOK, NEW p \in Pages,
         \/ \E id \in {0} \cup Ids(page[p].template), mode \in {"move", "resize"} : PointerDown(p, id, mode)
         \/ PointerUp(p) \/ Preview(p)
  PROVE  Edited
<1>1. page[p] \in Page /\ page[p].template.elements \in Seq(Elements)
  BY PageType
<1>2. ASSUME NEW id \in {0} \cup Ids(page[p].template), NEW mode \in {"move", "resize"}, PointerDown(p, id, mode)
      PROVE  Edited
  <2>1. gestures' = gestures + 1 /\ UNCHANGED <<job, stored, begun, calm>>
    BY <1>2 DEF PointerDown
  <2>2. id \in Nat
    <3>1. \A i \in DOMAIN page[p].template.elements : page[p].template.elements[i] \in Elements
      BY <1>1
    <3>2. \A i \in DOMAIN page[p].template.elements : page[p].template.elements[i].id \in Nat
      BY <3>1 DEF Elements
    <3> QED
      BY <3>2 DEF Ids
  <2>3. CASE id = 0
    <3> DEFINE r == [page[p] EXCEPT !.selected = 0]
    <3>1. page' = [page EXCEPT ![p] = r]
      BY <1>2, <2>3 DEF PointerDown
    <3>2. r \in Page /\ r.open = page[p].open /\ r.writes = page[p].writes /\ r.saved = page[p].saved
          /\ r.template = page[p].template
      BY <1>1 DEF Page
    <3> HIDE DEF r
    <3> QED
      BY <2>1, <3>1, <3>2, ChangesPage
  <2>4. CASE id # 0
    <3>1. PICK i \in Named(page[p].template, id) :
             page' = [page EXCEPT ![p].selected = id,
                        ![p].drag = [id |-> id, mode |-> mode, start |-> page[p].template.elements[i]]]
      BY <1>2, <2>4 DEF PointerDown
    <3> DEFINE g == [id |-> id, mode |-> mode, start |-> page[p].template.elements[i]]
               r == [page[p] EXCEPT !.selected = id, !.drag = g]
    <3>2. page' = [page EXCEPT ![p] = r]
      BY <3>1, <1>1 DEF Page, TypeOK
    <3>3. page[p].template.elements[i] \in Elements
      BY <1>1 DEF Named
    <3>4. g \in Drag
      BY <2>2, <3>3 DEF Drag
    <3> HIDE DEF g
    <3>5. r \in Page /\ r.open = page[p].open /\ r.writes = page[p].writes /\ r.saved = page[p].saved
          /\ r.template = page[p].template
      BY <1>1, <2>2, <3>4 DEF Page
    <3> HIDE DEF r
    <3> QED
      BY <2>1, <3>2, <3>5, ChangesPage
  <2> QED
    BY <2>3, <2>4
<1>3. CASE PointerUp(p)
  <2> DEFINE r == [page[p] EXCEPT !.drag = None]
  <2>1. page' = [page EXCEPT ![p] = r] /\ gestures' = gestures /\ UNCHANGED <<job, stored, begun, calm>>
    BY <1>3 DEF PointerUp
  <2>2. r \in Page /\ r.open = page[p].open /\ r.writes = page[p].writes /\ r.saved = page[p].saved
        /\ r.template = page[p].template
    BY <1>1 DEF Page
  <2> HIDE DEF r
  <2> QED
    BY <2>1, <2>2, ChangesPage
<1>4. CASE Preview(p)
  <2> DEFINE n == IF page[p].preview THEN page[p].selected ELSE 0
             r == [page[p] EXCEPT !.preview = ~page[p].preview, !.selected = n]
  <2>1. page' = [page EXCEPT ![p] = r] /\ gestures' = gestures + 1 /\ UNCHANGED <<job, stored, begun, calm>>
    BY <1>4 DEF Preview, TypeOK
  <2>2. r \in Page /\ r.open = page[p].open /\ r.writes = page[p].writes /\ r.saved = page[p].saved
        /\ r.template = page[p].template
    BY <1>1 DEF Page
  <2> HIDE DEF r
  <2> QED
    BY <2>1, <2>2, ChangesPage
<1> QED
  BY <1>2, <1>3, <1>4

EditAction(p) ==
    \/ PointerUp(p) \/ Add(p) \/ Duplicate(p) \/ Remove(p) \/ Preview(p)
    \/ \E id \in {0} \cup Ids(page[p].template), mode \in {"move", "resize"} : PointerDown(p, id, mode)
    \/ \E d \in Drags : PointerMove(p, d)
    \/ \E front \in BOOLEAN : Reorder(p, front)
    \/ \E by \in {-1, 1} : Turn(p, by)
    \/ \E field \in {"x", "y", "width", "height"}, v \in Typed : Type(p, field, v)
    \/ \E look \in 0..1 : Restyle(p, look)
    \/ \E look \in 0..1, width \in CardWidths : PatchTheme(p, look, width)
    \/ \E t \in Imported : Import(p, t)

LEMMA EditsEdit ==
  ASSUME TypeOK, NEW p \in Pages, EditAction(p)
  PROVE  Edited
BY PointerMoveEdits, TurnEdits, TypeEdits, AddEdits, RemoveEdits, StyleEdits, PointerEdits DEF EditAction

-----------------------------------------------------------------------------
(* Requests                                                                *)

LEMMA TargetsType == None \notin Pages /\ None \notin Designs /\ System \in Targets /\ None \notin Targets
BY DesignerAssumption, DesignsAssumption DEF Targets

LEMMA EffectiveType ==
  ASSUME TypeOK
  PROVE  Inherited \in Designs /\ \A t \in Targets : Effective(t) \in Designs
<1>1. \A t \in Targets : Stored(t) => stored[t] \in Designs
  BY DEF TypeOK, Stored
<1>2. Inherited \in Designs
  BY <1>1, SanitizeType, BuiltIn, TargetsType DEF Inherited
<1> QED
  BY <1>1, <1>2, SanitizeType DEF Effective

LEMMA FreshTypes ==
  /\ Idle \in Request /\ RequestOK(Idle) /\ Idle.kind = "idle" /\ Idle.step = "none" /\ Idle.page = None
  /\ Closed \in Page /\ ~Closed.open /\ ~Closed.saved
BY BuiltIn, TargetsType DEF Idle, Request, RequestOK, Closed, Page

LEMMA TypeInit == Init => TypeOK
<1> SUFFICES ASSUME Init
             PROVE  TypeOK
  OBVIOUS
<1>1. page \in [Pages -> Page] /\ job \in [Jobs -> Request] /\ \A j \in Jobs : job[j] = Idle
  BY FreshTypes DEF Init
<1>2. stored \in [Targets -> Designs \cup {Emptied, None}] /\ gestures \in Nat /\ calm \subseteq Pages
  BY DEF Init
<1> QED
  BY <1>1, <1>2, FreshTypes DEF TypeOK

(* A request that begins.                                                  *)
Begun(j, p, k, to, step, t) ==
    /\ job[j] = Idle /\ job' \in [Jobs -> Request]
    /\ \A i \in Jobs : i # j => job'[i] = job[i]
    /\ RequestOK(job'[j])
    /\ job'[j].kind = k /\ job'[j].page = p /\ job'[j].to = to /\ job'[j].step = step /\ job'[j].design = t

LEMMA Starting ==
  ASSUME TypeOK, NEW j \in Jobs, NEW p \in Pages, NEW to \in Targets, NEW k, NEW step, NEW t,
         \/ k = "load" /\ step = "read" /\ t = None
         \/ k = "save" /\ step = "sent" /\ t \in Designs
         \/ k = "reset" /\ step = "sent" /\ t = None,
         Start(j, p, k, to, step, t)
  PROVE  Begun(j, p, k, to, step, t)
<1> DEFINE r == [Idle EXCEPT !.kind = k, !.page = p, !.to = to, !.step = step, !.design = t]
<1>1. job[j] = Idle /\ job' = [job EXCEPT ![j] = r] /\ job \in [Jobs -> Request]
  BY DEF Start, TypeOK
<1>2. r.kind = k /\ r.page = p /\ r.to = to /\ r.step = step /\ r.design = t
  BY DEF Idle
<1>3. r \in Request
  BY DEF Request, Idle
<1> HIDE DEF r
<1>4. RequestOK(r)
  BY <1>2 DEF RequestOK
<1> QED
  BY <1>1, <1>2, <1>3, <1>4 DEF Begun

LEMMA BeginningTypes ==
  ASSUME TypeOK, NEW p \in Pages, NEW j \in Jobs, NEW k, NEW to, NEW step, NEW t,
         Begun(j, p, k, to, step, t), page' \in [Pages -> Page], page'[p].open,
         \A q \in Pages : page[q].open => page'[q].open,
         stored' = stored, gestures' = gestures, calm' \subseteq Pages
  PROVE  TypeOK'
<1>1. \A i \in Jobs : RequestOK(job'[i])
  BY DEF TypeOK, Begun
<1>2. \A i \in Jobs : job'[i].page # None => page'[job'[i].page].open
  <2> TAKE i \in Jobs
  <2>1. CASE i = j
    BY <2>1 DEF Begun
  <2>2. CASE i # j
    <3>1. job'[i] = job[i] /\ job[i].page \in Pages \cup {None} /\ (job[i].page # None => page[job[i].page].open)
      BY <2>2 DEF Begun, TypeOK, Request
    <3> QED
      BY <3>1
  <2> QED
    BY <2>1, <2>2
<1> QED
  BY <1>1, <1>2 DEF TypeOK, Begun

LEMMA OpenTypes ==
  ASSUME TypeOK, NEW p \in Pages, NEW j \in Jobs, NEW asks \in Targets, NEW writes \in Targets, Open(p, j, asks, writes)
  PROVE  /\ TypeOK' /\ Begun(j, p, "load", asks, "read", None)
         /\ page'[p].open /\ ~page'[p].saved /\ \A q \in Pages : q # p => page'[q] = page[q]
<1> DEFINE r == [Closed EXCEPT !.open = TRUE, !.asks = asks, !.writes = writes]
<1>1. Begun(j, p, "load", asks, "read", None)
  BY Starting DEF Open
<1>2. page' = [page EXCEPT ![p] = r] /\ page \in [Pages -> Page]
  BY DEF Open, TypeOK
<1>3. r \in Page
  BY FreshTypes DEF Page
<1>4. r.open /\ ~r.saved
  BY DEF Closed
<1> HIDE DEF r
<1>5. page' \in [Pages -> Page] /\ page'[p] = r /\ \A q \in Pages : q # p => page'[q] = page[q]
  BY <1>2, <1>3
<1>6. stored' = stored /\ gestures' = gestures /\ calm' \subseteq Pages
  BY DEF Open, TypeOK
<1>7. \A q \in Pages : page[q].open => page'[q].open
  BY <1>4, <1>5
<1> QED
  BY <1>1, <1>4, <1>5, <1>6, <1>7, BeginningTypes

LEMMA SaveTypes ==
  ASSUME TypeOK, NEW p \in Pages, NEW j \in Jobs, Save(p, j) \/ Reset(p, j)
  PROVE  /\ TypeOK'
         /\ \E k \in {"save", "reset"}, t \in Designs \cup {None} : Begun(j, p, k, page[p].writes, "sent", t)
         /\ \A q \in Pages : /\ page'[q].open = page[q].open /\ page'[q].writes = page[q].writes
                             /\ page'[q].saved = page[q].saved /\ page'[q].template = page[q].template
<1>1. page \in [Pages -> Page] /\ page[p].template \in Designs /\ page[p].writes \in Targets /\ page[p].open
  BY PageType DEF TypeOK, Save, Reset, Page
<1>2. PICK k \in {"save", "reset"}, t \in Designs \cup {None} : Begun(j, p, k, page[p].writes, "sent", t)
  <2>1. CASE Save(p, j)
    <3>1. Begun(j, p, "save", page[p].writes, "sent", page[p].template)
      BY <1>1, <2>1, Starting DEF Save
    <3> QED
      BY <1>1, <3>1
  <2>2. CASE Reset(p, j)
    <3>1. Begun(j, p, "reset", page[p].writes, "sent", None)
      BY <1>1, <2>2, Starting DEF Reset
    <3> QED
      BY <3>1
  <2> QED
    BY <2>1, <2>2
<1>3. page' = page \/ page' = [page EXCEPT ![p].busy = TRUE]
  BY DEF Save, Reset
<1>4. /\ page' \in [Pages -> Page]
      /\ \A q \in Pages : /\ page'[q].open = page[q].open /\ page'[q].writes = page[q].writes
                          /\ page'[q].saved = page[q].saved /\ page'[q].template = page[q].template
  <2> DEFINE r == [page[p] EXCEPT !.busy = TRUE]
  <2>1. /\ r \in Page /\ r.open = page[p].open /\ r.writes = page[p].writes
        /\ r.saved = page[p].saved /\ r.template = page[p].template
    BY <1>1 DEF Page
  <2>2. page' = page \/ page' = [page EXCEPT ![p] = r]
    BY <1>1, <1>3 DEF Page
  <2> HIDE DEF r
  <2> QED
    BY <1>1, <2>1, <2>2
<1>5. stored' = stored /\ gestures' = gestures /\ calm' \subseteq Pages
  BY DEF Save, Reset, TypeOK
<1>6. TypeOK'
  BY <1>1, <1>2, <1>4, <1>5, BeginningTypes
<1> QED
  BY <1>2, <1>4, <1>6

LEMMA CloseTypes ==
  ASSUME TypeOK, NEW p \in Pages, Close(p)
  PROVE  /\ TypeOK' /\ \A q \in Pages : q # p => page'[q] = page[q]
         /\ \A j \in Jobs : job'[j].page # p /\ (job[j].page # p => job'[j] = job[j])
<1>1. page \in [Pages -> Page] /\ job \in [Jobs -> Request]
  BY DEF TypeOK
<1>2. page' \in [Pages -> Page] /\ \A q \in Pages : q # p => page'[q] = page[q]
  BY <1>1, FreshTypes DEF Close
<1>3. job' = [j \in Jobs |-> IF job[j].page = p THEN [job[j] EXCEPT !.page = None] ELSE job[j]]
  BY DEF Close, Of
<1>4. \A r \in Request : /\ [r EXCEPT !.page = None] \in Request /\ [r EXCEPT !.page = None].page = None
                         /\ RequestOK(r) => RequestOK([r EXCEPT !.page = None])
  BY DEF Request, RequestOK
<1>5. \A j \in Jobs : /\ job'[j] \in Request /\ RequestOK(job'[j])
                      /\ IF job[j].page = p THEN job'[j].page = None ELSE job'[j] = job[j]
  BY <1>1, <1>3, <1>4 DEF TypeOK
<1>6. job' \in [Jobs -> Request] /\ \A j \in Jobs : job'[j].page # p /\ (job[j].page # p => job'[j] = job[j])
  BY <1>3, <1>5, TargetsType
<1>7. \A j \in Jobs : job'[j].page # None => page'[job'[j].page].open
  <2> TAKE j \in Jobs
  <2>1. CASE job[j].page = p
    BY <1>5, <2>1
  <2>2. CASE job[j].page # p
    <3>1. job'[j] = job[j] /\ job[j].page \in Pages \cup {None} /\ (job[j].page # None => page[job[j].page].open)
      BY <1>5, <2>2 DEF TypeOK, Request
    <3> QED
      BY <1>2, <2>2, <3>1
  <2> QED
    BY <2>1, <2>2
<1>8. stored' = stored /\ gestures' = gestures /\ calm' \subseteq Pages
  BY DEF Close, TypeOK
<1> QED
  BY <1>2, <1>5, <1>6, <1>7, <1>8 DEF TypeOK

(* A request that goes on.                                                 *)
Moved(j, r) ==
    /\ job' \in [Jobs -> Request] /\ job'[j] = r /\ RequestOK(r)
    /\ \A i \in Jobs : i # j => job'[i] = job[i]

LEMMA Steps ==
  ASSUME TypeOK, NEW j \in Jobs, NEW r \in Request, RequestOK(r), job' = [job EXCEPT ![j] = r]
  PROVE  Moved(j, r)
BY DEF TypeOK, Moved

Replied(j, t) ==
    /\ Moved(j, job'[j]) /\ job'[j].kind = job[j].kind /\ job'[j].page = job[j].page /\ job'[j].to = job[j].to
    /\ job'[j].step = "answered" /\ job'[j].design = t

LEMMA Replies ==
  ASSUME TypeOK, NEW j \in Jobs, job[j].step # "none", NEW t \in Designs, Reply(j, t)
  PROVE  Replied(j, t)
<1> DEFINE r == [job[j] EXCEPT !.step = "answered", !.design = t]
<1>1. job \in [Jobs -> Request] /\ job[j] \in Request /\ RequestOK(job[j])
  BY DEF TypeOK
<1>2. job' = [job EXCEPT ![j] = r]
  BY <1>1 DEF Reply, Request
<1>3. r \in Request /\ r.kind = job[j].kind /\ r.page = job[j].page /\ r.to = job[j].to
      /\ r.step = "answered" /\ r.design = t
  BY <1>1 DEF Request
<1> HIDE DEF r
<1>4. RequestOK(r)
  BY <1>1, <1>3 DEF RequestOK
<1>5. Moved(j, r)
  BY <1>2, <1>3, <1>4, Steps
<1> QED
  BY <1>3, <1>5 DEF Replied, Moved

OnTo(j, step) ==
    /\ Moved(j, job'[j]) /\ job'[j].kind = job[j].kind /\ job'[j].page = job[j].page /\ job'[j].to = job[j].to
    /\ job'[j].step = step

LEMMA GoesOn ==
  ASSUME TypeOK, NEW j \in Jobs, job[j].step # "none", NEW step \in {"read", "inherit"},
         job' = [job EXCEPT ![j].step = step]
  PROVE  OnTo(j, step)
<1> DEFINE r == [job[j] EXCEPT !.step = step]
<1>1. job \in [Jobs -> Request] /\ job[j] \in Request /\ RequestOK(job[j])
  BY DEF TypeOK
<1>2. job' = [job EXCEPT ![j] = r]
  BY <1>1 DEF Request
<1>3. r \in Request /\ r.kind = job[j].kind /\ r.page = job[j].page /\ r.to = job[j].to /\ r.step = step
  BY <1>1 DEF Request
<1> HIDE DEF r
<1>4. RequestOK(r)
  BY <1>1, <1>3 DEF RequestOK
<1>5. Moved(j, r)
  BY <1>2, <1>3, <1>4, Steps
<1> QED
  BY <1>3, <1>5 DEF OnTo, Moved

LEMMA MovingTypes ==
  ASSUME TypeOK, NEW j \in Jobs, Moved(j, job'[j]), job'[j].page \in {job[j].page, None},
         page' \in [Pages -> Page], \A q \in Pages : page[q].open => page'[q].open,
         stored' \in [Targets -> Designs \cup {Emptied, None}], gestures' = gestures, calm' \subseteq Pages
  PROVE  TypeOK'
<1>1. \A i \in Jobs : RequestOK(job'[i])
  BY DEF TypeOK, Moved
<1>2. \A i \in Jobs : job'[i].page # None => page'[job'[i].page].open
  <2> TAKE i \in Jobs
  <2>1. job'[i].page \in {job[i].page, None}
    BY DEF Moved
  <2>2. job[i].page \in Pages \cup {None} /\ (job[i].page # None => page[job[i].page].open)
    BY DEF TypeOK, Request
  <2> QED
    BY <2>1, <2>2
<1> QED
  BY <1>1, <1>2 DEF TypeOK, Moved

-----------------------------------------------------------------------------
(* What is called saved                                                    *)

(* A page that a step leaves alone: its requests, its design, and the rows  *)
(* its cards are drawn with.                                               *)
Undisturbed(q) ==
    /\ Addressed(q) /\ Untouched(q)
    /\ \A j \in Jobs : job[j].page = q \/ job'[j].page = q => job'[j] = job[j]
    /\ stored'[System] = stored[System] /\ stored'[page[q].writes] = stored[page[q].writes]

LEMMA Frame ==
  ASSUME NEW q, CalmOK(q), Undisturbed(q)
  PROVE  CalmOK(q)'
<1>1. /\ page'[q].open = page[q].open /\ page'[q].writes = page[q].writes
      /\ page'[q].saved => page[q].saved /\ page'[q].template = page[q].template
      /\ stored'[System] = stored[System] /\ stored'[page[q].writes] = stored[page[q].writes]
  BY DEF Undisturbed, Addressed, Untouched
<1>2. Of(q)' = Of(q) /\ \A j \in Of(q) : job'[j] = job[j]
  BY DEF Undisturbed, Of
<1>3. page[q].open /\ \A i, j \in Of(q) : i = j
  BY DEF CalmOK
<1>4. \A j \in Of(q) : AnswerOK(q, job[j])'
  <2> TAKE j \in Of(q)
  <2>1. AnswerOK(q, job[j]) /\ job'[j] = job[j]
    BY <1>2 DEF CalmOK
  <2> QED
    BY <1>1, <2>1 DEF AnswerOK, Effective, Inherited, Stored
<1>5. (page[q].saved /\ (\A j \in Of(q) : job[j].step = "sent") => page[q].template = Effective(page[q].writes))'
  <2>1. page[q].saved /\ (\A j \in Of(q) : job[j].step = "sent") => page[q].template = Effective(page[q].writes)
    BY DEF CalmOK
  <2> QED
    BY <1>1, <1>2, <2>1 DEF Effective, Inherited, Stored
<1> QED
  BY <1>1, <1>2, <1>3, <1>4, <1>5 DEF CalmOK

(* A step that leaves all pages but one alone.                             *)
LEMMA OthersStay ==
  ASSUME SavedInv, NEW p,
         \A q \in calm' : q # p => q \in calm /\ Undisturbed(q),
         p \in calm' => CalmOK(p)'
  PROVE  SavedInv'
<1> SUFFICES ASSUME NEW q \in calm', q # p
             PROVE  CalmOK(q)'
  BY DEF SavedInv
<1> QED
  BY Frame DEF SavedInv

LEMMA EditedCalm ==
  ASSUME TypeOK, SavedInv, Edited
  PROVE  TypeOK' /\ SavedInv'
<1>1. TypeOK'
  <2>1. \A j \in Jobs : job[j].page # None => job[j].page \in Pages
    BY DEF TypeOK, Request
  <2> QED
    BY <2>1 DEF Edited, TypeOK, Addressed
<1>2. \A q \in Pages : Undisturbed(q)
  BY DEF Edited, Undisturbed
<1>3. SavedInv'
  <2> SUFFICES ASSUME NEW q \in calm
               PROVE  CalmOK(q)'
    BY DEF SavedInv, Edited
  <2> QED
    BY <1>2, Frame DEF SavedInv, TypeOK
<1> QED
  BY <1>1, <1>3

LEMMA OpenCalm ==
  ASSUME TypeOK, SavedInv, NEW p \in Pages, NEW j \in Jobs, NEW asks \in Targets, NEW writes \in Targets,
         Open(p, j, asks, writes)
  PROVE  TypeOK' /\ SavedInv'
<1>1. /\ TypeOK' /\ Begun(j, p, "load", asks, "read", None)
      /\ page'[p].open /\ ~page'[p].saved /\ \A q \in Pages : q # p => page'[q] = page[q]
  BY OpenTypes
<1>2. ~page[p].open /\ stored' = stored /\ calm' = calm \cup {p}
  BY DEF Open
<1>3. \A i \in Jobs : job[i].page # p
  BY <1>2, TargetsType DEF TypeOK
<1>4. \A q \in calm' : q # p => q \in calm /\ Undisturbed(q)
  <2> SUFFICES ASSUME NEW q \in calm', q # p
               PROVE  q \in calm /\ Undisturbed(q)
    OBVIOUS
  <2>1. q \in calm /\ q \in Pages
    BY <1>2 DEF TypeOK
  <2>2. \A i \in Jobs : job[i].page = q \/ job'[i].page = q => job'[i] = job[i]
    BY <1>1, <2>1, FreshTypes, TargetsType DEF Begun
  <2> QED
    BY <1>1, <1>2, <2>1, <2>2 DEF Undisturbed, Addressed, Untouched
<1>5. Of(p)' = {j}
  BY <1>1, <1>3 DEF Of, Begun
<1>6. CalmOK(p)'
  <2>1. AnswerOK(p, job[j])'
    BY <1>1 DEF AnswerOK, Begun
  <2> QED
    BY <1>1, <1>5, <2>1 DEF CalmOK
<1> QED
  BY <1>1, <1>4, <1>6, OthersStay

LEMMA CloseCalm ==
  ASSUME TypeOK, SavedInv, NEW p \in Pages, Close(p)
  PROVE  TypeOK' /\ SavedInv'
<1>1. /\ TypeOK' /\ \A q \in Pages : q # p => page'[q] = page[q]
      /\ \A j \in Jobs : job'[j].page # p /\ (job[j].page # p => job'[j] = job[j])
  BY CloseTypes
<1>2. stored' = stored /\ calm' = calm \ {p}
  BY DEF Close
<1>3. \A q \in calm' : q # p => q \in calm /\ Undisturbed(q)
  <2> SUFFICES ASSUME NEW q \in calm', q # p
               PROVE  q \in calm /\ Undisturbed(q)
    OBVIOUS
  <2>1. q \in calm /\ q \in Pages
    BY <1>2 DEF TypeOK
  <2>2. \A i \in Jobs : job[i].page = q \/ job'[i].page = q => job'[i] = job[i]
    <3> SUFFICES ASSUME NEW i \in Jobs, job[i].page = p, job'[i].page = q
                 PROVE  FALSE
      BY <1>1
    <3>1. job'[i].page = None
      BY DEF Close, Of, TypeOK, Request
    <3> QED
      BY <2>1, <3>1, TargetsType
  <2> QED
    BY <1>1, <1>2, <2>1, <2>2 DEF Undisturbed, Addressed, Untouched
<1> QED
  BY <1>1, <1>2, <1>3, OthersStay

LEMMA SaveCalm ==
  ASSUME TypeOK, SavedInv, NEW p \in Pages, NEW j \in Jobs, Save(p, j) \/ Reset(p, j)
  PROVE  TypeOK' /\ SavedInv'
<1>1. /\ TypeOK'
      /\ \A q \in Pages : /\ page'[q].open = page[q].open /\ page'[q].writes = page[q].writes
                          /\ page'[q].saved = page[q].saved /\ page'[q].template = page[q].template
  BY SaveTypes
<1>2. PICK k \in {"save", "reset"}, t \in Designs \cup {None} : Begun(j, p, k, page[p].writes, "sent", t)
  BY SaveTypes
<1>3. stored' = stored /\ calm' = IF Of(p) = {} THEN calm ELSE calm \ {p}
  BY DEF Save, Reset
<1>4. \A q \in calm' : q # p => q \in calm /\ Undisturbed(q)
  <2> SUFFICES ASSUME NEW q \in calm', q # p
               PROVE  q \in calm /\ Undisturbed(q)
    OBVIOUS
  <2>1. q \in calm /\ q \in Pages
    BY <1>3 DEF TypeOK
  <2>2. \A i \in Jobs : job[i].page = q \/ job'[i].page = q => job'[i] = job[i]
    BY <1>2, <2>1, FreshTypes, TargetsType DEF Begun
  <2> QED
    BY <1>1, <1>3, <2>1, <2>2 DEF Undisturbed, Addressed, Untouched
<1>5. ASSUME p \in calm'
      PROVE  CalmOK(p)'
  <2>1. p \in calm /\ Of(p) = {}
    BY <1>3, <1>5
  <2>2. Of(p)' = {j}
    BY <1>2, <2>1 DEF Of, Begun
  <2>3. page[p].open /\ (page[p].saved => page[p].template = Effective(page[p].writes))
    BY <2>1 DEF SavedInv, CalmOK
  <2>4. AnswerOK(p, job[j])'
    BY <1>1, <1>2 DEF AnswerOK, Begun
  <2>5. (page[p].saved => page[p].template = Effective(page[p].writes))'
    BY <1>1, <1>3, <2>3 DEF Effective, Inherited, Stored
  <2> QED
    BY <1>1, <2>2, <2>3, <2>4, <2>5 DEF CalmOK
<1> QED
  BY <1>1, <1>4, <1>5, OthersStay

(* The only request of a page, when it is calm.                            *)
LEMMA OnlyOne ==
  ASSUME TypeOK, SavedInv, NEW j \in Jobs, job[j].page \in calm
  PROVE  /\ job[j].page \in Pages /\ job[j].page # None /\ Of(job[j].page) = {j}
         /\ AnswerOK(job[j].page, job[j]) /\ page[job[j].page].open
         /\ page[job[j].page].saved /\ job[j].step = "sent" =>
               page[job[j].page].template = Effective(page[job[j].page].writes)
BY TargetsType DEF SavedInv, CalmOK, Of, TypeOK

(* Others are disturbed by a step of a request only if it writes.          *)
LEMMA MovingOthers ==
  ASSUME TypeOK, NEW j \in Jobs, Moved(j, job'[j]), job'[j].page \in {job[j].page, None},
         NEW q \in calm, q # job[j].page, page'[q] = page[q],
         stored'[System] = stored[System], stored'[page[q].writes] = stored[page[q].writes]
  PROVE  Undisturbed(q)
<1>1. q \in Pages /\ q # None
  BY TargetsType DEF TypeOK
<1>2. \A i \in Jobs : job[i].page = q \/ job'[i].page = q => job'[i] = job[i]
  BY <1>1 DEF Moved
<1> QED
  BY <1>2 DEF Undisturbed, Addressed, Untouched

(* What a write of the service leaves, of the row and of the pages.        *)
LEMMA Writes ==
  ASSUME TypeOK, NEW t \in Targets, NEW d \in Designs \cup {None}, NEW p, Write(t, d, p), page' = page
  PROVE  /\ stored' \in [Targets -> Designs \cup {Emptied, None}] /\ stored'[t] = d /\ calm' \subseteq calm
         /\ \A q \in calm' : q # p => stored'[System] = stored[System] /\ stored'[page[q].writes] = stored[page[q].writes]
<1>1. stored' = [stored EXCEPT ![t] = d] /\ stored \in [Targets -> Designs \cup {Emptied, None}]
  BY DEF Write, TypeOK
<1>2. calm' \subseteq calm /\ \A q \in calm' : q # p => t # System /\ t # page[q].writes
  BY DEF Write
<1>3. \A q \in calm' : page[q].writes \in Targets
  BY <1>2 DEF TypeOK, Page
<1> QED
  BY <1>1, <1>2, <1>3, TargetsType

LEMMA ServeCalm ==
  ASSUME TypeOK, SavedInv, NEW j \in Jobs, Serve(j)
  PROVE  TypeOK' /\ SavedInv'
<1> DEFINE r == job[j]
<1>p. PICK p : p = r.page
  OBVIOUS
<1> USE <1>p
<1>1. /\ r \in Request /\ RequestOK(r) /\ r.step = "sent" /\ r.kind \in {"save", "reset"} /\ r.to \in Targets
      /\ page' = page /\ gestures' = gestures
  BY DEF Serve, TypeOK, RequestOK, Request
<1>2. /\ r.kind = "save" => Write(r.to, Sanitize(r.design), p) /\ Reply(j, Sanitize(r.design))
      /\ r.kind = "reset" /\ r.to = System => Write(System, DefaultTemplate, p) /\ Reply(j, DefaultTemplate)
      /\ r.kind = "reset" /\ r.to # System => Write(r.to, None, p) /\ job' = [job EXCEPT ![j].step = "read"]
  BY <1>1 DEF Serve
<1>3. r.kind = "save" => r.design \in Designs /\ Sanitize(r.design) \in Designs
  BY <1>1, SanitizeType DEF RequestOK
<1>4. PICK d \in Designs \cup {None} : Write(r.to, d, p) /\ (d = None => OnTo(j, "read")) /\ (d # None => Replied(j, d) /\ Sanitize(d) = d)
  <2>1. CASE r.kind = "save"
    <3>1. Replied(j, Sanitize(r.design))
      BY <1>1, <1>2, <1>3, <2>1, Replies
    <3> QED
      BY <1>2, <1>3, <2>1, <3>1, SanitizeType, TargetsType
  <2>2. CASE r.kind = "reset" /\ r.to = System
    <3>1. Replied(j, DefaultTemplate)
      BY <1>1, <1>2, <2>2, Replies, BuiltIn
    <3> QED
      BY <1>2, <2>2, <3>1, BuiltIn, DesignsAssumption, TargetsType
  <2>3. CASE r.kind = "reset" /\ r.to # System
    <3>1. OnTo(j, "read")
      BY <1>1, <1>2, <2>3, GoesOn
    <3> QED
      BY <1>2, <2>3, <3>1
  <2> QED
    BY <1>1, <2>1, <2>2, <2>3
<1>5. /\ stored' \in [Targets -> Designs \cup {Emptied, None}] /\ stored'[r.to] = d /\ calm' \subseteq calm
      /\ \A q \in calm' : q # p => stored'[System] = stored[System] /\ stored'[page[q].writes] = stored[page[q].writes]
  <2>1. Write(r.to, d, p) /\ r.to \in Targets /\ page' = page
    BY <1>1, <1>4
  <2> HIDE DEF r
  <2> QED
    BY <2>1, Writes
<1>6. Moved(j, job'[j]) /\ job'[j].kind = r.kind /\ job'[j].page = p /\ job'[j].to = r.to /\ job'[j].step # "sent"
  BY <1>4 DEF Replied, OnTo
<1>7. TypeOK'
  <2>1. calm' \subseteq Pages /\ page' \in [Pages -> Page]
    BY <1>1, <1>5 DEF TypeOK
  <2> QED
    BY <1>1, <1>5, <1>6, <2>1, MovingTypes
<1>8. \A q \in calm' : q # p => q \in calm /\ Undisturbed(q)
  BY <1>1, <1>5, <1>6, MovingOthers
<1>9. ASSUME p \in calm'
      PROVE  CalmOK(p)'
  <2>1. Of(p) = {j} /\ p \in Pages /\ AnswerOK(p, r) /\ page[p].open
    BY <1>5, <1>9, OnlyOne
  <2>2. Of(p)' = {j}
    BY <1>6, <2>1 DEF Of, Moved
  <2>3. r.to = page[p].writes
    BY <1>1, <2>1 DEF AnswerOK
  <2>4. AnswerOK(p, job[j])'
    <3>1. CASE d = None
      BY <1>1, <1>4, <1>5, <1>6, <2>3, <3>1 DEF AnswerOK, OnTo
    <3>2. CASE d # None
      <4>1. d \in Designs /\ d # Emptied /\ job'[j].step = "answered" /\ job'[j].design = d /\ Sanitize(d) = d
        BY <1>4, <3>2, BuiltIn DEF Replied
      <4> QED
        BY <1>1, <1>5, <1>6, <2>3, <3>2, <4>1 DEF AnswerOK, Effective, Stored
    <3> QED
      BY <3>1, <3>2
  <2> QED
    BY <1>1, <1>6, <2>1, <2>2, <2>4 DEF CalmOK
<1> QED
  BY <1>7, <1>8, <1>9, OthersStay

LEMMA GetCalm ==
  ASSUME TypeOK, SavedInv, NEW j \in Jobs, Get(j) \/ Inherit(j)
  PROVE  TypeOK' /\ SavedInv'
<1> DEFINE r == job[j]
<1>p. PICK p : p = r.page
  OBVIOUS
<1> USE <1>p
<1>1. /\ r \in Request /\ RequestOK(r) /\ r.step \in {"read", "inherit"} /\ r.to \in Targets
      /\ page' = page /\ gestures' = gestures /\ stored' = stored /\ calm' = calm
  BY DEF Get, Inherit, TypeOK, Request
<1>2. \/ Stored(r.to) /\ Replied(j, Sanitize(stored[r.to]))
      \/ OnTo(j, "inherit")
      \/ r.step = "inherit" /\ Replied(j, Inherited)
  <2>1. CASE Get(j) /\ Stored(r.to)
    <3>1. Sanitize(stored[r.to]) \in Designs
      BY <1>1, <2>1, SanitizeType DEF Stored, TypeOK
    <3> QED
      BY <1>1, <2>1, <3>1, Replies DEF Get
  <2>2. CASE Get(j) /\ ~Stored(r.to)
    BY <1>1, <2>2, GoesOn DEF Get
  <2>3. CASE Inherit(j)
    BY <1>1, <2>3, Replies, EffectiveType DEF Inherit
  <2> QED
    BY <2>1, <2>2, <2>3
<1>3. Moved(j, job'[j]) /\ job'[j].kind = r.kind /\ job'[j].page = p /\ job'[j].to = r.to /\ job'[j].step # "sent"
  BY <1>2 DEF Replied, OnTo
<1>4. TypeOK'
  <2>1. calm' \subseteq Pages /\ page' \in [Pages -> Page] /\ stored' \in [Targets -> Designs \cup {Emptied, None}]
    BY <1>1 DEF TypeOK
  <2> QED
    BY <1>1, <1>3, <2>1, MovingTypes
<1>5. \A q \in calm' : q # p => q \in calm /\ Undisturbed(q)
  BY <1>1, <1>3, MovingOthers
<1>6. ASSUME p \in calm'
      PROVE  CalmOK(p)'
  <2>1. Of(p) = {j} /\ p \in Pages /\ AnswerOK(p, r) /\ page[p].open
    BY <1>1, <1>6, OnlyOne
  <2>2. Of(p)' = {j}
    BY <1>3, <2>1 DEF Of, Moved
  <2>3. r.kind # "load" => r.to = page[p].writes /\ stored[r.to] = None
    BY <1>1, <2>1 DEF AnswerOK
  <2>4. r.kind = "load" => ~page[p].saved
    BY <2>1 DEF AnswerOK
  <2>5. r.kind # "load" => ~Stored(r.to) /\ Inherited = Effective(r.to)
    BY <2>3 DEF Stored, Effective
  <2>6. AnswerOK(p, job[j])'
    <3>1. CASE r.kind = "load"
      BY <1>1, <1>3, <2>4, <3>1 DEF AnswerOK
    <3>2. CASE r.kind # "load"
      <4>1. job'[j].step = "inherit" \/ (job'[j].step = "answered" /\ job'[j].design = Effective(r.to))
        BY <1>2, <2>5, <3>2 DEF Replied, OnTo
      <4> QED
        BY <1>1, <1>3, <2>3, <3>2, <4>1 DEF AnswerOK, Effective, Inherited, Stored
    <3> QED
      BY <3>1, <3>2
  <2> QED
    BY <1>1, <1>3, <2>1, <2>2, <2>6 DEF CalmOK
<1> QED
  BY <1>4, <1>5, <1>6, OthersStay

LEMMA AnsweredCalm ==
  ASSUME TypeOK, SavedInv, NEW j \in Jobs, Answered(j)
  PROVE  TypeOK' /\ SavedInv'
<1> DEFINE r == job[j]
           k == r.kind
<1>p. PICK p : p = r.page
  OBVIOUS
<1> USE <1>p
<1>1. /\ r \in Request /\ RequestOK(r) /\ r.step = "answered" /\ r.design \in Designs
      /\ gestures' = gestures /\ stored' = stored /\ calm' = calm /\ job' = [job EXCEPT ![j] = Idle]
  BY DEF Answered, TypeOK, RequestOK
<1>2. Moved(j, Idle)
  BY <1>1, FreshTypes, Steps
<1>3. /\ page' \in [Pages -> Page]
      /\ \A q \in Pages : q # p => page'[q] = page[q]
      /\ p # None => /\ page'[p].open = page[p].open /\ page'[p].writes = page[p].writes
                     /\ page'[p].template = r.design /\ page'[p].saved = (page[p].saved \/ k # "load")
  <2>1. page \in [Pages -> Page]
    BY DEF TypeOK
  <2>2. CASE p = None
    BY <2>1, <2>2 DEF Answered
  <2>3. CASE p # None
    <3> DEFINE saved == page[p].saved \/ k # "load"
               selected == IF k = "reset" THEN 0 ELSE page[p].selected
               busy == IF k = "save" THEN FALSE ELSE page[p].busy
               s == [page[p] EXCEPT !.template = r.design, !.saved = saved, !.selected = selected, !.busy = busy]
    <3>1. p \in Pages /\ page[p] \in Page
      BY <1>1, <2>1, <2>3 DEF Request
    <3>2. page' = [page EXCEPT ![p] = s]
      BY <2>1, <2>3, <3>1 DEF Answered, Page
    <3>3. saved \in BOOLEAN /\ selected \in Nat /\ busy \in BOOLEAN
      BY <3>1 DEF Page
    <3>4. s \in Page /\ s.open = page[p].open /\ s.writes = page[p].writes /\ s.template = r.design
      BY <1>1, <3>1, <3>3 DEF Page
    <3>5. s.saved = saved
      BY <3>1 DEF Page
    <3> HIDE DEF s
    <3> QED
      BY <2>1, <3>1, <3>2, <3>4, <3>5
  <2> QED
    BY <2>2, <2>3
<1>4. TypeOK'
  <2>1. calm' \subseteq Pages /\ stored' \in [Targets -> Designs \cup {Emptied, None}]
    BY <1>1 DEF TypeOK
  <2>2. \A q \in Pages : page[q].open => page'[q].open
    <3> SUFFICES ASSUME NEW q \in Pages, page[q].open
                 PROVE  page'[q].open
      OBVIOUS
    <3> QED
      BY <1>3, TargetsType
  <2>3. Moved(j, job'[j]) /\ job'[j].page = None
    BY <1>2, FreshTypes DEF Moved
  <2> QED
    BY <1>1, <1>3, <2>1, <2>2, <2>3, MovingTypes
<1>5. \A q \in calm' : q # p => q \in calm /\ Undisturbed(q)
  <2>1. Moved(j, job'[j]) /\ job'[j].page = None /\ \A q \in calm : q \in Pages
    BY <1>2, FreshTypes DEF Moved, TypeOK
  <2> QED
    BY <1>1, <1>3, <2>1, MovingOthers
<1>6. ASSUME p \in calm'
      PROVE  CalmOK(p)'
  <2>1. Of(p) = {j} /\ p \in Pages /\ p # None /\ AnswerOK(p, r) /\ page[p].open
    BY <1>1, <1>6, OnlyOne
  <2>2. Of(p)' = {}
    BY <1>2, <2>1, FreshTypes DEF Of, Moved
  <2>3. CASE k = "load"
    <3>1. ~page[p].saved
      BY <2>1, <2>3 DEF AnswerOK
    <3>2. ~page'[p].saved
      BY <1>3, <2>1, <2>3, <3>1
    <3> QED
      BY <1>3, <2>1, <2>2, <3>2 DEF CalmOK
  <2>4. CASE k # "load"
    <3>1. r.to = page[p].writes /\ r.design = Effective(r.to)
      BY <1>1, <2>1, <2>4 DEF AnswerOK
    <3>2. page'[p].template = Effective(page[p].writes) /\ page'[p].writes = page[p].writes
      BY <1>3, <2>1, <3>1
    <3>3. (page[p].template = Effective(page[p].writes))'
      BY <1>1, <3>2 DEF Effective, Inherited, Stored
    <3> QED
      BY <1>3, <2>1, <2>2, <3>3 DEF CalmOK
  <2> QED
    BY <2>3, <2>4
<1> QED
  BY <1>4, <1>5, <1>6, OthersStay

LEMMA LoseCalm ==
  ASSUME TypeOK, SavedInv, NEW j \in Jobs, Lose(j)
  PROVE  TypeOK' /\ SavedInv'
<1> DEFINE r == job[j]
<1>p. PICK p : p = r.page
  OBVIOUS
<1> USE <1>p
<1>1. /\ r \in Request /\ gestures' = gestures /\ stored' = stored /\ job' = [job EXCEPT ![j] = Idle]
      /\ calm' = IF r.kind = "load" \/ r.step = "sent" THEN calm ELSE calm \ {p}
  BY DEF Lose, TypeOK
<1>2. Moved(j, Idle)
  BY <1>1, FreshTypes, Steps
<1>3. /\ page' \in [Pages -> Page]
      /\ \A q \in Pages : q # p => page'[q] = page[q]
      /\ \A q \in Pages : /\ page'[q].open = page[q].open /\ page'[q].writes = page[q].writes
                          /\ page'[q].template = page[q].template /\ page'[q].saved = page[q].saved
  <2>1. page \in [Pages -> Page]
    BY DEF TypeOK
  <2>2. CASE page' = page
    BY <2>1, <2>2
  <2>3. CASE p # None /\ page' = [page EXCEPT ![p].busy = FALSE]
    <3> DEFINE s == [page[p] EXCEPT !.busy = FALSE]
    <3>1. p \in Pages /\ page[p] \in Page
      BY <1>1, <2>1, <2>3 DEF Request
    <3>2. page' = [page EXCEPT ![p] = s]
      BY <2>1, <2>3, <3>1 DEF Page
    <3>3. s \in Page /\ s.open = page[p].open /\ s.writes = page[p].writes /\ s.template = page[p].template
      BY <3>1 DEF Page
    <3>4. s.saved = page[p].saved
      BY <3>1 DEF Page
    <3> HIDE DEF s
    <3> QED
      BY <2>1, <3>1, <3>2, <3>3, <3>4
  <2> QED
    BY <2>2, <2>3 DEF Lose
<1>4. Moved(j, job'[j]) /\ job'[j].page = None /\ \A q \in calm : q \in Pages
  BY <1>2, FreshTypes DEF Moved, TypeOK
<1>5. TypeOK'
  <2>1. calm' \subseteq Pages /\ stored' \in [Targets -> Designs \cup {Emptied, None}]
    BY <1>1 DEF TypeOK
  <2> QED
    BY <1>1, <1>3, <1>4, <2>1, MovingTypes
<1>6. \A q \in calm' : q # p => q \in calm /\ Undisturbed(q)
  BY <1>1, <1>3, <1>4, MovingOthers
<1>7. ASSUME p \in calm'
      PROVE  CalmOK(p)'
  <2>1. p \in calm /\ (r.kind = "load" \/ r.step = "sent")
    BY <1>1, <1>7
  <2>2. /\ Of(p) = {j} /\ p \in Pages /\ p # None /\ AnswerOK(p, r) /\ page[p].open
        /\ page[p].saved /\ r.step = "sent" => page[p].template = Effective(page[p].writes)
    BY <2>1, OnlyOne
  <2>3. Of(p)' = {}
    BY <1>2, <2>2, FreshTypes DEF Of, Moved
  <2>4. page[p].saved => page[p].template = Effective(page[p].writes)
    BY <2>1, <2>2 DEF AnswerOK
  <2>5. (page[p].saved => page[p].template = Effective(page[p].writes))'
    BY <1>1, <1>3, <2>2, <2>4 DEF Effective, Inherited, Stored
  <2> QED
    BY <1>3, <2>2, <2>3, <2>5 DEF CalmOK
<1> QED
  BY <1>5, <1>6, <1>7, OthersStay

LEMMA RestartCalm ==
  ASSUME TypeOK, SavedInv, Restart
  PROVE  TypeOK' /\ SavedInv'
<1>1. /\ stored' = [t \in Targets |-> IF stored[t] = None THEN None ELSE Sanitize(stored[t])]
      /\ calm' = {} /\ UNCHANGED <<page, job, gestures>>
  BY DEF Restart
<1>2. stored' \in [Targets -> Designs \cup {Emptied, None}]
  BY <1>1, SanitizeType DEF TypeOK
<1> QED
  BY <1>1, <1>2 DEF TypeOK, SavedInv

LEMMA NextCalm == TypeOK /\ SavedInv /\ [Next]_vars => TypeOK' /\ SavedInv'
<1> SUFFICES ASSUME TypeOK, SavedInv, [Next]_vars
             PROVE  TypeOK' /\ SavedInv'
  OBVIOUS
<1>1. CASE UNCHANGED vars
  BY <1>1 DEF vars, TypeOK, SavedInv, CalmOK, AnswerOK, Of, Effective, Inherited, Stored
<1>2. CASE \E p \in Pages, j \in Jobs : \/ \E asks, writes \in Targets : Open(p, j, asks, writes)
                                        \/ Save(p, j) \/ Reset(p, j)
  BY <1>2, OpenCalm, SaveCalm
<1>3. CASE \E p \in Pages : Close(p)
  BY <1>3, CloseCalm
<1>4. CASE \E p \in Pages : EditAction(p)
  BY <1>4, EditsEdit, EditedCalm
<1>5. CASE \E j \in Jobs : Serve(j) \/ Get(j) \/ Inherit(j) \/ Answered(j) \/ Lose(j)
  BY <1>5, ServeCalm, GetCalm, AnsweredCalm, LoseCalm
<1>6. CASE Restart
  BY <1>6, RestartCalm
<1> QED
  BY <1>1, <1>2, <1>3, <1>4, <1>5, <1>6 DEF Next, EditAction

LEMMA Reachable == Spec => [](TypeOK /\ SavedInv)
<1>1. Init => TypeOK /\ SavedInv
  BY TypeInit DEF Init, SavedInv
<1> QED
  BY <1>1, NextCalm, PTL DEF Spec

\* What the page calls saved is what cards are drawn with, for any number of pages
\* whose requests do not overlap, whatever is lost or written by others elsewhere.
THEOREM SavedDesignsAreStored == Spec => []SavedIsStored
<1>1. SavedInv => SavedIsStored
  BY DEF SavedInv, CalmOK, SavedIsStored
<1> QED
  BY <1>1, Reachable, PTL

-----------------------------------------------------------------------------
(* What is dragged                                                         *)

(* A request's step changes what is known of it.                           *)
LEMMA RequestsStep ==
  ASSUME TypeOK, NEW j \in Jobs, Serve(j) \/ Get(j) \/ Inherit(j) \/ Answered(j) \/ Lose(j)
  PROVE  job' # job
<1>1. job \in [Jobs -> Request]
  BY DEF TypeOK
<1>2. CASE Serve(j) \/ Get(j) \/ Inherit(j)
  <2>1. job[j].step \in {"sent", "read", "inherit"}
    BY <1>2 DEF Serve, Get, Inherit
  <2>2. \/ \E t : job' = [job EXCEPT ![j].step = "answered", ![j].design = t]
        \/ job[j].step = "sent" /\ job' = [job EXCEPT ![j].step = "read"]
        \/ job[j].step = "read" /\ job' = [job EXCEPT ![j].step = "inherit"]
    BY <1>2 DEF Serve, Get, Inherit, Reply
  <2>3. job'[j].step # job[j].step
    BY <1>1, <2>1, <2>2 DEF Request
  <2> QED
    BY <2>3
<1>3. CASE Answered(j) \/ Lose(j)
  <2>1. job[j] # Idle
    BY <1>3, FreshTypes DEF Answered, Lose
  <2>2. job'[j] = Idle
    BY <1>1, <1>3 DEF Answered, Lose
  <2> QED
    BY <2>1, <2>2
<1> QED
  BY <1>2, <1>3

LEMMA RequestsBegin ==
  ASSUME TypeOK, NEW p \in Pages, NEW j \in Jobs,
         Save(p, j) \/ Reset(p, j) \/ \E asks, writes \in Targets : Open(p, j, asks, writes)
  PROVE  job' # job
<1>1. \E k \in {"load", "save", "reset"} : job[j].kind = "idle" /\ job'[j].kind = k
  BY SaveTypes, OpenTypes, FreshTypes DEF Begun
<1> QED
  BY <1>1

(* Nothing but the pointer changes a design while it drags.                *)
LEMMA OnlyPointer ==
  ASSUME TypeOK, NEW p \in Pages, Dragged(p), [Next]_vars
  PROVE  \E d \in Drags : PointerMove(p, d)
<1>1. /\ job' = job /\ page[p].drag # None /\ page'[p].drag # None
      /\ page'[p] # page[p] /\ page'[p].template # page[p].template
  BY DEF Dragged
<1>2. page \in [Pages -> Page]
  BY DEF TypeOK
<1>3. ~UNCHANGED vars /\ ~Restart
  BY <1>1 DEF vars, Restart
<1>4. \A q \in Pages : ~Close(q)
  <2> SUFFICES ASSUME NEW q \in Pages, Close(q)
               PROVE  FALSE
    OBVIOUS
  <2>1. page' = [page EXCEPT ![q] = Closed] /\ Closed.drag = None
    BY DEF Close, Closed
  <2> QED
    BY <1>1, <1>2, <2>1
<1>5. PICK q \in Pages : EditAction(q)
  <2>1. \A q \in Pages, j \in Jobs : ~(Save(q, j) \/ Reset(q, j) \/ \E asks, writes \in Targets : Open(q, j, asks, writes))
    BY <1>1, RequestsBegin
  <2>2. \A j \in Jobs : ~(Serve(j) \/ Get(j) \/ Inherit(j) \/ Answered(j) \/ Lose(j))
    BY <1>1, RequestsStep
  <2> QED
    BY <1>3, <1>4, <2>1, <2>2 DEF Next, EditAction
<1>6. CASE \/ Add(q) \/ Duplicate(q) \/ Remove(q) \/ \E front \in BOOLEAN : Reorder(q, front)
           \/ \E by \in {-1, 1} : Turn(q, by)
           \/ \E field \in {"x", "y", "width", "height"}, v \in Typed : Type(q, field, v)
           \/ \E look \in 0..1 : Restyle(q, look)
           \/ \E look \in 0..1, width \in CardWidths : PatchTheme(q, look, width)
           \/ \E t \in Imported : Import(q, t)
           \/ \E d \in Drags : PointerMove(q, d) /\ q # p
  <2>1. q # p \/ page[q].drag = None
    BY <1>6 DEF Add, Duplicate, Remove, Reorder, Turn, Type, Restyle, PatchTheme, Import, WithSelected
  <2>2. \E t, r : Edit(q, t, r)
    BY <1>6 DEF Add, Duplicate, Remove, Reorder, Turn, Type, Restyle, PatchTheme, Import, PointerMove
  <2>3. \E r : page' = [page EXCEPT ![q] = r]
    BY <2>2 DEF Edit
  <2> QED
    BY <1>1, <1>2, <2>1, <2>3
<1>7. CASE \/ \E id \in {0} \cup Ids(page[q].template), mode \in {"move", "resize"} : PointerDown(q, id, mode)
           \/ PointerUp(q) \/ Preview(q)
  <2>1. \A s \in Pages : s # q => page'[s] = page[s]
    BY <1>2, <1>7 DEF PointerDown, PointerUp, Preview
  <2>2. page[q].drag = None \/ page'[q].drag = None
    BY <1>2, <1>7 DEF PointerDown, PointerUp, Preview, Page
  <2> QED
    BY <1>1, <2>1, <2>2
<1> QED
  BY <1>5, <1>6, <1>7 DEF EditAction

(* An element is where its corner, size and turn say.                      *)
LEMMA SameBox ==
  ASSUME NEW e, NEW m, NEW cw, NEW ch,
         m.x = e.x, m.y = e.y, m.w = e.w, m.h = e.h, m.turn = e.turn
  PROVE  (Inside(e, cw, ch, 0) <=> Inside(m, cw, ch, 0)) /\ (Fits(e, cw, ch) <=> Fits(m, cw, ch))
BY DEF Inside, Fits, BoxX, BoxY, BoundsW, BoundsH, CentreX, CentreY, Sideways

LEMMA Dragging ==
  ASSUME NEW s \in Elements, NEW d \in Drags, NEW w \in Nat
  PROVE  LET m == Move(s, 2 * d[1], 2 * d[2], w, CardHeight, Grid, Threshold)
             g == Resize(s, d[1], d[2], w, CardHeight, Grid, MinSize)
         IN /\ m.w = s.w /\ m.h = s.h /\ m.turn = s.turn
            /\ Fits(s, w, CardHeight) => Inside(m, w, CardHeight, 0)
            /\ Fits(g, w, CardHeight) => Inside(g, w, CardHeight, 0)
<1> DEFINE x == d[1]
           y == d[2]
           vx == 2 * d[1]
           vy == 2 * d[2]
<1>1. x \in Int /\ y \in Int /\ vx \in Int /\ vy \in Int
  BY DesignerAssumption
<1>2. CardHeight \in Nat /\ MinSize \in Nat /\ Threshold \in Nat /\ Grid \in Nat \ {0}
  BY BoundsAssumption
<1> HIDE DEF x, y, vx, vy
<1>3. LET m == Move(s, vx, vy, w, CardHeight, Grid, Threshold)
      IN m.w = s.w /\ m.h = s.h /\ m.turn = s.turn /\ (Fits(s, w, CardHeight) => Inside(m, w, CardHeight, 0))
  BY <1>1, <1>2, MoveType, MoveInside
<1>4. LET g == Resize(s, x, y, w, CardHeight, Grid, MinSize)
      IN Fits(g, w, CardHeight) => Inside(g, w, CardHeight, 0)
  BY <1>1, <1>2, ResizeInside
<1> QED
  BY <1>3, <1>4 DEF x, y, vx, vy

LEMMA PointerPlaces ==
  ASSUME TypeOK, NEW p \in Pages, NEW d \in Drags, PointerMove(p, d),
         NEW i \in Named(page'[p].template, page[p].drag.id),
         Fits(page'[p].template.elements[i], page'[p].template.width, CardHeight),
         page[p].drag.mode = "resize" \/ SameSize(p, page'[p].template.elements[i])
  PROVE  Inside(page'[p].template.elements[i], page'[p].template.width, CardHeight, 0)
<1> DEFINE r == page[p].drag
           t == page[p].template
           To(e) ==
             LET s == [r.start EXCEPT !.turn = e.turn] IN
             IF r.mode = "resize" THEN Resize(s, d[1], d[2], t.width, CardHeight, Grid, MinSize)
             ELSE LET m == Move(s, 2 * d[1], 2 * d[2], t.width, CardHeight, Grid, Threshold)
                  IN [e EXCEPT !.x = m.x, !.y = m.y]
           f == [n \in DOMAIN t.elements |-> IF t.elements[n].id = r.id THEN To(t.elements[n]) ELSE t.elements[n]]
<1>1. r # None /\ Edit(p, [t EXCEPT !.elements = f], page[p])
  BY DEF PointerMove, Update
<1>2. /\ page \in [Pages -> Page] /\ page[p] \in Page
      /\ t \in Designs /\ t.elements \in Seq(Elements) /\ t.width \in Nat /\ r.start \in Elements
  <2>1. r \in Drag
    BY <1>1 DEF TypeOK, Page
  <2> QED
    BY <2>1, PageType DEF Drag, TypeOK
<1> HIDE DEF To
<1>4. page'[p].template.elements = f /\ page'[p].template.width = t.width
  <2> DEFINE u == [t EXCEPT !.elements = f]
             s == [page[p] EXCEPT !.template = u, !.saved = FALSE]
  <2>1. u.elements = f /\ u.width = t.width
    BY <1>2 DEF Designs
  <2>2. page' = [page EXCEPT ![p] = s]
    BY <1>1 DEF Edit
  <2> HIDE DEF u
  <2>3. s.template = u
    BY <1>2 DEF Page
  <2> QED
    BY <1>2, <2>1, <2>2, <2>3
<1>5. i \in DOMAIN t.elements /\ f[i] = page'[p].template.elements[i] /\ f[i].id = r.id
  BY <1>4 DEF Named
<1> DEFINE e == t.elements[i]
<1>6. e \in Elements /\ e.id = r.id /\ f[i] = To(e)
  BY <1>2, <1>5
<1> HIDE DEF f, e
<1>7. Fits(To(e), t.width, CardHeight) /\ (r.mode = "resize" \/ (r.start.w = To(e).w /\ r.start.h = To(e).h))
  BY <1>4, <1>5, <1>6 DEF SameSize
<1> DEFINE s == [r.start EXCEPT !.turn = e.turn]
           m == Move(s, 2 * d[1], 2 * d[2], t.width, CardHeight, Grid, Threshold)
<1>8. s \in Elements /\ s.w = r.start.w /\ s.h = r.start.h /\ s.turn = e.turn
  BY <1>2, <1>6 DEF Elements
<1> HIDE DEF s
<1>d. /\ m.w = s.w /\ m.h = s.h /\ m.turn = s.turn
      /\ Fits(s, t.width, CardHeight) => Inside(m, t.width, CardHeight, 0)
      /\ LET g == Resize(s, d[1], d[2], t.width, CardHeight, Grid, MinSize)
         IN Fits(g, t.width, CardHeight) => Inside(g, t.width, CardHeight, 0)
  <2>1. t.width \in Nat
    BY <1>2
  <2> HIDE DEF t
  <2> QED
    BY <1>8, <2>1, Dragging
<1>9. CASE r.mode = "resize"
  <2>1. To(e) = Resize(s, d[1], d[2], t.width, CardHeight, Grid, MinSize)
    BY <1>9 DEF To, s
  <2>2. Inside(To(e), t.width, CardHeight, 0)
    BY <1>7, <1>d, <2>1
  <2> QED
    BY <1>4, <1>5, <1>6, <2>2
<1>10. CASE r.mode # "resize"
  <2>1. To(e) = [e EXCEPT !.x = m.x, !.y = m.y]
    BY <1>10 DEF To, s
  <2>2. m.w = s.w /\ m.h = s.h /\ m.turn = s.turn
    BY <1>d
  <2> HIDE DEF m
  <2>3. To(e).x = m.x /\ To(e).y = m.y /\ To(e).w = e.w /\ To(e).h = e.h /\ To(e).turn = e.turn
    BY <1>6, <2>1 DEF Elements
  <2>4. m.w = To(e).w /\ m.h = To(e).h /\ m.turn = To(e).turn
    BY <1>7, <1>8, <1>10, <2>2, <2>3
  <2>5. Fits(m, t.width, CardHeight)
    BY <1>7, <2>3, <2>4, SameBox
  <2>6. Fits(s, t.width, CardHeight)
    BY <2>2, <2>5 DEF Fits, BoundsW, BoundsH, Sideways
  <2>7. Inside(m, t.width, CardHeight, 0)
    BY <1>d, <2>6 DEF m
  <2>8. Inside(To(e), t.width, CardHeight, 0)
    BY <2>3, <2>4, <2>7, SameBox
  <2> QED
    BY <1>4, <1>5, <1>6, <2>8
<1> QED
  BY <1>9, <1>10

\* Whatever the card's size, the grid and how far it is dragged, an element that fits is
\* dropped on the card as it is seen, by moving and by resizing, in each of its turns.
THEOREM DroppedAsSeen == Spec => PlacedAsSeen
<1> DEFINE Placed ==
      \A p \in Pages : Dragged(p) =>
        LET t == page'[p].template IN
        \A i \in Named(t, page[p].drag.id) :
          /\ Fits(t.elements[i], t.width, CardHeight)
          /\ page[p].drag.mode = "resize" \/ SameSize(p, t.elements[i])
          => Inside(t.elements[i], t.width, CardHeight, 0)
<1>1. TypeOK /\ [Next]_vars => Placed
  BY OnlyPointer, PointerPlaces
<1>2. TypeOK /\ [Next]_vars => [Placed]_vars
  BY <1>1
<1> HIDE DEF Placed
<1>3. Spec => [][Placed]_vars
  BY <1>2, Reachable, PTL DEF Spec
<1> QED
  BY <1>3 DEF PlacedAsSeen, Placed

-----------------------------------------------------------------------------
(* The administrators' page of journalists                                 *)

\* The fields a request and the page have.
RequestShape(r) ==
  r = [kind |-> r.kind, of |-> r.of, card |-> r.card, put |-> r.put, photo |-> r.photo,
       then |-> r.then, step |-> r.step, answer |-> r.answer]
PageShape(p) ==
  p = [list |-> p.list, selected |-> p.selected, cards |-> p.cards, form |-> p.form, busy |-> p.busy,
       saving |-> p.saving, undo |-> p.undo, trashOpen |-> p.trashOpen, trash |-> p.trash]
Shape ==
  /\ PageShape(shown)
  /\ asked = [j \in Calls |-> asked[j]]
  /\ \A j \in Calls : RequestShape(asked[j]) /\ (asked[j].kind = "idle" => asked[j] = NoCall)

ActionKinds == {"detach", "remove", "issue", "attach", "undo", "restore", "create", "update"} \cup CardKinds
Beside(r) == r.kind \in {"idle", "trash"}

\* A request after which the list is asked for, the cards are: nothing that it has
\* changed stays unasked.
AsksList(r) ==
  \/ r.kind \in {"list", "photo"}
  \/ r.kind = "cards" /\ r.then = "list"
  \/ r.kind \in ActionKinds /\ r.step = "answered"
AsksCards(r) == AsksList(r) \/ r.kind = "cards"

StoredCards == {r \in CardRows : r.owner = shown.selected}
AnswerCurrent(r) ==
  r.step = "answered" => (r.kind = "list" => r.answer = Rows) /\ (r.kind = "cards" => r.answer = CardRows)
ForSelected(r) ==
  r.kind = "cards" /\ r.then # "list" => shown.selected \in {Nothing, r.of}
RequestCurrent(r) == AnswerCurrent(r) /\ ForSelected(r)

OneChain == \A i, j \in Calls : ~Beside(asked[i]) /\ ~Beside(asked[j]) => i = j
ListComes == shown.list = Rows \/ \E j \in Calls : AsksList(asked[j])
CardsCome ==
  \/ shown.selected = Nothing
  \/ shown.cards = StoredCards
  \/ \E j \in Calls : AsksCards(asked[j])

ShownInv ==
  orderly => OneChain /\ ListComes /\ CardsCome /\ \A j \in Calls : RequestCurrent(asked[j])

\* What a request is made of, one field at a time.
LEMMA FieldShape ==
  ASSUME NEW r, RequestShape(r), NEW x
  PROVE  /\ RequestShape([r EXCEPT !.kind = x]) /\ RequestShape([r EXCEPT !.of = x])
         /\ RequestShape([r EXCEPT !.card = x]) /\ RequestShape([r EXCEPT !.put = x])
         /\ RequestShape([r EXCEPT !.photo = x]) /\ RequestShape([r EXCEPT !.then = x])
         /\ RequestShape([r EXCEPT !.step = x]) /\ RequestShape([r EXCEPT !.answer = x])
BY SMT DEF RequestShape

LEMMA IdleShape == RequestShape(NoCall) /\ NoCall.kind = "idle"
BY DEF NoCall, RequestShape

LEMMA OfShape ==
  ASSUME NEW k, NEW id
  PROVE  /\ RequestShape(About(k, id))
         /\ About(k, id).kind = k /\ About(k, id).of = id /\ About(k, id).then = "nothing"
         /\ About(k, id).photo = FALSE
<1> DEFINE s == [NoCall EXCEPT !.kind = k]
<1>1. RequestShape(s)
  BY IdleShape, FieldShape
<1>2. s.kind = k /\ s.then = "nothing" /\ s.photo = FALSE
  BY DEF NoCall
<1>3. About(k, id) = [s EXCEPT !.of = id]
  BY DEF About
<1> HIDE DEF s
<1>4. RequestShape([s EXCEPT !.of = id])
  BY <1>1, FieldShape
<1>5. LET t == [s EXCEPT !.of = id] IN t.kind = k /\ t.of = id /\ t.then = "nothing" /\ t.photo = FALSE
  BY <1>1, <1>2 DEF RequestShape
<1> QED
  BY <1>3, <1>4, <1>5

LEMMA RequestIs ==
  ASSUME NEW r, RequestShape(r)
  PROVE  /\ RequestShape(Sending(r))
         /\ Sending(r).kind = r.kind /\ Sending(r).of = r.of /\ Sending(r).then = r.then
         /\ Sending(r).step = "sent"
<1> DEFINE s == [r EXCEPT !.step = "sent"]
<1>1. RequestShape(s)
  BY FieldShape
<1>2. s.kind = r.kind /\ s.of = r.of /\ s.then = r.then /\ s.step = "sent"
  BY DEF RequestShape
<1>3. Sending(r) = [s EXCEPT !.answer = Nothing]
  BY DEF Sending
<1> HIDE DEF s
<1>4. RequestShape([s EXCEPT !.answer = Nothing])
  BY <1>1, FieldShape
<1>5. LET t == [s EXCEPT !.answer = Nothing] IN
        t.kind = s.kind /\ t.of = s.of /\ t.then = s.then /\ t.step = s.step
  BY <1>1 DEF RequestShape
<1> QED
  BY <1>2, <1>3, <1>4, <1>5

LEMMA ThenIs ==
  ASSUME Shape, NEW j \in Calls, NEW r, RequestShape(r), Then(j, r)
  PROVE  /\ asked' = [asked EXCEPT ![j] = IF r = NoCall THEN NoCall ELSE Sending(r)]
         /\ r.kind # "idle" =>
              /\ asked' = [asked EXCEPT ![j] = Sending(r)]
BY IdleShape DEF Then

LEMMA Changes ==
  ASSUME Shape, NEW j \in Calls, NEW r, asked' = [asked EXCEPT ![j] = r]
  PROVE  /\ asked' = [i \in Calls |-> asked'[i]]
         /\ asked'[j] = r /\ \A i \in Calls : i # j => asked'[i] = asked[i]
BY DEF Shape

\* One request goes on. Its chain is the only one, so what it changes nobody else was
\* told, and what it leaves behind it asks for itself.
LEMMA Moves ==
  ASSUME Shape, ShownInv, orderly' => orderly, PageShape(shown'),
         NEW j \in Calls, NEW r, asked' = [asked EXCEPT ![j] = r],
         RequestShape(r), r.kind = "idle" => r = NoCall,
         orderly' =>
           /\ Beside(asked[j]) =>
                Beside(r) /\ Rows' = Rows /\ CardRows' = CardRows /\ shown'.selected = shown.selected
           /\ \/ shown'.list = Rows' \/ AsksList(r)
              \/ shown'.list = shown.list /\ Rows' = Rows /\ ~AsksList(asked[j])
           /\ \/ shown'.selected = Nothing \/ shown'.cards = StoredCards' \/ AsksCards(r)
              \/ /\ shown'.cards = shown.cards /\ shown'.selected = shown.selected /\ CardRows' = CardRows
                 /\ ~AsksCards(asked[j])
           /\ r.step = "answered" => (r.kind = "list" => r.answer = Rows') /\ (r.kind = "cards" => r.answer = CardRows')
           /\ r.kind = "cards" /\ r.then # "list" => shown'.selected \in {Nothing, r.of}
  PROVE  Shape' /\ ShownInv'
<1>1. /\ asked' = [i \in Calls |-> asked'[i]] /\ asked'[j] = r
      /\ \A i \in Calls : i # j => asked'[i] = asked[i]
  BY Changes
<1>2. Shape'
  BY <1>1 DEF Shape, NoCall, RequestShape, PageShape
<1>3. ASSUME orderly' PROVE OneChain' /\ ListComes' /\ CardsCome' /\ \A i \in Calls : RequestCurrent(asked[i])'
  <2> USE <1>3
  <2>1. OneChain /\ ListComes /\ CardsCome /\ \A i \in Calls : RequestCurrent(asked[i])
    BY DEF ShownInv
  <2>2. OneChain'
    BY <1>1, <2>1 DEF OneChain, Beside
  <2>3. ListComes'
    <3>1. CASE shown'.list = Rows' \/ AsksList(r)
      BY <1>1, <3>1 DEF ListComes, AsksList
    <3>2. CASE shown'.list = shown.list /\ Rows' = Rows /\ ~AsksList(asked[j])
      <4>1. CASE shown.list = Rows
        BY <3>2, <4>1 DEF ListComes
      <4>2. CASE \E i \in Calls : AsksList(asked[i])
        <5>1. PICK i \in Calls : AsksList(asked[i])
          BY <4>2
        <5>2. i # j
          BY <3>2, <5>1
        <5>3. AsksList(asked[i])'
          BY <1>1, <5>1, <5>2 DEF AsksList
        <5> QED
          BY <5>3 DEF ListComes
      <4> QED
        BY <2>1, <4>1, <4>2 DEF ListComes
    <3> QED
      BY <3>1, <3>2
  <2>4. CardsCome'
    <3>1. CASE shown'.selected = Nothing \/ shown'.cards = StoredCards' \/ AsksCards(r)
      BY <1>1, <3>1 DEF CardsCome, AsksCards, AsksList
    <3>2. CASE /\ shown'.cards = shown.cards /\ shown'.selected = shown.selected /\ CardRows' = CardRows
               /\ ~AsksCards(asked[j])
      <4>1. CASE shown.selected = Nothing
        BY <3>2, <4>1 DEF CardsCome
      <4>2. CASE shown.cards = StoredCards
        <5>1. StoredCards' = StoredCards
          BY <3>2 DEF StoredCards
        <5> QED
          BY <3>2, <4>2, <5>1 DEF CardsCome
      <4>3. CASE \E i \in Calls : AsksCards(asked[i])
        <5>1. PICK i \in Calls : AsksCards(asked[i])
          BY <4>3
        <5>2. i # j
          BY <3>2, <5>1
        <5>3. AsksCards(asked[i])'
          BY <1>1, <5>1, <5>2 DEF AsksCards, AsksList
        <5> QED
          BY <5>3 DEF CardsCome
      <4> QED
        BY <2>1, <4>1, <4>2, <4>3 DEF CardsCome
    <3> QED
      BY <3>1, <3>2
  <2>5. ASSUME NEW i \in Calls PROVE RequestCurrent(asked[i])'
    <3>1. CASE i = j
      BY <1>1, <3>1 DEF RequestCurrent, AnswerCurrent, ForSelected
    <3>2. CASE i # j
      <4>1. asked'[i] = asked[i] /\ RequestCurrent(asked[i])
        BY <1>1, <2>1, <3>2
      <4>2. CASE Beside(asked[j])
        BY <4>1, <4>2 DEF RequestCurrent, AnswerCurrent, ForSelected
      <4>3. CASE ~Beside(asked[j])
        <5>1. Beside(asked[i])
          BY <2>1, <3>2, <4>3 DEF OneChain
        <5> QED
          BY <4>1, <5>1 DEF Beside, RequestCurrent, AnswerCurrent, ForSelected
      <4> QED
        BY <4>2, <4>3
    <3> QED
      BY <3>1, <3>2
  <2> QED
    BY <2>2, <2>3, <2>4, <2>5
<1> QED
  BY <1>2, <1>3 DEF ShownInv

\* What the page is made of, one field at a time.
LEMMA FieldOfPage ==
  ASSUME NEW p, PageShape(p), NEW x
  PROVE  /\ PageShape([p EXCEPT !.list = x]) /\ PageShape([p EXCEPT !.selected = x])
         /\ PageShape([p EXCEPT !.cards = x]) /\ PageShape([p EXCEPT !.form = x])
         /\ PageShape([p EXCEPT !.busy = x]) /\ PageShape([p EXCEPT !.saving = x])
         /\ PageShape([p EXCEPT !.undo = x]) /\ PageShape([p EXCEPT !.trashOpen = x])
         /\ PageShape([p EXCEPT !.trash = x])
BY SMT DEF PageShape

LEMMA AtRest ==
  ASSUME ShownInv, orderly, Quiet
  PROVE  shown.list = Rows /\ (shown.selected = Nothing \/ shown.cards = StoredCards)
BY DEF ShownInv, ListComes, CardsCome, Quiet, NoCall, AsksList, AsksCards, ActionKinds, CardKinds

\* What the administrator starts, starts from a page that shows what is stored.
LEMMA Starts ==
  ASSUME Shape, ShownInv, NEW j \in Calls, NEW r, RequestShape(r), r.kind # "idle", Ask(j, r),
         PageShape(shown'), shown'.list = shown.list, shown'.cards = shown.cards,
         \/ r.kind # "cards" /\ shown'.selected = shown.selected
         \/ r.kind = "cards" /\ shown'.selected = r.of
  PROVE  Shape' /\ ShownInv'
<1> DEFINE q == Sending(r)
<1>1. /\ RequestShape(q) /\ q.kind = r.kind /\ q.of = r.of /\ q.step = "sent"
  BY RequestIs
<1>2. /\ asked' = [asked EXCEPT ![j] = q]
      /\ orderly' = (orderly /\ Quiet)
      /\ UNCHANGED <<system, account, card>>
  BY DEF Ask
<1> HIDE DEF q
<1>3. /\ asked' = [i \in Calls |-> asked'[i]] /\ asked'[j] = q
      /\ \A i \in Calls : i # j => asked'[i] = asked[i]
  BY <1>2, Changes
<1>4. Shape'
  BY <1>1, <1>3 DEF Shape, NoCall, RequestShape, PageShape
<1>5. Rows' = Rows /\ CardRows' = CardRows
  BY <1>2 DEF Rows, CardRows, Row, Listed, OwnedBy
<1>6. ASSUME orderly' PROVE OneChain' /\ ListComes' /\ CardsCome' /\ \A i \in Calls : RequestCurrent(asked[i])'
  <2>1. orderly /\ Quiet
    BY <1>2, <1>6
  <2>2. \A i \in Calls : i # j => asked'[i] = NoCall
    BY <1>3, <2>1 DEF Quiet
  <2>3. shown.list = Rows /\ (shown.selected = Nothing \/ shown.cards = StoredCards)
    BY <2>1, AtRest
  <2>4. OneChain'
    BY <1>3, <2>2, IdleShape DEF OneChain, Beside
  <2>5. ListComes'
    BY <1>5, <2>3 DEF ListComes
  <2>6. CardsCome'
    <3>1. CASE r.kind = "cards"
      BY <1>1, <1>3, <3>1 DEF CardsCome, AsksCards
    <3>2. CASE r.kind # "cards"
      BY <1>5, <2>3, <3>2 DEF CardsCome, StoredCards
    <3> QED
      BY <3>1, <3>2
  <2>7. ASSUME NEW i \in Calls PROVE RequestCurrent(asked[i])'
    <3>1. CASE i = j
      BY <1>1, <1>3, <3>1 DEF RequestCurrent, AnswerCurrent, ForSelected
    <3>2. CASE i # j
      BY <2>2, <3>2, IdleShape DEF RequestCurrent, AnswerCurrent, ForSelected
    <3> QED
      BY <3>1, <3>2
  <2> QED
    BY <2>4, <2>5, <2>6, <2>7
<1> QED
  BY <1>4, <1>6 DEF ShownInv

\* The page is unchanged, or one button waits.
LEMMA StartsFrom ==
  ASSUME Shape, ShownInv, NEW j \in Calls, NEW r, RequestShape(r), r.kind \notin {"idle", "cards"},
         Ask(j, r), PageShape(shown'), shown'.list = shown.list, shown'.cards = shown.cards,
         shown'.selected = shown.selected
  PROVE  Shape' /\ ShownInv'
BY Starts

LEMMA ButtonPage ==
  ASSUME PageShape(shown), NEW b,
         \/ shown' = shown \/ shown' = [shown EXCEPT !.busy = b] \/ shown' = [shown EXCEPT !.saving = b]
         \/ shown' = [shown EXCEPT !.trashOpen = b] \/ shown' = [shown EXCEPT !.form = b]
         \/ shown' = [shown EXCEPT !.undo = b] \/ shown' = [shown EXCEPT !.trash = b]
  PROVE  /\ PageShape(shown') /\ shown'.list = shown.list /\ shown'.cards = shown.cards
         /\ shown'.selected = shown.selected
<1>1. PageShape(shown')
  <2>1. /\ PageShape([shown EXCEPT !.busy = b]) /\ PageShape([shown EXCEPT !.saving = b])
        /\ PageShape([shown EXCEPT !.trashOpen = b]) /\ PageShape([shown EXCEPT !.form = b])
        /\ PageShape([shown EXCEPT !.undo = b]) /\ PageShape([shown EXCEPT !.trash = b])
    BY FieldOfPage
  <2> QED
    BY <2>1, Zenon
<1>2. /\ shown'.list = shown.list /\ shown'.cards = shown.cards /\ shown'.selected = shown.selected
  BY DEF PageShape
<1> QED
  BY <1>1, <1>2

LEMMA StartActions ==
  ASSUME Shape, ShownInv, NEW j \in Calls,
         \/ \E id \in Journalists : Select(j, id) \/ Attach(j, id) \/ Restore(j, id)
         \/ Detach(j) \/ DetachFrom(j) \/ RemoveJournalist(j) \/ Undo(j)
         \/ \E c \in Cards : Issue(j, c)
         \/ \E kind \in CardKinds, r \in shown.cards : OnCard(j, kind, r)
         \/ \E v \in Profiles, photo \in BOOLEAN : Submit(j, v, photo)
  PROVE  Shape' /\ ShownInv'
<1>0. PageShape(shown)
  BY DEF Shape
<1>1. ASSUME NEW id \in Journalists, Select(j, id) PROVE Shape' /\ ShownInv'
  <2>1. shown' = [shown EXCEPT !.selected = id] /\ Ask(j, About("cards", id))
    BY <1>1 DEF Select
  <2>2. PageShape(shown')
    BY <1>0, <2>1, FieldOfPage
  <2>3. shown'.list = shown.list /\ shown'.cards = shown.cards /\ shown'.selected = id
    BY <1>0, <2>1 DEF PageShape
  <2> DEFINE r == About("cards", id)
  <2>4. RequestShape(r) /\ r.kind = "cards" /\ r.of = id /\ Ask(j, r)
    BY <2>1, OfShape
  <2> HIDE DEF r
  <2> QED
    BY <2>2, <2>3, <2>4, Starts
<1>2. ASSUME NEW id \in Journalists, Attach(j, id) PROVE Shape' /\ ShownInv'
  <2> DEFINE r == About("attach", id)
  <2>1. RequestShape(r) /\ r.kind = "attach" /\ Ask(j, r) /\ shown' = shown
    BY <1>2, OfShape DEF Attach
  <2> HIDE DEF r
  <2> QED
    BY <1>0, <2>1, ButtonPage, StartsFrom
<1>3. ASSUME NEW id \in Journalists, Restore(j, id) PROVE Shape' /\ ShownInv'
  <2> DEFINE r == About("restore", id)
  <2>1. RequestShape(r) /\ r.kind = "restore" /\ Ask(j, r) /\ shown' = shown
    BY <1>3, OfShape DEF Restore
  <2> HIDE DEF r
  <2> QED
    BY <1>0, <2>1, ButtonPage, StartsFrom
<1>4. ASSUME Detach(j) \/ DetachFrom(j) PROVE Shape' /\ ShownInv'
  <2> DEFINE r == About("detach", shown.selected)
  <2>1. RequestShape(r) /\ r.kind = "detach" /\ Ask(j, r) /\ shown' = [shown EXCEPT !.busy = TRUE]
    BY <1>4, OfShape DEF Detach, DetachFrom
  <2> HIDE DEF r
  <2> QED
    BY <1>0, <2>1, ButtonPage, StartsFrom
<1>5. ASSUME RemoveJournalist(j) PROVE Shape' /\ ShownInv'
  <2> DEFINE r == About("remove", shown.selected)
  <2>1. RequestShape(r) /\ r.kind = "remove" /\ Ask(j, r) /\ shown' = [shown EXCEPT !.busy = TRUE]
    BY <1>5, OfShape DEF RemoveJournalist
  <2> HIDE DEF r
  <2> QED
    BY <1>0, <2>1, ButtonPage, StartsFrom
<1>6. ASSUME Undo(j) PROVE Shape' /\ ShownInv'
  <2> DEFINE q == About("undo", shown.undo)
             t == IF shown.trashOpen THEN "trash" ELSE "nothing"
             r == [q EXCEPT !.then = t]
  <2>1. Ask(j, r) /\ shown' = shown
    BY <1>6 DEF Undo
  <2>2. RequestShape(q) /\ q.kind = "undo"
    BY OfShape
  <2> HIDE DEF q, t
  <2>3. RequestShape(r)
    BY <2>2, FieldShape
  <2>4. r.kind = "undo"
    BY <2>2 DEF RequestShape
  <2> HIDE DEF r
  <2> QED
    BY <1>0, <2>1, <2>3, <2>4, ButtonPage, StartsFrom
<1>7. ASSUME NEW c \in Cards, Issue(j, c) PROVE Shape' /\ ShownInv'
  <2> DEFINE q == About("issue", shown.selected)
             r == [q EXCEPT !.card = c]
  <2>1. Ask(j, r) /\ shown' = [shown EXCEPT !.busy = TRUE]
    BY <1>7 DEF Issue
  <2>2. RequestShape(q) /\ q.kind = "issue"
    BY OfShape
  <2> HIDE DEF q
  <2>3. RequestShape(r)
    BY <2>2, FieldShape
  <2>4. r.kind = "issue"
    BY <2>2 DEF RequestShape
  <2> HIDE DEF r
  <2> QED
    BY <1>0, <2>1, <2>3, <2>4, ButtonPage, StartsFrom
<1>8. ASSUME NEW kind \in CardKinds, NEW x \in shown.cards, OnCard(j, kind, x)
      PROVE  Shape' /\ ShownInv'
  <2> DEFINE q == About(kind, shown.selected)
             r == [q EXCEPT !.card = x.card]
  <2>1. Ask(j, r) /\ shown' = [shown EXCEPT !.busy = TRUE]
    BY <1>8 DEF OnCard
  <2>2. RequestShape(q) /\ q.kind = kind
    BY OfShape
  <2> HIDE DEF q
  <2>3. RequestShape(r)
    BY <2>2, FieldShape
  <2>4. r.kind = kind /\ kind \notin {"idle", "cards"}
    BY <2>2 DEF RequestShape, CardKinds
  <2> HIDE DEF r
  <2> QED
    BY <1>0, <2>1, <2>3, <2>4, ButtonPage, StartsFrom
<1>9. ASSUME NEW v \in Profiles, NEW photo \in BOOLEAN, Submit(j, v, photo)
      PROVE  Shape' /\ ShownInv'
  <2> DEFINE k == IF shown.form.new THEN "create" ELSE "update"
             q == About(k, shown.form.id)
             s == [q EXCEPT !.put = v]
             r == [s EXCEPT !.photo = photo]
  <2>1. Ask(j, r) /\ shown' = [shown EXCEPT !.saving = TRUE]
    BY <1>9 DEF Submit
  <2>2. k \in {"create", "update"}
    OBVIOUS
  <2> HIDE DEF k
  <2>3. RequestShape(q) /\ q.kind = k
    BY OfShape
  <2> HIDE DEF q
  <2>4. RequestShape(s)
    BY <2>3, FieldShape
  <2>5. s.kind = k
    BY <2>3 DEF RequestShape
  <2> HIDE DEF s
  <2>6. RequestShape(r)
    BY <2>4, FieldShape
  <2>7. r.kind = k
    BY <2>4, <2>5 DEF RequestShape
  <2> HIDE DEF r
  <2> QED
    BY <1>0, <2>1, <2>2, <2>6, <2>7, ButtonPage, StartsFrom
<1> QED
  BY <1>1, <1>2, <1>3, <1>4, <1>5, <1>6, <1>7, <1>8, <1>9

\* Windows and banners that are closed or opened touch nothing else.
LEMMA Redrawn ==
  ASSUME Shape, ShownInv, UNCHANGED <<system, account, card, asked, started, orderly>>,
         PageShape(shown'), shown'.list = shown.list, shown'.cards = shown.cards,
         shown'.selected = shown.selected \/ shown'.selected = Nothing
  PROVE  Shape' /\ ShownInv'
<1>3. Rows' = Rows /\ CardRows' = CardRows
  BY DEF Rows, CardRows, Row, Listed, OwnedBy
<1>4. Shape'
  BY DEF Shape, RequestShape, NoCall, PageShape
<1>5. ASSUME orderly' PROVE OneChain' /\ ListComes' /\ CardsCome' /\ \A i \in Calls : RequestCurrent(asked[i])'
  <2>1. OneChain /\ ListComes /\ CardsCome /\ \A i \in Calls : RequestCurrent(asked[i])
    BY <1>5 DEF ShownInv
  <2>2. OneChain'
    BY <2>1 DEF OneChain, Beside
  <2>3. ListComes'
    BY <1>3, <2>1 DEF ListComes, AsksList
  <2>4. CardsCome'
    <3>1. CASE shown'.selected = Nothing
      BY <3>1 DEF CardsCome
    <3>2. CASE shown'.selected = shown.selected
      <4>1. StoredCards' = StoredCards
        BY <1>3, <3>2 DEF StoredCards
      <4> QED
        BY <2>1, <3>2, <4>1 DEF CardsCome, AsksCards, AsksList
    <3> QED
      BY <3>1, <3>2
  <2>5. \A i \in Calls : RequestCurrent(asked[i])'
    BY <1>3, <2>1 DEF RequestCurrent, AnswerCurrent, ForSelected
  <2> QED
    BY <2>2, <2>3, <2>4, <2>5
<1> QED
  BY <1>4, <1>5 DEF ShownInv

LEMMA WindowActions ==
  ASSUME Shape, ShownInv, CloseDetail \/ OpenEdit \/ CloseForm \/ DismissUndo
                            \/ \E id \in Journalists : OpenCreate(id)
  PROVE  Shape' /\ ShownInv'
<1>0. PageShape(shown)
  BY DEF Shape
<1>1. UNCHANGED <<system, account, card, asked, started, orderly>>
  BY DEF CloseDetail, OpenEdit, CloseForm, DismissUndo, OpenCreate, Shows
<1>2. /\ PageShape(shown')
      /\ shown'.list = shown.list /\ shown'.cards = shown.cards
      /\ shown'.selected = shown.selected \/ shown'.selected = Nothing
  <2>1. CASE CloseDetail
    <3>1. shown' = [shown EXCEPT !.selected = Nothing]
      BY <2>1 DEF CloseDetail, Shows
    <3>2. PageShape(shown')
      BY <1>0, <3>1, FieldOfPage
    <3>3. shown'.list = shown.list /\ shown'.cards = shown.cards /\ shown'.selected = Nothing
      BY <1>0, <3>1 DEF PageShape
    <3> QED
      BY <3>2, <3>3
  <2>2. CASE OpenEdit
    BY <1>0, <2>2, ButtonPage DEF OpenEdit, Shows
  <2>3. CASE CloseForm
    BY <1>0, <2>3, ButtonPage DEF CloseForm, Shows
  <2>4. CASE DismissUndo
    BY <1>0, <2>4, ButtonPage DEF DismissUndo, Shows
  <2>5. CASE \E id \in Journalists : OpenCreate(id)
    BY <1>0, <2>5, ButtonPage DEF OpenCreate, Shows
  <2> QED
    BY <2>1, <2>2, <2>3, <2>4, <2>5
<1> QED
  BY <1>1, <1>2, Redrawn

LEMMA ToggleTrashAction ==
  ASSUME Shape, ShownInv, NEW j \in Calls, ToggleTrash(j)
  PROVE  Shape' /\ ShownInv'
<1>1. CASE shown.trashOpen
  <2>1. shown' = [shown EXCEPT !.trashOpen = FALSE] /\ UNCHANGED <<system, account, card, asked, started, orderly>>
    BY <1>1 DEF ToggleTrash, Shows
  <2>2. PageShape(shown)
    BY DEF Shape
  <2> QED
    BY <2>1, <2>2, ButtonPage, Redrawn
<1>2. CASE ~shown.trashOpen
  <2> DEFINE r == About("trash", Nothing)
  <2>1. RequestShape(r) /\ r.kind = "trash" /\ Ask(j, r) /\ shown' = [shown EXCEPT !.trashOpen = TRUE]
    BY <1>2, OfShape DEF ToggleTrash
  <2>2. PageShape(shown)
    BY DEF Shape
  <2> HIDE DEF r
  <2> QED
    BY <2>1, <2>2, ButtonPage, StartsFrom
<1> QED
  BY <1>1, <1>2

\* What an answer does to its request.
LEMMA AnswersIs ==
  ASSUME Shape, NEW j \in Calls, NEW a, Answers(j, a)
  PROVE  \E r : /\ asked' = [asked EXCEPT ![j] = r] /\ RequestShape(r)
                /\ r.kind = asked[j].kind /\ r.of = asked[j].of /\ r.then = asked[j].then
                /\ r.step = "answered" /\ r.answer = a
<1> DEFINE s == [asked[j] EXCEPT !.step = "answered"]
           r == [s EXCEPT !.answer = a]
<1>1. RequestShape(asked[j]) /\ asked = [i \in Calls |-> asked[i]]
  BY DEF Shape
<1>2. RequestShape(s)
  BY <1>1, FieldShape
<1>3. s.kind = asked[j].kind /\ s.of = asked[j].of /\ s.then = asked[j].then /\ s.step = "answered"
  BY <1>1 DEF RequestShape
<1>4. asked' = [asked EXCEPT ![j] = r]
  BY <1>1 DEF Answers
<1> HIDE DEF s
<1>5. RequestShape(r)
  BY <1>2, FieldShape
<1>6. r.kind = s.kind /\ r.of = s.of /\ r.then = s.then /\ r.step = s.step /\ r.answer = a
  BY <1>2 DEF RequestShape
<1> HIDE DEF r
<1> QED
  BY <1>3, <1>4, <1>5, <1>6

LEMMA ReadAction ==
  ASSUME Shape, ShownInv, NEW j \in Calls, Read(j)
  PROVE  Shape' /\ ShownInv'
<1> DEFINE a == CASE asked[j].kind = "list" -> Rows
                  [] asked[j].kind = "cards" -> CardRows
                  [] asked[j].kind = "trash" -> {id \in Journalists : Trashed(id)}
                  [] OTHER -> Nothing
<1>1. /\ asked[j].kind \in {"list", "cards", "trash", "check"} /\ asked[j].step = "sent"
      /\ Answers(j, a)
      /\ UNCHANGED <<system, account, card, shown, started, orderly>>
  BY DEF Read, Sent
<1>2. (asked[j].kind = "list" => a = Rows) /\ (asked[j].kind = "cards" => a = CardRows)
  OBVIOUS
<1> HIDE DEF a
<1>3. PICK r : /\ asked' = [asked EXCEPT ![j] = r] /\ RequestShape(r)
               /\ r.kind = asked[j].kind /\ r.of = asked[j].of /\ r.then = asked[j].then
               /\ r.step = "answered" /\ r.answer = a
  BY <1>1, AnswersIs
<1>4. Rows' = Rows /\ CardRows' = CardRows /\ shown' = shown /\ orderly' = orderly
  BY <1>1 DEF Rows, CardRows, Row, Listed, OwnedBy
<1>5. PageShape(shown')
  BY <1>4 DEF Shape, PageShape
<1>6. AsksList(asked[j]) => AsksList(r)
  BY <1>1, <1>3 DEF AsksList
<1>7. AsksCards(asked[j]) => AsksCards(r)
  BY <1>3, <1>6 DEF AsksCards
<1>8. Beside(asked[j]) => Beside(r)
  BY <1>3 DEF Beside
<1>9. orderly' => orderly
  BY <1>4
<1>10. \/ shown'.list = Rows' \/ AsksList(r)
       \/ shown'.list = shown.list /\ Rows' = Rows /\ ~AsksList(asked[j])
  BY <1>4, <1>6
<1>11. \/ shown'.selected = Nothing \/ shown'.cards = StoredCards' \/ AsksCards(r)
       \/ /\ shown'.cards = shown.cards /\ shown'.selected = shown.selected /\ CardRows' = CardRows
          /\ ~AsksCards(asked[j])
  BY <1>4, <1>7
<1>12. (r.kind = "list" => r.answer = Rows') /\ (r.kind = "cards" => r.answer = CardRows')
  BY <1>2, <1>3, <1>4
<1>13. r.kind # "idle"
  BY <1>1, <1>3
<1>14. orderly' => (r.kind = "cards" /\ r.then # "list" => shown'.selected \in {Nothing, r.of})
  BY <1>3, <1>4 DEF ShownInv, RequestCurrent, ForSelected
<1> QED
  BY <1>3, <1>4, <1>5, <1>8, <1>9, <1>10, <1>11, <1>12, <1>13, <1>14, Moves

\* The chain of a change asks for the list, whatever was stored.
LEMMA ChangeActions ==
  ASSUME Shape, ShownInv, NEW j \in Calls, ChangeAccount(j) \/ ChangeCard(j)
  PROVE  Shape' /\ ShownInv'
<1>1. /\ asked[j].kind \in (ActionKinds \ {"check"}) \cup {"photo"} /\ asked[j].step = "sent"
      /\ Answers(j, Nothing) /\ UNCHANGED <<shown, orderly>>
  BY DEF ChangeAccount, ChangeCard, Sent, ActionKinds, CardKinds
<1>2. PICK r : /\ asked' = [asked EXCEPT ![j] = r] /\ RequestShape(r)
               /\ r.kind = asked[j].kind /\ r.of = asked[j].of /\ r.then = asked[j].then
               /\ r.step = "answered" /\ r.answer = Nothing
  BY <1>1, AnswersIs
<1>3. AsksList(r) /\ AsksCards(r) /\ ~Beside(asked[j])
  BY <1>1, <1>2 DEF AsksList, AsksCards, Beside, ActionKinds, CardKinds
<1>4. r.kind \notin {"idle", "list", "cards"}
  BY <1>1, <1>2 DEF ActionKinds, CardKinds
<1>5. PageShape(shown')
  BY <1>1 DEF Shape, PageShape
<1> QED
  BY <1>1, <1>2, <1>3, <1>4, <1>5, Moves

\* The steps at which the server's state stands, and the follow-ups of a request.
LEMMA SameRows ==
  ASSUME UNCHANGED <<system, account, card>>
  PROVE  Rows' = Rows /\ CardRows' = CardRows
BY DEF Rows, CardRows, Row, Listed, OwnedBy

\* What follows an answer is asked for at once.
LEMMA ThenAsks ==
  ASSUME NEW j \in Calls, NEW r, RequestShape(r), r.kind # "idle", Then(j, r)
  PROVE  \E q : /\ asked' = [asked EXCEPT ![j] = q] /\ RequestShape(q)
                /\ q.kind = r.kind /\ q.of = r.of /\ q.then = r.then /\ q.step = "sent"
<1>1. r # NoCall
  BY IdleShape
<1>2. asked' = [asked EXCEPT ![j] = Sending(r)]
  BY <1>1 DEF Then
<1> QED
  BY <1>2, RequestIs

\* A request that was answered, or is refused, that asks for the list now.
LEMMA GoesOnToList ==
  ASSUME Shape, ShownInv, NEW j \in Calls, NEW r, Goes, asked' = [asked EXCEPT ![j] = r],
         RequestShape(r), r.kind \notin {"idle"}, r.step = "sent", AsksList(r), PageShape(shown'),
         ~Beside(asked[j])
  PROVE  Shape' /\ ShownInv'
<1>1. orderly' = orderly
  BY DEF Goes
<1>2. AsksCards(r)
  BY DEF AsksCards
<1>3. ~(r.kind = "cards" /\ r.then # "list")
  BY DEF AsksList, ActionKinds, CardKinds
<1> QED
  BY <1>1, <1>2, <1>3, Moves

LEMMA Follows ==
  ASSUME Shape, ShownInv, NEW j \in Calls,
         AttachAnswered(j) \/ UndoAnswered(j) \/ ActionAnswered(j) \/ FormAnswered(j)
  PROVE  Shape' /\ ShownInv'
<1>0. PageShape(shown) /\ Goes
  BY DEF Shape, AttachAnswered, UndoAnswered, ActionAnswered, FormAnswered
<1>1. \E r : /\ RequestShape(r) /\ Then(j, r)
             /\ r.kind \in {"list", "photo"} \/ (r.kind = "cards" /\ r.then = "list")
  <2>1. CASE AttachAnswered(j)
    <3> DEFINE r == About("list", Nothing)
    <3>1. RequestShape(r) /\ r.kind = "list"
      BY OfShape
    <3>2. Then(j, r)
      BY <2>1 DEF AttachAnswered
    <3> HIDE DEF r
    <3> QED
      BY <3>1, <3>2
  <2>2. CASE UndoAnswered(j)
    <3> DEFINE t == asked[j].then
               q == About("list", Nothing)
               r == [q EXCEPT !.then = t]
    <3>1. Then(j, r)
      BY <2>2 DEF UndoAnswered
    <3> HIDE DEF t
    <3>2. RequestShape(r) /\ r.kind = "list"
      <4>1. RequestShape(q) /\ q.kind = "list"
        BY OfShape
      <4> HIDE DEF q
      <4>2. RequestShape(r)
        BY <4>1, FieldShape
      <4>3. r.kind = "list"
        BY <4>1 DEF RequestShape
      <4> QED
        BY <4>2, <4>3
    <3> HIDE DEF r
    <3> QED
      BY <3>1, <3>2
  <2>3. CASE ActionAnswered(j)
    <3> DEFINE q == About("cards", asked[j].of)
               r == [q EXCEPT !.then = "list"]
    <3>1. Then(j, r)
      BY <2>3 DEF ActionAnswered
    <3>2. RequestShape(r) /\ r.kind = "cards" /\ r.then = "list"
      <4>1. RequestShape(q) /\ q.kind = "cards"
        BY OfShape
      <4> HIDE DEF q
      <4>2. RequestShape(r)
        BY <4>1, FieldShape
      <4>3. r.kind = "cards" /\ r.then = "list"
        BY <4>1 DEF RequestShape
      <4> QED
        BY <4>2, <4>3
    <3> HIDE DEF r
    <3> QED
      BY <3>1, <3>2
  <2>4. CASE FormAnswered(j) /\ asked[j].photo
    <3> DEFINE r == About("photo", asked[j].of)
    <3>1. RequestShape(r) /\ r.kind = "photo"
      BY OfShape
    <3>2. Then(j, r)
      BY <2>4 DEF FormAnswered
    <3> HIDE DEF r
    <3> QED
      BY <3>1, <3>2
  <2>5. CASE FormAnswered(j) /\ ~asked[j].photo
    <3> DEFINE r == About("list", Nothing)
    <3>1. RequestShape(r) /\ r.kind = "list"
      BY OfShape
    <3>2. Then(j, r)
      BY <2>5 DEF FormAnswered
    <3> HIDE DEF r
    <3> QED
      BY <3>1, <3>2
  <2> QED
    BY <2>1, <2>2, <2>3, <2>4, <2>5
<1>2. PageShape(shown')
  <2>1. CASE AttachAnswered(j)
    BY <1>0, <2>1 DEF AttachAnswered, PageShape
  <2>2. CASE UndoAnswered(j)
    BY <1>0, <2>2, ButtonPage DEF UndoAnswered
  <2>3. CASE ActionAnswered(j)
    <3> DEFINE s == [shown EXCEPT !.undo = asked[j].of]
    <3>1. shown' = [s EXCEPT !.selected = Nothing] \/ shown' = shown
      BY <2>3 DEF ActionAnswered
    <3>2. PageShape(s)
      BY <1>0, FieldOfPage
    <3> HIDE DEF s
    <3>3. PageShape([s EXCEPT !.selected = Nothing])
      BY <3>2, FieldOfPage
    <3> QED
      BY <1>0, <3>1, <3>3, Zenon
  <2>4. CASE FormAnswered(j)
    <3> DEFINE s == [shown EXCEPT !.form = NoForm]
    <3>1. shown' = [s EXCEPT !.saving = FALSE] \/ shown' = shown
      BY <2>4 DEF FormAnswered
    <3>2. PageShape(s)
      BY <1>0, FieldOfPage
    <3> HIDE DEF s
    <3>3. PageShape([s EXCEPT !.saving = FALSE])
      BY <3>2, FieldOfPage
    <3> QED
      BY <1>0, <3>1, <3>3, Zenon
  <2> QED
    BY <2>1, <2>2, <2>3, <2>4
<1>3. ~Beside(asked[j])
  BY DEF AttachAnswered, UndoAnswered, ActionAnswered, FormAnswered, AnswerTo, CardKinds, Beside
<1>4. PICK r : /\ RequestShape(r) /\ Then(j, r)
               /\ r.kind \in {"list", "photo"} \/ (r.kind = "cards" /\ r.then = "list")
  BY <1>1
<1>5. PICK q : /\ asked' = [asked EXCEPT ![j] = q] /\ RequestShape(q)
               /\ q.kind = r.kind /\ q.of = r.of /\ q.then = r.then /\ q.step = "sent"
  BY <1>4, ThenAsks
<1>6. AsksList(q)
  BY <1>4, <1>5 DEF AsksList
<1> QED
  BY <1>0, <1>2, <1>3, <1>4, <1>5, <1>6, GoesOnToList

\* The list keeps who is open, and asks for the cards; the trash beside it.
LEMMA ListAnswer ==
  ASSUME Shape, ShownInv, NEW j \in Calls, ListAnswered(j)
  PROVE  Shape' /\ ShownInv'
<1> DEFINE kept == IF shown.selected \in DOMAIN asked[j].answer THEN shown.selected ELSE Nothing
           s == [shown EXCEPT !.list = asked[j].answer]
           c == About("cards", kept)
           t == About("trash", Nothing)
<1>1. /\ asked[j].kind = "list" /\ asked[j].step = "answered"
      /\ shown' = [s EXCEPT !.selected = kept]
      /\ UNCHANGED <<system, account, card, started, orderly>>
  BY DEF ListAnswered, AnswerTo, Goes
<1>2. PageShape(shown) /\ asked = [i \in Calls |-> asked[i]]
  BY DEF Shape
<1>3. PageShape(s) /\ s.list = asked[j].answer
  <2>1. PageShape(s)
    BY <1>2, FieldOfPage
  <2>2. s.list = asked[j].answer
    BY <1>2 DEF PageShape
  <2> QED
    BY <2>1, <2>2
<1>4. /\ RequestShape(c) /\ c.kind = "cards" /\ c.of = kept
      /\ RequestShape(t) /\ t.kind = "trash"
  <2> HIDE DEF kept
  <2>1. RequestShape(c) /\ c.kind = "cards" /\ c.of = kept
    BY OfShape
  <2>2. RequestShape(t) /\ t.kind = "trash"
    BY OfShape
  <2> QED
    BY <2>1, <2>2
<1>5. \/ \E i \in Calls \ {j} : /\ asked[i] = NoCall
                                /\ asked' = [asked EXCEPT ![j] = Sending(t), ![i] = Sending(c)]
      \/ kept # Nothing /\ Then(j, c)
      \/ kept = Nothing /\ Then(j, t)
      \/ kept = Nothing /\ Then(j, NoCall)
  <2>1. CASE kept # Nothing /\ asked[j].then = "trash"
    BY <2>1 DEF ListAnswered
  <2>2. CASE kept # Nothing /\ asked[j].then # "trash"
    BY <2>2 DEF ListAnswered
  <2>3. CASE kept = Nothing /\ asked[j].then = "trash"
    BY <2>3 DEF ListAnswered
  <2>4. CASE kept = Nothing /\ asked[j].then # "trash"
    BY <2>4 DEF ListAnswered
  <2> QED
    BY <2>1, <2>2, <2>3, <2>4
<1> HIDE DEF kept, s, c, t
<1>6. PageShape(shown')
  BY <1>1, <1>3, FieldOfPage
<1>7. shown'.list = asked[j].answer /\ shown'.selected = kept
  BY <1>1, <1>3 DEF PageShape
<1>8. Rows' = Rows /\ CardRows' = CardRows /\ orderly' = orderly
  BY <1>1, SameRows
<1>9. orderly' => shown'.list = Rows'
  BY <1>1, <1>7, <1>8 DEF ShownInv, RequestCurrent, AnswerCurrent
<1>10. ~Beside(asked[j])
  BY <1>1 DEF Beside
<1>11. CASE kept # Nothing /\ Then(j, c)
  <2>1. PICK q : /\ asked' = [asked EXCEPT ![j] = q] /\ RequestShape(q)
                 /\ q.kind = "cards" /\ q.of = kept /\ q.step = "sent"
    BY <1>4, <1>11, ThenAsks
  <2>2. AsksCards(q)
    BY <2>1 DEF AsksCards
  <2> QED
    BY <1>6, <1>7, <1>8, <1>9, <1>10, <2>1, <2>2, Moves
<1>12. CASE kept = Nothing /\ Then(j, t)
  <2>1. PICK q : /\ asked' = [asked EXCEPT ![j] = q] /\ RequestShape(q)
                 /\ q.kind = "trash" /\ q.step = "sent"
    BY <1>4, <1>12, ThenAsks
  <2> QED
    BY <1>6, <1>7, <1>8, <1>9, <1>10, <1>12, <2>1, Moves
<1>13. CASE kept = Nothing /\ Then(j, NoCall)
  <2>1. asked' = [asked EXCEPT ![j] = NoCall]
    BY <1>13 DEF Then
  <2>2. NoCall.step = "none"
    BY DEF NoCall
  <2> QED
    BY <1>6, <1>7, <1>8, <1>9, <1>10, <1>13, <2>1, <2>2, IdleShape, Moves
<1>14. ASSUME NEW i \in Calls \ {j}, asked[i] = NoCall,
              asked' = [asked EXCEPT ![j] = Sending(t), ![i] = Sending(c)]
       PROVE  Shape' /\ ShownInv'
  <2> DEFINE tr == Sending(t)
             cr == Sending(c)
  <2>1. RequestShape(tr) /\ tr.kind = "trash" /\ tr.step = "sent"
    BY <1>4, RequestIs
  <2>2. RequestShape(cr) /\ cr.kind = "cards" /\ cr.of = kept /\ cr.step = "sent"
    BY <1>4, RequestIs
  <2> HIDE DEF tr, cr
  <2>3. /\ asked' = [k \in Calls |-> asked'[k]] /\ asked'[j] = tr /\ asked'[i] = cr
        /\ \A k \in Calls \ {i, j} : asked'[k] = asked[k]
    BY <1>2, <1>14 DEF tr, cr
  <2>4. Shape'
    BY <1>6, <2>1, <2>2, <2>3 DEF Shape, NoCall, RequestShape, PageShape
  <2>5. ASSUME orderly' PROVE OneChain' /\ ListComes' /\ CardsCome' /\ \A k \in Calls : RequestCurrent(asked[k])'
    <3>1. OneChain /\ \A k \in Calls : RequestCurrent(asked[k])
      BY <1>8, <2>5 DEF ShownInv
    <3>2. \A k \in Calls \ {i, j} : Beside(asked'[k])
      BY <1>10, <2>3, <3>1 DEF OneChain
    <3>3. OneChain'
      BY <2>1, <2>3, <3>2 DEF OneChain, Beside
    <3>4. ListComes'
      BY <1>9, <2>5 DEF ListComes
    <3>5. CardsCome'
      BY <2>2, <2>3 DEF CardsCome, AsksCards
    <3>6. \A k \in Calls : RequestCurrent(asked[k])'
      <4>1. ASSUME NEW k \in Calls \ {i, j} PROVE RequestCurrent(asked[k])'
        BY <3>2, <4>1 DEF Beside, RequestCurrent, AnswerCurrent, ForSelected
      <4>2. RequestCurrent(asked[i])' /\ RequestCurrent(asked[j])'
        BY <1>7, <2>1, <2>2, <2>3 DEF RequestCurrent, AnswerCurrent, ForSelected
      <4> QED
        BY <4>1, <4>2
    <3> QED
      BY <3>3, <3>4, <3>5, <3>6
  <2> QED
    BY <2>4, <2>5 DEF ShownInv
<1> QED
  BY <1>5, <1>11, <1>12, <1>13, <1>14

LEMMA RestoreAnswer ==
  ASSUME Shape, ShownInv, NEW j \in Calls, NEW i \in Calls, RestoreAnswered(j, i)
  PROVE  Shape' /\ ShownInv'
<1> DEFINE l == About("list", Nothing)
           t == About("trash", Nothing)
<1>1. /\ asked[j].kind = "restore" /\ asked[i] = NoCall /\ shown' = shown
      /\ asked' = [asked EXCEPT ![j] = Sending(l), ![i] = Sending(t)]
      /\ UNCHANGED <<system, account, card, started, orderly>>
  BY DEF RestoreAnswered, AnswerTo, Goes
<1>2. PageShape(shown) /\ asked = [k \in Calls |-> asked[k]] /\ i # j
  BY <1>1, IdleShape DEF Shape
<1>3. RequestShape(l) /\ l.kind = "list"
  BY OfShape
<1>4. RequestShape(t) /\ t.kind = "trash"
  BY OfShape
<1> HIDE DEF l, t
<1> DEFINE lr == Sending(l)
           tr == Sending(t)
<1>5. RequestShape(lr) /\ lr.kind = "list" /\ lr.step = "sent"
  BY <1>3, RequestIs
<1>6. RequestShape(tr) /\ tr.kind = "trash" /\ tr.step = "sent"
  BY <1>4, RequestIs
<1> HIDE DEF lr, tr
<1>7. /\ asked' = [k \in Calls |-> asked'[k]] /\ asked'[j] = lr /\ asked'[i] = tr
      /\ \A k \in Calls \ {i, j} : asked'[k] = asked[k]
  BY <1>1, <1>2 DEF lr, tr
<1>8. Shape'
  BY <1>1, <1>2, <1>5, <1>6, <1>7 DEF Shape, NoCall, RequestShape, PageShape
<1>9. ASSUME orderly' PROVE OneChain' /\ ListComes' /\ CardsCome' /\ \A k \in Calls : RequestCurrent(asked[k])'
  <2>1. OneChain
    BY <1>1, <1>9 DEF ShownInv
  <2>2. \A k \in Calls \ {i, j} : Beside(asked'[k])
    BY <1>1, <1>7, <2>1 DEF OneChain, Beside
  <2>3. OneChain'
    BY <1>6, <1>7, <2>2 DEF OneChain, Beside
  <2>4. ListComes' /\ CardsCome'
    BY <1>5, <1>7 DEF ListComes, CardsCome, AsksCards, AsksList
  <2>5. ASSUME NEW k \in Calls PROVE RequestCurrent(asked[k])'
    BY <1>5, <1>6, <1>7, <2>2 DEF Beside, RequestCurrent, AnswerCurrent, ForSelected
  <2> QED
    BY <2>3, <2>4, <2>5
<1> QED
  BY <1>8, <1>9 DEF ShownInv

\* Whoever is open by now has the cards shown: in one chain, the journalist they are of.
LEMMA CardsAnswer ==
  ASSUME Shape, ShownInv, NEW j \in Calls, NEW cards, asked[j].kind = "cards", CardsShown(j, cards),
         Rows' = Rows, CardRows' = CardRows, orderly' => orderly,
         orderly' => cards = {r \in CardRows : r.owner = asked[j].of}
  PROVE  Shape' /\ ShownInv'
<1> DEFINE s == [shown EXCEPT !.cards = cards]
           b == IF asked[j].then = "list" THEN FALSE ELSE shown.busy
           l == About("list", Nothing)
<1>1. PageShape(shown)
  BY DEF Shape
<1>2. PageShape(s) /\ s.list = shown.list /\ s.cards = cards /\ s.selected = shown.selected /\ s.busy = shown.busy
  <2>1. PageShape(s)
    BY <1>1, FieldOfPage
  <2>2. s.list = shown.list /\ s.cards = cards /\ s.selected = shown.selected /\ s.busy = shown.busy
    BY <1>1 DEF PageShape
  <2> QED
    BY <2>1, <2>2
<1>3. shown' = [s EXCEPT !.busy = b]
  <2>1. shown' = [s EXCEPT !.busy = IF asked[j].then = "list" THEN FALSE ELSE s.busy]
    BY DEF CardsShown
  <2> QED
    BY <1>2, <2>1
<1>4. \/ asked[j].then = "list" /\ Then(j, l)
      \/ asked[j].then # "list" /\ Then(j, NoCall)
  <2>1. CASE asked[j].then = "list"
    BY <2>1 DEF CardsShown
  <2>2. CASE asked[j].then # "list"
    BY <2>2 DEF CardsShown
  <2> QED
    BY <2>1, <2>2
<1> HIDE DEF s, b
<1>5. PageShape(shown')
  BY <1>2, <1>3, FieldOfPage
<1>6. shown'.list = shown.list /\ shown'.cards = cards /\ shown'.selected = shown.selected
  BY <1>2, <1>3 DEF PageShape
<1>7. ~Beside(asked[j])
  BY DEF Beside
<1>8. CASE asked[j].then = "list" /\ Then(j, l)
  <2>1. RequestShape(l) /\ l.kind = "list"
    BY OfShape
  <2> HIDE DEF l
  <2>2. PICK q : asked' = [asked EXCEPT ![j] = q] /\ RequestShape(q) /\ q.kind = "list" /\ q.step = "sent"
    BY <1>8, <2>1, ThenAsks
  <2>3. AsksList(q) /\ AsksCards(q)
    BY <2>2 DEF AsksList, AsksCards
  <2> QED
    BY <1>5, <1>7, <2>2, <2>3, Moves
<1>9. CASE asked[j].then # "list" /\ Then(j, NoCall)
  <2>1. asked' = [asked EXCEPT ![j] = NoCall]
    BY <1>9 DEF Then
  <2>2. NoCall.step = "none"
    BY DEF NoCall
  <2>3. ~AsksList(asked[j])
    BY <1>9 DEF AsksList, ActionKinds, CardKinds
  <2>4. ASSUME orderly' PROVE shown'.selected = Nothing \/ shown'.cards = StoredCards'
    <3>1. shown.selected \in {Nothing, asked[j].of}
      BY <1>9, <2>4 DEF ShownInv, RequestCurrent, ForSelected
    <3>2. CASE shown.selected = asked[j].of
      BY <1>6, <2>4, <3>2 DEF StoredCards
    <3> QED
      BY <1>6, <3>1, <3>2
  <2> QED
    BY <1>5, <1>6, <1>7, <2>1, <2>2, <2>3, <2>4, IdleShape, Moves
<1> QED
  BY <1>4, <1>8, <1>9

LEMMA CardsAnsweredAction ==
  ASSUME Shape, ShownInv, NEW j \in Calls, CardsAnswered(j)
  PROVE  Shape' /\ ShownInv'
<1> DEFINE cards == {r \in asked[j].answer : r.owner = asked[j].of}
<1>1. /\ asked[j].kind = "cards" /\ asked[j].step = "answered" /\ CardsShown(j, cards)
      /\ UNCHANGED <<system, account, card, started, orderly>>
  BY DEF CardsAnswered, AnswerTo, Goes
<1>2. orderly' => cards = {r \in CardRows : r.owner = asked[j].of}
  BY <1>1 DEF ShownInv, RequestCurrent, AnswerCurrent
<1> HIDE DEF cards
<1>3. Rows' = Rows /\ CardRows' = CardRows
  BY <1>1, SameRows
<1> QED
  BY <1>1, <1>2, <1>3, CardsAnswer

LEMMA TrashAnsweredAction ==
  ASSUME Shape, ShownInv, NEW j \in Calls, TrashAnswered(j)
  PROVE  Shape' /\ ShownInv'
<1>1. /\ asked[j].kind = "trash" /\ shown' = [shown EXCEPT !.trash = asked[j].answer]
      /\ asked' = [asked EXCEPT ![j] = NoCall]
      /\ UNCHANGED <<system, account, card, started, orderly>>
  BY DEF TrashAnswered, AnswerTo, Goes, Then
<1>2. PageShape(shown)
  BY DEF Shape
<1>3. /\ PageShape(shown') /\ shown'.list = shown.list /\ shown'.cards = shown.cards
      /\ shown'.selected = shown.selected
  BY <1>1, <1>2, ButtonPage
<1>4. Rows' = Rows /\ CardRows' = CardRows
  BY <1>1, SameRows
<1>5. ~AsksList(asked[j]) /\ ~AsksCards(asked[j]) /\ Beside(NoCall) /\ NoCall.step = "none"
  BY <1>1 DEF AsksList, AsksCards, ActionKinds, CardKinds, Beside, NoCall
<1> QED
  BY <1>1, <1>3, <1>4, <1>5, IdleShape, Moves

\* A refusal of what had no effect yet leaves the page as right as it was; any other
\* loss is not orderly.
LEMMA FailAction ==
  ASSUME Shape, ShownInv, NEW j \in Calls, Fail(j)
  PROVE  Shape' /\ ShownInv'
<1>1. /\ orderly' = (orderly /\ asked[j].step = "sent" /\ asked[j].kind \notin {"list", "cards", "photo"})
      /\ UNCHANGED <<system, account, card, started>>
  BY DEF Fail
<1>2. Rows' = Rows /\ CardRows' = CardRows
  BY <1>1, SameRows
<1>3. CASE asked[j].kind = "cards"
  <2>1. CardsShown(j, {}) /\ ~orderly'
    BY <1>1, <1>3 DEF Fail
  <2> QED
    BY <1>2, <1>3, <2>1, CardsAnswer
<1>4. CASE asked[j].kind # "cards"
  <2> DEFINE k == asked[j].kind
             b == IF k \in {"detach", "remove", "issue"} \cup CardKinds THEN FALSE ELSE shown.busy
             s == [shown EXCEPT !.busy = b]
             v == IF k \in {"create", "update", "photo"} THEN FALSE ELSE shown.saving
  <2>1. PageShape(shown)
    BY DEF Shape
  <2>2. asked' = [asked EXCEPT ![j] = NoCall] /\ shown' = [s EXCEPT !.saving = IF k \in {"create", "update", "photo"} THEN FALSE ELSE s.saving]
    BY <1>4 DEF Fail, Then
  <2> HIDE DEF b
  <2>3. PageShape(s) /\ s.list = shown.list /\ s.cards = shown.cards /\ s.selected = shown.selected
    <3>1. PageShape(s)
      BY <2>1, FieldOfPage
    <3>2. s.list = shown.list /\ s.cards = shown.cards /\ s.selected = shown.selected
      BY <2>1 DEF PageShape
    <3> QED
      BY <3>1, <3>2
  <2> HIDE DEF s
  <2>4. PICK x : shown' = [s EXCEPT !.saving = x]
    BY <2>2
  <2>5. PageShape(shown')
    BY <2>3, <2>4, FieldOfPage
  <2>6. shown'.list = shown.list /\ shown'.cards = shown.cards /\ shown'.selected = shown.selected
    BY <2>3, <2>4 DEF PageShape
  <2>7. orderly' => ~AsksList(asked[j]) /\ ~AsksCards(asked[j])
    BY <1>1 DEF AsksList, AsksCards
  <2>8. Beside(NoCall) /\ NoCall.step = "none"
    BY DEF Beside, NoCall
  <2> QED
    BY <1>1, <1>2, <2>2, <2>5, <2>6, <2>7, <2>8, IdleShape, Moves
<1> QED
  BY <1>3, <1>4

LEMMA ShownInit == PageInit => Shape /\ ShownInv
<1> SUFFICES ASSUME PageInit PROVE Shape /\ ShownInv
  OBVIOUS
<1>1. PICK j \in Calls : asked = [i \in Calls |-> IF i = j THEN [NoCall EXCEPT !.kind = "list", !.step = "sent"] ELSE NoCall]
  BY DEF PageInit
<1> DEFINE s == [NoCall EXCEPT !.kind = "list"]
           r == [s EXCEPT !.step = "sent"]
<1>2. RequestShape(s) /\ s.kind = "list"
  <2>1. RequestShape(s)
    BY IdleShape, FieldShape
  <2>2. s.kind = "list"
    BY DEF NoCall
  <2> QED
    BY <2>1, <2>2
<1>3. asked = [i \in Calls |-> IF i = j THEN r ELSE NoCall]
  BY <1>1
<1> HIDE DEF s
<1>4. RequestShape(r)
  BY <1>2, FieldShape
<1>5. r.kind = "list" /\ r.step = "sent"
  BY <1>2 DEF RequestShape
<1> HIDE DEF r
<1>6. asked = [i \in Calls |-> asked[i]] /\ asked[j] = r /\ \A i \in Calls : i # j => asked[i] = NoCall
  BY <1>3
<1>7. PageShape(shown) /\ shown.selected = Nothing
  BY DEF PageInit, PageShape
<1>8. Shape
  BY <1>4, <1>5, <1>6, <1>7, IdleShape DEF Shape
<1>9. ShownInv
  BY <1>5, <1>6, <1>7, IdleShape DEF ShownInv, OneChain, ListComes, CardsCome, AsksList, Beside,
     RequestCurrent, AnswerCurrent, ForSelected
<1> QED
  BY <1>8, <1>9

LEMMA ShownNext == Shape /\ ShownInv /\ [PageNext]_pageVars => Shape' /\ ShownInv'
<1> SUFFICES ASSUME Shape, ShownInv, [PageNext]_pageVars PROVE Shape' /\ ShownInv'
  OBVIOUS
<1>1. CASE UNCHANGED pageVars
  BY <1>1, Redrawn DEF pageVars, Shape
<1>2. CASE PageNext
  BY <1>2, StartActions, WindowActions, ToggleTrashAction, ReadAction, ChangeActions, FailAction, ListAnswer,
     CardsAnsweredAction, TrashAnsweredAction, Follows, RestoreAnswer DEF PageNext
<1> QED
  BY <1>1, <1>2

\* When the answers have come, one request at a time and none lost, the page shows the
\* journalists that are stored, and of the one that is open the cards that are stored
\* (AdminJournalistsPage.reload, JournalistDetailModal.action).
THEOREM PageShowsStored == PageSpec => []ShowsStored
<1>1. Shape /\ ShownInv => ShowsStored
  BY AtRest DEF ShowsStored, StoredCards
<1> QED
  BY <1>1, ShownInit, ShownNext, PTL DEF PageSpec
=============================================================================
