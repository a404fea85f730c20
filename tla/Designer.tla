------------------------------ MODULE Designer ------------------------------
(***************************************************************************)
(* The card designer: pages that load, edit, save and reset the design of  *)
(* an editorial or of the system, and the service that keeps the designs.  *)
(*                                                                         *)
(* Of a design: its elements (id, position, size, quarter turns), the      *)
(* width of the card, and one value, look, for colours, fonts, texts and   *)
(* bindings. A page is one mount of the component. MaxGestures, MaxRequests,  *)
(* MaxElements and the sets of what may be dragged and typed bound it.     *)
(***************************************************************************)
EXTENDS CardGeometry, Sequences

CONSTANTS Editorials, Pages, Jobs, None, System,
  DefaultElements, Imported, Drags, Typed,
  CardWidths, CardHeight, Grid, Threshold, MinSize, MinStored, MaxStored,
  MaxElements, MaxGestures, MaxRequests

ASSUME DesignerAssumption ==
  /\ None \notin Pages \cup Editorials \cup {System} /\ System \notin Editorials
  /\ Drags \subseteq Int \X Int /\ Typed \subseteq Int
ASSUME BoundsAssumption ==
  /\ Grid \in Nat \ {0} /\ MinStored \in Nat \ {0} /\ MaxStored \in Nat /\ MinStored <= MaxStored
  /\ {CardHeight, Threshold, MinSize, MaxElements} \subseteq Nat
  /\ CardWidths \subseteq Nat \ {0} /\ \E w \in CardWidths : \A v \in CardWidths : v <= w

VARIABLES
  page,        \* the pages' state
  job,         \* their requests
  stored,      \* card_templates: None when there is no row
  begun, gestures,
  calm         \* pages whose requests and writes nothing else overlapped

vars == <<page, job, stored, begun, gestures, calm>>

Targets == Editorials \cup {System}
Widest == CHOOSE w \in CardWidths : \A v \in CardWidths : v <= w
DefaultTemplate == [elements |-> DefaultElements, width |-> Widest, look |-> 0]

\* What rows hold that were encrypted once: {}.
Emptied == [elements |-> <<>>, width |-> 0, look |-> 0]

\* A design out of whatever was typed or imported.
Bound(v, low, high) == Most(low, Least(high, v))
SanitizeElement(e) ==
  [e EXCEPT !.x = RoundHalf(Bound(@, -2 * MaxStored, 2 * MaxStored)),
            !.y = RoundHalf(Bound(@, -2 * MaxStored, 2 * MaxStored)),
            !.w = Bound(@, MinStored, MaxStored), !.h = Bound(@, MinStored, MaxStored)]
Sanitize(t) ==
  IF t = Emptied THEN DefaultTemplate
  ELSE [t EXCEPT !.elements = [i \in 1..Least(Len(@), MaxElements) |-> SanitizeElement(@[i])]]

\* The built-in design is one that sanitizing leaves as it is.
Designs == [elements: Seq(Elements), width: CardWidths, look: Nat]
ASSUME DesignsAssumption ==
  /\ DefaultElements \in Seq(Elements) /\ Imported \subseteq Designs /\ None \notin Designs
  /\ Sanitize(DefaultTemplate) = DefaultTemplate

\* What cards of t are drawn with: its own design, the system's or the built-in one.
Stored(t) == stored[t] \notin {None, Emptied}
Inherited == IF Stored(System) THEN Sanitize(stored[System]) ELSE DefaultTemplate
Effective(t) == IF Stored(t) THEN Sanitize(stored[t]) ELSE Inherited

Closed == [open |-> FALSE, asks |-> System, writes |-> System, template |-> DefaultTemplate, selected |-> 0,
           preview |-> FALSE, saved |-> FALSE, busy |-> FALSE, drag |-> None]
Idle == [kind |-> "idle", page |-> None, to |-> System, step |-> "none", design |-> None]
Of(p) == {j \in Jobs : job[j].page = p}

Start(j, p, k, to, step, t) ==
  /\ job[j] = Idle /\ begun < MaxRequests /\ begun' = begun + 1
  /\ job' = [job EXCEPT ![j] = [Idle EXCEPT !.kind = k, !.page = p, !.to = to, !.step = step, !.design = t]]

Init ==
  /\ page = [p \in Pages |-> Closed]
  /\ job = [j \in Jobs |-> Idle]
  /\ stored \in [Targets -> {None}] \cup [Targets -> {Emptied}]
  /\ begun = 0 /\ gestures = 0 /\ calm = {}

-----------------------------------------------------------------------------
(* Requests.                                                                *)

\* A system administrator writes what the page asks for; an editorial's writes its
\* own, and is shown the system's design when the address names no editorial.
Open(p, j, asks, writes) ==
  /\ ~page[p].open
  /\ writes = asks \/ asks = System
  /\ Start(j, p, "load", asks, "read", None)
  /\ page' = [page EXCEPT ![p] = [Closed EXCEPT !.open = TRUE, !.asks = asks, !.writes = writes]]
  /\ calm' = calm \cup {p}
  /\ UNCHANGED <<stored, gestures>>

\* The page is left, its requests are not taken back.
Close(p) ==
  /\ page[p].open
  /\ page' = [page EXCEPT ![p] = Closed]
  /\ job' = [j \in Jobs |-> IF j \in Of(p) THEN [job[j] EXCEPT !.page = None] ELSE job[j]]
  /\ calm' = calm \ {p}
  /\ UNCHANGED <<stored, begun, gestures>>

Save(p, j) ==
  /\ page[p].open /\ ~page[p].busy
  /\ Start(j, p, "save", page[p].writes, "sent", page[p].template)
  /\ page' = [page EXCEPT ![p].busy = TRUE]
  /\ calm' = IF Of(p) = {} THEN calm ELSE calm \ {p}
  /\ UNCHANGED <<stored, gestures>>

\* Nothing keeps this button from being pressed while a save is under way.
Reset(p, j) ==
  /\ page[p].open
  /\ Start(j, p, "reset", page[p].writes, "sent", None)
  /\ calm' = IF Of(p) = {} THEN calm ELSE calm \ {p}
  /\ UNCHANGED <<page, stored, gestures>>

\* A write by one page disturbs the others that see the same design.
Write(t, design, p) ==
  /\ stored' = [stored EXCEPT ![t] = design]
  /\ calm' = {q \in calm : q = p \/ t \notin {System, page[q].writes}}

Reply(j, t) == job' = [job EXCEPT ![j].step = "answered", ![j].design = t]

\* Resetting the system's design writes the built-in one; an editorial's row goes,
\* and the answer is read afterwards.
Serve(j) ==
  LET r == job[j] IN
  /\ r.step = "sent"
  /\ CASE r.kind = "save" -> Write(r.to, Sanitize(r.design), r.page) /\ Reply(j, Sanitize(r.design))
       [] r.kind # "save" /\ r.to = System -> Write(System, DefaultTemplate, r.page) /\ Reply(j, DefaultTemplate)
       [] OTHER -> Write(r.to, None, r.page) /\ job' = [job EXCEPT ![j].step = "read"]
  /\ UNCHANGED <<page, begun, gestures>>

\* The row of one's own, then the system's.
Get(j) ==
  /\ job[j].step = "read"
  /\ IF Stored(job[j].to) THEN Reply(j, Sanitize(stored[job[j].to]))
     ELSE job' = [job EXCEPT ![j].step = "inherit"]
  /\ UNCHANGED <<page, stored, begun, gestures, calm>>
Inherit(j) ==
  /\ job[j].step = "inherit" /\ Reply(j, Inherited)
  /\ UNCHANGED <<page, stored, begun, gestures, calm>>

\* Every answer replaces the design on the page, edited since or not.
Answered(j) ==
  LET p == job[j].page
      k == job[j].kind
  IN /\ job[j].step = "answered" /\ job' = [job EXCEPT ![j] = Idle]
     /\ page' = IF p = None THEN page
                ELSE [page EXCEPT ![p].template = job[j].design,
                        ![p].saved = @ \/ k # "load",
                        ![p].selected = IF k = "reset" THEN 0 ELSE @,
                        ![p].busy = IF k = "save" THEN FALSE ELSE @]
     /\ UNCHANGED <<stored, begun, gestures, calm>>

\* A request or its answer is lost: only the button comes back.
Lose(j) ==
  LET p == job[j].page IN
  /\ job[j] # Idle /\ job' = [job EXCEPT ![j] = Idle]
  /\ page' = IF p # None /\ job[j].kind = "save" THEN [page EXCEPT ![p].busy = FALSE] ELSE page
  /\ calm' = IF job[j].kind = "load" \/ job[j].step = "sent" THEN calm ELSE calm \ {p}
  /\ UNCHANGED <<stored, begun, gestures>>

\* The service starts and rewrites the rows that sanitizing changes.
Restart ==
  /\ \E t \in Targets : stored[t] # None /\ Sanitize(stored[t]) # stored[t]
  /\ stored' = [t \in Targets |-> IF stored[t] = None THEN None ELSE Sanitize(stored[t])]
  /\ calm' = {} /\ UNCHANGED <<page, job, begun, gestures>>

-----------------------------------------------------------------------------
(* Editing. Every edit forgets that the design was saved.                   *)

Edit(p, t, r) ==
  /\ page[p].open /\ gestures < MaxGestures /\ gestures' = gestures + 1
  /\ page' = [page EXCEPT ![p] = [r EXCEPT !.template = t, !.saved = FALSE]]
  /\ UNCHANGED <<job, stored, begun, calm>>

FreshId == 10 + gestures
Named(t, id) == {i \in DOMAIN t.elements : t.elements[i].id = id}
Ids(t) == {t.elements[i].id : i \in DOMAIN t.elements}
Update(t, id, f(_)) ==
  [t EXCEPT !.elements = [i \in DOMAIN @ |-> IF @[i].id = id THEN f(@[i]) ELSE @[i]]]
WithSelected(p) == page[p].drag = None /\ Named(page[p].template, page[p].selected) # {}
Selected(p) == page[p].template.elements[CHOOSE i \in Named(page[p].template, page[p].selected) : TRUE]

\* On the canvas or on an element; the handle of the selected one resizes it.
PointerDown(p, id, mode) ==
  /\ page[p].open /\ ~page[p].preview /\ page[p].drag = None
  /\ gestures < MaxGestures /\ gestures' = gestures + 1
  /\ IF id = 0 THEN mode = "move" /\ page' = [page EXCEPT ![p].selected = 0]
     ELSE /\ Named(page[p].template, id) # {} /\ (mode = "move" \/ id = page[p].selected)
          /\ \E i \in Named(page[p].template, id) :
               page' = [page EXCEPT ![p].selected = id,
                          ![p].drag = [id |-> id, mode |-> mode, start |-> page[p].template.elements[i]]]
  /\ UNCHANGED <<job, stored, begun, calm>>

\* From where the drag began, with the turn the element has now.
PointerMove(p, d) ==
  LET r == page[p].drag
      t == page[p].template
      To(e) ==
        LET s == [r.start EXCEPT !.turn = e.turn] IN
        IF r.mode = "resize" THEN Resize(s, d[1], d[2], t.width, CardHeight, Grid, MinSize)
        ELSE LET m == Move(s, 2 * d[1], 2 * d[2], t.width, CardHeight, Grid, Threshold)
             IN [e EXCEPT !.x = m.x, !.y = m.y]
  IN r # None /\ Edit(p, Update(t, r.id, To), page[p])

PointerUp(p) ==
  /\ page[p].drag # None /\ page' = [page EXCEPT ![p].drag = None]
  /\ UNCHANGED <<job, stored, begun, gestures, calm>>

Add(p) ==
  LET t == page[p].template
      n == FreshId
      e == [id |-> n, x |-> SnapHalves(t.width, Grid), y |-> SnapHalves(CardHeight, Grid), w |-> 2, h |-> 1, turn |-> 0]
  IN /\ ~page[p].preview /\ page[p].drag = None
     /\ Edit(p, [t EXCEPT !.elements = Append(@, e)], [page[p] EXCEPT !.selected = n])

Duplicate(p) ==
  LET t == page[p].template
      n == FreshId
      e == [Selected(p) EXCEPT !.id = n, !.x = SnapHalves(@ + 2 * Grid, Grid), !.y = SnapHalves(@ + 2 * Grid, Grid)]
  IN /\ WithSelected(p)
     /\ Edit(p, [t EXCEPT !.elements = Append(@, e)], [page[p] EXCEPT !.selected = n])

Without(s, id) ==
  LET kept[n \in 0..Len(s)] == IF n = 0 THEN <<>>
                              ELSE IF s[n].id = id THEN kept[n - 1]
                              ELSE Append(kept[n - 1], s[n])
  IN kept[Len(s)]
Others(p) == Without(page[p].template.elements, page[p].selected)

Remove(p) ==
  /\ WithSelected(p)
  /\ Edit(p, [page[p].template EXCEPT !.elements = Others(p)], [page[p] EXCEPT !.selected = 0])

Reorder(p, front) ==
  /\ WithSelected(p)
  /\ Edit(p, [page[p].template EXCEPT !.elements = IF front THEN Append(Others(p), Selected(p))
                                                   ELSE <<Selected(p)>> \o Others(p)], page[p])

Turn(p, by) ==
  /\ WithSelected(p)
  /\ Edit(p, Update(page[p].template, page[p].selected, LAMBDA e : Rotate(e, by)), page[p])

\* Positions are typed as they are seen, sizes as they are.
Type(p, field, v) ==
  LET Typing(e) == CASE field = "x" -> [e EXCEPT !.x = RoundHalf(2 * v - (e.w - BoundsW(e)))]
                     [] field = "y" -> [e EXCEPT !.y = RoundHalf(2 * v - (e.h - BoundsH(e)))]
                     [] field = "width" -> [e EXCEPT !.w = v]
                     [] OTHER -> [e EXCEPT !.h = v]
  IN WithSelected(p) /\ Edit(p, Update(page[p].template, page[p].selected, Typing), page[p])

\* The binding, texts, font and colours of the selected element.
Restyle(p, look) ==
  /\ WithSelected(p) /\ look # page[p].template.look
  /\ Edit(p, [page[p].template EXCEPT !.look = look], page[p])

\* Colours and the font of the card, and its width.
PatchTheme(p, look, width) ==
  /\ page[p].drag = None
  /\ <<look, width>> # <<page[p].template.look, page[p].template.width>>
  /\ Edit(p, [page[p].template EXCEPT !.look = look, !.width = width], page[p])

\* Variant: an imported design counts as saved.
ImportKeepsSaved(p, t) ==
  /\ page[p].open /\ gestures < MaxGestures /\ gestures' = gestures + 1 /\ page[p].drag = None
  /\ page' = [page EXCEPT ![p].template = Sanitize(t), ![p].selected = 0]
  /\ UNCHANGED <<job, stored, begun, calm>>

Import(p, t) ==
  /\ page[p].drag = None
  /\ Edit(p, Sanitize(t), [page[p] EXCEPT !.selected = 0])

Preview(p) ==
  /\ page[p].open /\ page[p].drag = None
  /\ gestures < MaxGestures /\ gestures' = gestures + 1
  /\ page' = [page EXCEPT ![p].preview = ~@, ![p].selected = IF page[p].preview THEN @ ELSE 0]
  /\ UNCHANGED <<job, stored, begun, calm>>

Next ==
  \/ \E p \in Pages :
       \/ \E j \in Jobs :
            \/ \E asks, writes \in Targets : Open(p, j, asks, writes)
            \/ Save(p, j) \/ Reset(p, j)
       \/ Close(p) \/ PointerUp(p) \/ Add(p) \/ Duplicate(p) \/ Remove(p) \/ Preview(p)
       \/ \E id \in {0} \cup Ids(page[p].template), mode \in {"move", "resize"} : PointerDown(p, id, mode)
       \/ \E d \in Drags : PointerMove(p, d)
       \/ \E front \in BOOLEAN : Reorder(p, front)
       \/ \E by \in {-1, 1} : Turn(p, by)
       \/ \E field \in {"x", "y", "width", "height"}, v \in Typed : Type(p, field, v)
       \/ \E look \in 0..1 : Restyle(p, look)
       \/ \E look \in 0..1, width \in CardWidths : PatchTheme(p, look, width)
       \/ \E t \in Imported : Import(p, t)
  \/ \E j \in Jobs : Serve(j) \/ Get(j) \/ Inherit(j) \/ Answered(j) \/ Lose(j)
  \/ Restart

Spec == Init /\ [][Next]_vars

-----------------------------------------------------------------------------
(* Properties.                                                              *)

\* A page that says the design is saved shows what cards of its editorial are
\* drawn with, when its requests did not overlap and nobody else wrote.
SavedIsStored ==
  \A p \in calm : page[p].saved /\ Of(p) = {} => page[p].template = Effective(page[p].writes)

\* An element is dragged and resized by how it is seen: one that fits stays on the
\* card whatever way it was turned before, unless an answer changed its size meanwhile.
SameSize(p, e) == page[p].drag.start.w = e.w /\ page[p].drag.start.h = e.h
Dragged(p) ==
  /\ job' = job /\ page[p].drag # None /\ page'[p].drag = page[p].drag
  /\ page'[p].template # page[p].template
PlacedAsSeen ==
  [][\A p \in Pages : Dragged(p) =>
       LET t == page'[p].template IN
       \A i \in Named(t, page[p].drag.id) :
         /\ Fits(t.elements[i], t.width, CardHeight)
         /\ page[p].drag.mode = "resize" \/ SameSize(p, t.elements[i])
         => Inside(t.elements[i], t.width, CardHeight, 0)]_vars
=============================================================================
