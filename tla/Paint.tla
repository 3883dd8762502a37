-------------------------------- MODULE Paint -------------------------------
(***************************************************************************)
(* The display list (crates/mocha_paint) and its rasterizer                *)
(* (crates/mocha_raster), pixel by pixel.  A color covers what it is drawn *)
(* on or is transparent; a glyph fills its cell.                           *)
(***************************************************************************)
EXTENDS Layout

Command(op, b, color) ==
  [op |-> op, rect |-> b.rect, color |-> color, radius |-> b.style.radius,
   thickness |-> b.style.border_width, data |-> b.data, node |-> b.node]

Background0(b) == IF b.style.background = "transparent" THEN << >> ELSE <<Command("fill", b, b.style.background)>>
Border(b) == IF b.style.border_width <= 0 THEN << >> ELSE <<Command("border", b, b.style.border_color)>>

OwnCommands(b) ==
  CASE b.kind \in {"block", "anon"} -> Background0(b) \o Border(b)
    [] b.kind = "line" -> << >>
    [] b.kind = "text" -> <<Command("text", b, b.style.color)>>
    [] b.kind = "image" -> Background0(b) \o Border(b) \o <<Command("image", b, "pixels")>>
    [] b.kind = "control" -> Background0(b) \o <<Command("control", b, "face")>>

(* The commands of a box, before those of its children. *)
RECURSIVE BuildDisplayList(_)
BuildDisplayList(b) ==
  OwnCommands(b) \o FlattenSeq([k \in DOMAIN b.kids |-> BuildDisplayList(b.kids[k])])

-----------------------------------------------------------------------------
(* A pixel is in a rounded rectangle when its center, in half pixels, is   *)
(* not beyond the arc of its corner.                                       *)
InRounded(r, radius, x, y) ==
  LET c == Most(0, Least(radius, Least(r.w, r.h) \div 2))
      Out(v, from, size) == Most(0, Most(2 * (from + c) - (2 * v + 1), (2 * v + 1) - 2 * (from + size - c)))
      dx == Out(x, r.x, r.w)
      dy == Out(y, r.y, r.h)
  IN Inside(r, x, y) /\ dx * dx + dy * dy <= 4 * c * c + (IF c = 0 THEN 1 ELSE 0)

Shrunk(r, t) == Rect(r.x + t, r.y + t, r.w - 2 * t, r.h - 2 * t)

OnBorder(c, x, y) ==
  LET r == c.rect
      t == Least(Most(1, c.thickness), Most(0, Least(r.w, r.h)))
  IN IF c.radius > 0
     THEN /\ InRounded(r, c.radius, x, y)
          /\ ~InRounded(Shrunk(r, t), Most(0, c.radius - t), x, y)
     ELSE Inside(r, x, y) /\ ~Inside(Shrunk(r, t), x, y)

\* Pixel x, y of an image drawn in a rectangle: the nearest of its own.
ImagePixel(image, r, x, y) ==
  image.pixels[Least(((y - r.y) * image.h) \div r.h, image.h - 1) + 1]
              [Least(((x - r.x) * image.w) \div r.w, image.w - 1) + 1]

\* A filled rectangle, rounded or not; a glyph fills its cell; the face of a
\* control is opaque.
Filled(c, x, y) == IF c.radius > 0 THEN InRounded(c.rect, c.radius, x, y) ELSE Inside(c.rect, x, y)
TextRun(c, x, y) == c.color # "transparent" /\ Inside(c.rect, x, y)
ControlFace(c, x, y) == Inside(c.rect, x, y)

Covers(c, images, x, y) ==
  CASE c.op = "fill" -> Filled(c, x, y)
    [] c.op = "border" -> c.color # "transparent" /\ OnBorder(c, x, y)
    [] c.op = "text" -> TextRun(c, x, y)
    [] c.op = "image" -> /\ c.data \in DOMAIN images
                         /\ Inside(c.rect, x, y)
                         /\ ImagePixel(images[c.data], c.rect, x, y) # "transparent"
    [] c.op = "control" -> ControlFace(c, x, y)

(* The command whose color a pixel of the window ends up with (0: none),   *)
(* when the page is scrolled and starts below the chrome.                  *)
Rasterize(list, images, scroll, top, x, y) ==
  SelectLastInSeq(list, LAMBDA c : Covers(c, images, x, y + scroll - top))
=============================================================================
