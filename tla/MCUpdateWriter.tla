--------------------------- MODULE MCUpdateWriter ---------------------------
(***************************************************************************)
(* UpdateWriter on pictures of a dozen pixels.  Their colours are in order *)
(* of appearance: the encoders only compare colours.                       *)
(***************************************************************************)
EXTENDS UpdateWriter

Picture(w, h, at) == [w |-> w, h |-> h, at |-> at]
Grid(w, h) == (0 .. w - 1) \X (0 .. h - 1)

\* 4 x 3 pixels of two colours: every shape.
Shapes == {Picture(4, 3, f) : f \in {g \in [Grid(4, 3) -> {0, 1}] : g[<<0, 0>>] = 0}}

\* Twelve pixels in a row, three tiles of four: every order of tiles that Hextile
\* treats in different ways, two backgrounds and three foregrounds among them.
Tiles == {<<0, 0, 0, 0>>, <<1, 1, 1, 1>>, <<0, 0, 0, 1>>, <<0, 2, 2, 2>>, <<1, 0, 1, 1>>,
          <<0, 0, 1, 2>>, <<2, 0, 2, 1>>, <<0, 1, 2, 3>>}
Rows == {Picture(12, 1, [p \in Grid(12, 1) |-> t[p[1] \div 4 + 1][(p[1] % 4) + 1]]) :
           t \in [1 .. 3 -> Tiles]}

\* A rectangle on a background, in a picture that is split: 5 x 3 pixels, or two
\* stacked and next to each other in 14 x 2.
OneRect(w, h) ==
  {Picture(w, h, [p \in Grid(w, h) |-> IF p \in Pixels(r) THEN 1 ELSE 0]) :
     r \in {s \in [x1 : {0, 1, w - 4, w - 2}, y1 : 0 .. h - 1, x2 : {2, w - 1, w}, y2 : 1 .. h] : Nonempty(s)}}

Same == [c \in 0 .. 3 |-> c]
Fewer == [c \in 0 .. 3 |-> IF c = 3 THEN 2 ELSE c]   \* a format with fewer colours

Client(preferred, pseudo) ==
  [preferred |-> preferred, pseudo |-> pseudo,
   encodings |-> IF preferred = "Raw" THEN {} ELSE {preferred, "ZRLE"}]

Everything(preferred) ==
  [preferred |-> preferred, pseudo |-> {"LastRect"},
   encodings |-> {"RRE", "Hextile", "ZRLE", "Tight"}]

Clients == {Client(e, {}) : e \in {"Raw", "RRE", "Hextile", "ZRLE", "Tight"}}
             \cup {Everything(e) : e \in {"RRE", "Hextile", "Tight"}}

\* Pictures that are sent as a whole, by every kind of client.
Still(pictures, changed) ==
  [pictures |-> pictures, changed |-> changed, deltas |-> {<<0, 0>>}, cursors |-> {{}},
   clients |-> Clients, improved |-> {TRUE}, convert |-> Same, blank |-> 9, ink |-> 3,
   busy |-> FALSE]

Pseudo == {"LastRect", "DesktopName", "Cursor", "XCursor", "DesktopSize", "ExtendedDesktopSize"}

\* What a client may support: everything, nothing, and some halves.
BusyClients ==
  {Client("RRE", P) : P \in {{}, Pseudo, Pseudo \ {"LastRect"}, {"XCursor", "DesktopSize"},
                             {"LastRect", "DesktopName", "XCursor", "DesktopSize"},
                             {"Cursor", "DesktopName", "ExtendedDesktopSize"}}}

\* A picture of which nothing is sent.
Unchanged == Picture(1, 1, [p \in Grid(1, 1) |-> 0])

AllFamilies ==
  <<[Still(Rows, {Grid(12, 1)}) EXCEPT !.improved = BOOLEAN],
    Still(Shapes, {Grid(4, 3)}),
    Still(OneRect(14, 2), {Grid(14, 2)}),
    \* an L, of two rectangles, in a format of fewer colours
    [Still(OneRect(5, 3), {Grid(5, 3), {p \in Grid(5, 3) : p[1] = 0 \/ p[2] = 2}})
       EXCEPT !.convert = Fewer],
    \* scrolled in three directions, with the cursor drawn on top
    [Still(OneRect(5, 3), {{}, {<<2, 1>>}})
       EXCEPT !.deltas = {<<1, 0>>, <<0, -1>>, <<-1, 1>>}, !.cursors = {{}, {Box(1, 1, 2, 2)}},
              !.clients = {Client("Hextile", {}), Everything("Tight")}],
    \* one picture, or none, and announcements
    [Still({Picture(4, 3, [p \in Grid(4, 3) |-> IF p = <<1, 1>> THEN 1 ELSE 0])}, {{}, Grid(4, 3)})
       EXCEPT !.clients = BusyClients, !.busy = TRUE],
    \* nothing to send, and nothing happens
    [Still({Unchanged}, {{}}) EXCEPT !.clients = {Client("Raw", {})}]>>
=============================================================================
