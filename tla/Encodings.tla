----------------------------- MODULE Encodings -----------------------------
(***************************************************************************)
(* The encoders of the server and the decoders of the viewer: Raw, RRE,    *)
(* Hextile (both of its algorithms), ZRLE and Tight, in common/rfb.        *)
(*                                                                         *)
(* An encoder gets the image of one rectangle, with its own coordinates,   *)
(* and its palette if it has one; it returns what goes through the stream. *)
(* A decoder sees only that and the rectangle.  zlib is not modelled: the  *)
(* bytes that go into the compressor come out of the other end.  JPEG and  *)
(* Tight's gradient filter, which the server never uses, are left out.     *)
(*                                                                         *)
(* A colour is as good as any other, so a picture of a few pixels with     *)
(* tiles of a few pixels shows what happens from tile to tile.             *)
(***************************************************************************)
EXTENDS Region, SequencesExt

CONSTANTS HextileSide,     \* 16: side of a tile of Hextile
          ZrleSide,        \* 64: side of a tile of ZRLE
          HextileColors,   \* 48 + 2 * BPP: a tile with more is sent raw
          PackedColors,    \* 16: larger palettes are run-length encoded by ZRLE
          RunByte,         \* 255: the byte of a run that goes on
          BytesPerPixel,
          MinToCompress    \* 12: Tight does not compress less

ASSUME EncodingAssumption ==
  /\ {HextileSide, ZrleSide, RunByte, BytesPerPixel} \subseteq Nat \ {0}
  /\ PackedColors \in 2 .. 16 /\ HextileColors \in Nat /\ MinToCompress \in Nat

Width(r) == r.x2 - r.x1
Height(r) == r.y2 - r.y1
Area(r) == Width(r) * Height(r)

Box(x, y, w, h) == [x1 |-> x, y1 |-> y, x2 |-> x + w, y2 |-> y + h]
MovedBy(r, d) == Box(r.x1 + d[1], r.y1 + d[2], Width(r), Height(r))

\* An image: width, height and the colour of each pixel.
Whole(i) == Box(0, 0, i.w, i.h)
Image(w, h, Color(_)) ==
  [w |-> w, h |-> h, at |-> [p \in Pixels(Box(0, 0, w, h)) |-> Color(p)]]
Cut(i, r) == Image(Width(r), Height(r), LAMBDA p : i.at[Shift(p, <<r.x1, r.y1>>)])
Paste(i, r, part) ==
  [i EXCEPT !.at = [p \in DOMAIN @ |->
     IF p \in Pixels(r) THEN part.at[Shift(p, <<-r.x1, -r.y1>>)] ELSE @[p]]]

\* PixelBuffer::fillRect and checkSolidTile.
Fill(i, r, c) == [i EXCEPT !.at = [p \in DOMAIN @ |-> IF p \in Pixels(r) THEN c ELSE @[p]]]
Solid(i, r, c) == \A p \in Pixels(r) : i.at[p] = c
Uniform(w, h, c) == Image(w, h, LAMBDA p : c)

\* The pixels from left to right and top to bottom, and their colours.
Scan(i) == [k \in 1 .. i.w * i.h |-> <<(k - 1) % i.w, (k - 1) \div i.w>>]
Values(i) == [k \in 1 .. i.w * i.h |-> i.at[Scan(i)[k]]]
FromValues(w, h, values) == Image(w, h, LAMBDA p : values[p[2] * w + p[1] + 1])

\* The two loops that go through a rectangle in steps of sw columns, sh rows.
Split(r, sw, sh) ==
  LET across == Cardinality({k \in 0 .. Width(r) : r.x1 + k * sw < r.x2})
      down == Cardinality({k \in 0 .. Height(r) : r.y1 + k * sh < r.y2})
      Part(x, y) == [x1 |-> x, y1 |-> y, x2 |-> Min({x + sw, r.x2}), y2 |-> Min({y + sh, r.y2})]
  IN [k \in 1 .. across * down |->
        Part(r.x1 + ((k - 1) % across) * sw, r.y1 + ((k - 1) \div across) * sh)]
-----------------------------------------------------------------------------
(***************************************************************************)
(* Palette: the colours of an image, the most frequent one first.          *)
(***************************************************************************)
Insert(palette, c, n) ==
  LET before == SelectSeq(palette, LAMBDA e : e.color = c)
      m == IF before = <<>> THEN n ELSE n + before[1].count
      others == SelectSeq(palette, LAMBDA e : e.color # c)
      k == Cardinality({j \in DOMAIN others : others[j].count >= m})
  IN SubSeq(others, 1, k) \o <<[color |-> c, count |-> m]>> \o SubSeq(others, k + 1, Len(others))

Lookup(palette, c) == (CHOOSE k \in DOMAIN palette : palette[k].color = c) - 1
Colors(palette) == [k \in DOMAIN palette |-> palette[k].color]

\* analyseRect: the runs of one colour are inserted into the palette; too many
\* colours make the palette empty.
Analyse(i, maxColors) ==
  LET Step(a, c) ==
        IF c = a.color THEN [a EXCEPT !.count = @ + 1]
        ELSE [color |-> c, count |-> 1, palette |-> Insert(a.palette, a.color, a.count)]
      last == FoldLeft(Step, [color |-> i.at[<<0, 0>>], count |-> 0, palette |-> <<>>], Values(i))
      palette == Insert(last.palette, last.color, last.count)
  IN IF Len(palette) > maxColors THEN <<>> ELSE palette

\* RectInfo::rleRuns.
Runs(i) == LET v == Values(i) IN Cardinality({k \in 2 .. Len(v) : v[k] # v[k - 1]})
-----------------------------------------------------------------------------
(***************************************************************************)
(* RRE and Hextile: rectangles on a background.                            *)
(***************************************************************************)
\* The rectangle of one colour that starts at p, first as wide as possible.
Across(i, p) ==
  LET w == Max({n \in 1 .. i.w - p[1] : Solid(i, Box(p[1], p[2], n, 1), i.at[p])})
      h == Max({n \in 1 .. i.h - p[2] : Solid(i, Box(p[1], p[2], w, n), i.at[p])})
  IN Box(p[1], p[2], w, h)

\* RRE: or first as high as possible, if that is larger.
AcrossOrDown(i, p) ==
  LET a == Across(i, p)
      h == Max({n \in 1 .. i.h - p[2] : Solid(i, Box(p[1], p[2], 1, n), i.at[p])})
      w == Max({n \in 1 .. Width(a) : Solid(i, Box(p[1], p[2], n, h), i.at[p])})
  IN IF h # Height(a) /\ Area(a) < w * h THEN Box(p[1], p[2], w, h) ELSE a

\* The loop of rreEncode and hextileEncodeTile, which paints what it has found
\* in the background's colour.
Subrects(i, bg, bothWays) ==
  LET Step(a, p) ==
        LET box == IF bothWays THEN AcrossOrDown(a.left, p) ELSE Across(a.left, p)
        IN IF a.left.at[p] = bg THEN a
           ELSE [left |-> Fill(a.left, box, bg),
                 found |-> Append(a.found, [box |-> box, color |-> a.left.at[p]])]
  IN FoldLeft(Step, [left |-> i, found |-> <<>>], Scan(i)).found

RreEncode(i, palette) ==
  LET bg == IF palette = <<>> THEN i.at[<<0, 0>>] ELSE palette[1].color
  IN [bg |-> bg, subrects |-> Subrects(i, bg, TRUE)]
RreSolid(w, h, c) == [bg |-> c, subrects |-> <<>>]

RreDecode(pic, r, data) ==
  LET Step(a, s) == Fill(a, MovedBy(s.box, <<r.x1, r.y1>>), s.color)
  IN FoldLeft(Step, Fill(pic, r, data.bg), data.subrects)

\* What hextileEncode knows of a tile (hextileTestTileType): the background is
\* the more frequent of the first two colours, up to where a third one begins.
TileType(i) ==
  LET v == Values(i)
      others == {k \in DOMAIN v : v[k] # v[1]}
  IN IF others = {} THEN [bg |-> v[1], fg |-> {}, colored |-> FALSE, subrects |-> <<>>]
     ELSE LET c == v[Min(others)]
              thirds == {k \in others : v[k] # c}
              end == IF thirds = {} THEN Len(v) ELSE Min(thirds) - 1
              Count(x) == Cardinality({k \in 1 .. end : v[k] = x})
              bg == IF Count(v[1]) >= Count(c) THEN v[1] ELSE c
          IN [bg |-> bg, fg |-> IF thirds = {} THEN {v[1], c} \ {bg} ELSE {},
              colored |-> thirds # {}, subrects |-> Subrects(i, bg, FALSE)]

\* HextileTile::analyze and encode (ImprovedHextile): the whole tile is cut into
\* rectangles, full rows at the top first, and the colour of most of them is the
\* background.  A tile of too many colours has no background.
Analyze(i) ==
  LET full == {n \in 1 .. i.h : Solid(i, Box(0, 0, i.w, n), i.at[<<0, 0>>])}
      top == IF full = {} THEN <<>>
             ELSE <<[box |-> Box(0, 0, i.w, Max(full)), color |-> i.at[<<0, 0>>]]>>
      Step(found, p) ==
        IF \E k \in DOMAIN found : p \in Pixels(found[k].box) THEN found
        ELSE Append(found, [box |-> Across(i, p), color |-> i.at[p]])
      found == FoldLeft(Step, top, Scan(i))
      palette == FoldLeft(LAMBDA a, s : Insert(a, s.color, 1), <<>>, found)
      bg == palette[1].color
  IN IF Len(palette) > HextileColors THEN [overflow |-> TRUE]
     ELSE [overflow |-> FALSE, bg |-> bg,
           fg |-> IF Len(palette) = 2 THEN {palette[2].color} ELSE {},
           colored |-> Len(palette) > 2,
           subrects |-> SelectSeq(found, LAMBDA s : s.color # bg)]

EncodedLen(t) ==
  IF t.subrects = <<>> THEN 0
  ELSE 1 + Len(t.subrects) * IF t.colored THEN 2 + BytesPerPixel ELSE 2

\* Mutant: the foreground is taken for valid after a tile of several colours.
Remembered_KeepsFg(a, t) == [bg |-> {t.bg}, fg |-> IF t.fg # {} THEN t.fg ELSE a.fg]

\* oldBg and oldFg after a tile, empty when they are not valid.
Remembered(a, t) ==
  [bg |-> {t.bg}, fg |-> IF t.colored THEN {} ELSE IF t.fg # {} THEN t.fg ELSE a.fg]

\* What is sent of a tile: the colours that the decoder does not have, and without
\* hextileSubrectsColoured the subrectangles without theirs.
TileData(a, t) ==
  [raw |-> FALSE, bg |-> {t.bg} \ a.bg, fg |-> t.fg \ a.fg, colored |-> t.colored,
   subrects |-> [k \in DOMAIN t.subrects |->
     [box |-> t.subrects[k].box, color |-> IF t.colored THEN {t.subrects[k].color} ELSE {}]]]

\* A tile and what is known of it before it is encoded; improved: ImprovedHextile is set.
TileInfo(i, improved) ==
  [image |-> i] @@ IF improved THEN Analyze(i) ELSE [overflow |-> FALSE] @@ TileType(i)

\* One tile of hextileEncode or hextileEncodeBetter.
HextileTile(a, t, improved) ==
  LET size == t.image.w * t.image.h * BytesPerPixel
  IN IF t.overflow \/ EncodedLen(t) > size \/ (improved /\ EncodedLen(t) = size)
     THEN [known |-> [bg |-> {}, fg |-> {}], out |-> Append(a.out, [raw |-> TRUE, image |-> t.image])]
     ELSE [known |-> Remembered(a.known, t), out |-> Append(a.out, TileData(a.known, t))]

HextileEncode(i, improved) ==
  LET tiles == Split(Whole(i), HextileSide, HextileSide)
  IN FoldLeft(LAMBDA a, t : HextileTile(a, t, improved),
              [known |-> [bg |-> {}, fg |-> {}], out |-> <<>>],
              [k \in DOMAIN tiles |-> TileInfo(Cut(i, tiles[k]), improved)]).out

\* HextileEncoder::writeSolidRect: the first tile has the colour, the others nothing.
HextileSolid(w, h, c) ==
  LET tiles == ((w + HextileSide - 1) \div HextileSide) * ((h + HextileSide - 1) \div HextileSide)
  IN [k \in 1 .. tiles |->
        [raw |-> FALSE, bg |-> IF k = 1 THEN {c} ELSE {}, fg |-> {}, colored |-> FALSE,
         subrects |-> <<>>]]

\* One tile of hextileDecode; bg and fg are kept from tile to tile.
HextileUntile(a, r, t) ==
  IF t.raw THEN [a EXCEPT !.pic = Paste(@, r, t.image)]
  ELSE LET bg == IF t.bg = {} THEN a.bg ELSE CHOOSE c \in t.bg : TRUE
           fg == IF t.fg = {} THEN a.fg ELSE CHOOSE c \in t.fg : TRUE
           Step(b, s) ==
             LET c == IF t.colored THEN CHOOSE d \in s.color : TRUE ELSE b.fg
             IN [b EXCEPT !.fg = c, !.pic = Fill(@, MovedBy(s.box, <<r.x1, r.y1>>), c)]
       IN FoldLeft(Step, [pic |-> Fill(a.pic, r, bg), bg |-> bg, fg |-> fg], t.subrects)

HextileDecode(pic, r, data) ==
  LET tiles == Split(r, HextileSide, HextileSide)
      Step(a, k) == HextileUntile(a, tiles[k], data[k])
  IN FoldLeft(Step, [pic |-> pic, bg |-> 0, fg |-> 0], [k \in DOMAIN tiles |-> k]).pic
-----------------------------------------------------------------------------
(***************************************************************************)
(* ZRLE and Tight: indices into a palette.  Bytes are numbers.             *)
(***************************************************************************)
\* A row of indices of so many bits each, the first one in the highest bits of a
\* byte; the last byte of a row is padded.  byte is not cleared when it is written.
PackRow(row, bits) ==
  LET Step(a, index) ==
        LET byte == (a.byte * 2^bits + index) % 256
        IN IF a.nbits + bits >= 8
           THEN [byte |-> byte, nbits |-> 0, out |-> Append(a.out, byte)]
           ELSE [byte |-> byte, nbits |-> a.nbits + bits, out |-> a.out]
      end == FoldLeft(Step, [byte |-> 0, nbits |-> 0, out |-> <<>>], row)
  IN IF end.nbits = 0 THEN end.out
     ELSE Append(end.out, (end.byte * 2^(8 - end.nbits)) % 256)

UnpackRow(bytes, w, bits) ==
  [k \in 1 .. w |->
     LET first == (k - 1) * bits
     IN (bytes[first \div 8 + 1] \div 2^(8 - bits - (first % 8))) % 2^bits]

RowOf(values, w, y) == SubSeq(values, y * w + 1, (y + 1) * w)

\* A picture of h rows; a row of w pixels takes BytesOfRow(w, bits) bytes.
Pack(values, w, h, bits) ==
  FlattenSeq([y \in 1 .. h |-> PackRow(RowOf(values, w, y - 1), bits)])
BytesOfRow(w, bits) == (w * bits + 7) \div 8
Unpack(bytes, w, h, bits) ==
  FlattenSeq([y \in 1 .. h |-> UnpackRow(RowOf(bytes, BytesOfRow(w, bits), y - 1), w, bits)])

\* The bytes for a run of n pixels, n > 1.
RunLength(n) ==
  [k \in 1 .. (n - 1) \div RunByte |-> RunByte] \o <<(n - 1) % RunByte>>

\* writePaletteRLETile: an index; with its highest bit set, the length of the run.
RleEncode(indices) ==
  LET Flush(a) == IF a.run = 1 THEN Append(a.out, a.index)
                  ELSE a.out \o <<a.index + 128>> \o RunLength(a.run)
      Step(a, index) ==
        IF index = a.index THEN [a EXCEPT !.run = @ + 1]
        ELSE [index |-> index, run |-> 1, out |-> Flush(a)]
  IN Flush(FoldLeft(Step, [index |-> indices[1], run |-> 0, out |-> <<>>], indices))

\* The decoder's loop, a byte at a time; len = 0 between runs.
RleDecode(bytes) ==
  LET Step(a, b) ==
        IF a.len = 0
        THEN IF b >= 128 THEN [a EXCEPT !.index = b - 128, !.len = 1]
                         ELSE [a EXCEPT !.out = Append(@, b)]
        ELSE IF b = RunByte THEN [a EXCEPT !.len = @ + b]
             ELSE [a EXCEPT !.out = @ \o [k \in 1 .. a.len + b |-> a.index], !.len = 0]
  IN FoldLeft(Step, [index |-> 0, len |-> 0, out |-> <<>>], bytes).out

\* bitsPerPackedPixel of the encoder, and the decoder's formula.
BitsPerPackedPixel == [n \in 1 .. 16 |-> IF n = 1 THEN 0 ELSE IF n = 2 THEN 1 ELSE IF n <= 4 THEN 2 ELSE 4]
PackedBits(n) == IF n > 16 THEN 8 ELSE IF n > 4 THEN 4 ELSE IF n > 2 THEN 2 ELSE 1

Indices(i, palette) == [k \in DOMAIN Values(i) |-> Lookup(palette, Values(i)[k])]

\* ZRLEEncoder::writeRawTile, writePaletteTile and writePaletteRLETile.
ZrleTile(i, palette) ==
  IF palette = <<>> THEN [palette |-> <<>>, rle |-> FALSE, data |-> Values(i)]
  ELSE IF Len(palette) <= PackedColors
       THEN [palette |-> Colors(palette), rle |-> FALSE,
             data |-> Pack(Indices(i, palette), i.w, i.h, BitsPerPackedPixel[Len(palette)])]
       ELSE [palette |-> Colors(palette), rle |-> TRUE, data |-> RleEncode(Indices(i, palette))]

ZrleSolid(w, h, c) ==
  LET tiles == ((w + ZrleSide - 1) \div ZrleSide) * ((h + ZrleSide - 1) \div ZrleSide)
  IN [k \in 1 .. tiles |-> [palette |-> <<c>>, rle |-> FALSE, data |-> <<>>]]

ZrleEncode(i, palette) ==
  IF Len(palette) = 1 THEN ZrleSolid(i.w, i.h, palette[1].color)
  ELSE LET tiles == Split(Whole(i), ZrleSide, ZrleSide)
       IN [k \in DOMAIN tiles |-> ZrleTile(Cut(i, tiles[k]), palette)]

\* One tile of zrleDecode.
ZrleUntile(r, t) ==
  LET n == Len(t.palette)
      Looked(indices) == [k \in DOMAIN indices |-> t.palette[indices[k] + 1]]
      values == IF t.rle THEN Looked(RleDecode(t.data))
                ELSE IF n = 0 THEN t.data
                ELSE Looked(Unpack(t.data, Width(r), Height(r), PackedBits(n)))
  IN IF n = 1 THEN Uniform(Width(r), Height(r), t.palette[1])
     ELSE FromValues(Width(r), Height(r), values)

ZrleDecode(pic, r, data) ==
  LET tiles == Split(r, ZrleSide, ZrleSide)
      Step(a, k) == Paste(a, tiles[k], ZrleUntile(tiles[k], data[k]))
  IN FoldLeft(Step, pic, [k \in DOMAIN tiles |-> k])

\* getZlibOutStream of the encoder: less than MinToCompress bytes are sent without
\* a length in front of them, and the decoder has to know which is which.
TightData(kind, palette, bytes, data) ==
  [kind |-> kind, palette |-> palette, compressed |-> bytes >= MinToCompress, data |-> data]

TightSolid(w, h, c) == [kind |-> "fill", color |-> c]

\* TightEncoder::writeRect: writeFullColourRect, writeMonoRect, writeIndexedRect.
TightEncode(i, palette) ==
  CASE Len(palette) = 0 -> TightData("copy", <<>>, i.w * i.h * BytesPerPixel, Values(i))
    [] Len(palette) = 1 -> TightSolid(i.w, i.h, palette[1].color)
    [] Len(palette) = 2 -> TightData("palette", Colors(palette), ((i.w + 7) \div 8) * i.h,
                                     Pack(Indices(i, palette), i.w, i.h, 1))
    [] OTHER -> TightData("palette", Colors(palette), i.w * i.h, Indices(i, palette))

\* tightDecode computes the size of the data from the rectangle and the palette.
TightDecode(pic, r, t) ==
  IF t.kind = "fill" THEN Fill(pic, r, t.color)
  ELSE LET n == Len(t.palette)
           bits == IF n = 0 THEN 8 * BytesPerPixel ELSE IF n <= 2 THEN 1 ELSE 8
           dataSize == Height(r) * ((Width(r) * bits + 7) \div 8)
           indices == IF n = 2 THEN Unpack(t.data, Width(r), Height(r), 1) ELSE t.data
           values == IF n = 0 THEN t.data
                     ELSE [k \in DOMAIN indices |-> t.palette[indices[k] + 1]]
       IN IF t.compressed # (dataSize >= MinToCompress) THEN Fill(pic, r, "garbled")
          ELSE Paste(pic, r, FromValues(Width(r), Height(r), values))
-----------------------------------------------------------------------------
\* Encoder::writeRect, Encoder::writeSolidRect and Decoder::readRect.
Encode(encoding, i, palette, improved) ==
  CASE encoding = "Raw" -> Values(i)
    [] encoding = "RRE" -> RreEncode(i, palette)
    [] encoding = "Hextile" -> HextileEncode(i, improved)
    [] encoding = "ZRLE" -> ZrleEncode(i, palette)
    [] encoding = "Tight" -> TightEncode(i, palette)

EncodeSolid(encoding, w, h, c) ==
  CASE encoding = "Raw" -> [k \in 1 .. w * h |-> c]
    [] encoding = "RRE" -> RreSolid(w, h, c)
    [] encoding = "Hextile" -> HextileSolid(w, h, c)
    [] encoding = "ZRLE" -> ZrleSolid(w, h, c)
    [] encoding = "Tight" -> TightSolid(w, h, c)

Decode(encoding, pic, r, data) ==
  CASE encoding = "Raw" -> Paste(pic, r, FromValues(Width(r), Height(r), data))
    [] encoding = "RRE" -> RreDecode(pic, r, data)
    [] encoding = "Hextile" -> HextileDecode(pic, r, data)
    [] encoding = "ZRLE" -> ZrleDecode(pic, r, data)
    [] encoding = "Tight" -> TightDecode(pic, r, data)
=============================================================================
