-------------------------------- MODULE TexBank --------------------------------
(***************************************************************************)
(* From the bytes of a texture to a sampled colour (gfx/tex_bank.c and the *)
(* load and the sampling of gfx/tmem.c).  A texture comes in thirteen      *)
(* formats and eleven encodings; the channels are put together in a static *)
(* buffer that keeps what the texture before has left in it.               *)
(*                                                                         *)
(* A stream is a sequence of fields <<bits, value>>, to be read with the   *)
(* width they were written with; how they share bytes is left out.  Images *)
(* are those of the game's tool: Encoded(image) is that tool, as far as    *)
(* its streams show it (external).                                         *)
(***************************************************************************)
EXTENDS Integers, Sequences, SequencesExt, FiniteSets, FiniteSetsExt

CONSTANTS
  Images,  \* [fmt, w, h, method, px, freqs, pal]; px: pixel -> channel values
  Gone,    \* 9999: the weight of a symbol that is in a tree
  MaxLoads \* bound

VARIABLES
  scratch, \* decode_rare(): one byte for each channel of each pixel
  tile,    \* the slot: [fmt, w, texels, tlut], or NoTile
  image,   \* what was loaded last
  loads

vars == <<scratch, tile, image, loads>>

NoTile == [fmt |-> "none", w |-> 0, texels |-> <<>>, tlut |-> <<>>]
Leaf == 10000
Paletted == {"CI8", "CI4", "IA16_CI8", "IA16_CI4"}
Nibbles == {"I4", "IA4", "CI4", "IA16_CI4"}
(* k_nchan, k_has1a and k_chsize: the bits of each channel of a format *)
Bits ==
  [RGBA32 |-> <<8, 8, 8, 8>>, RGBA16 |-> <<5, 5, 5, 1>>, RGB24 |-> <<8, 8, 8>>,
   RGB15 |-> <<5, 5, 5>>, IA16 |-> <<8, 8>>, IA8 |-> <<4, 4>>, IA4 |-> <<3, 1>>,
   I8 |-> <<8>>, I4 |-> <<4>>]
HasOneBit(fmt) == fmt \in {"RGBA16", "IA4"}
Coded(fmt) == Len(Bits[fmt]) - IF HasOneBit(fmt) THEN 1 ELSE 0
ChanSize(fmt) == 2^Bits[fmt][1]

UpTo(n) == [i \in 1 .. n |-> i - 1]
Fields(n, values) == [i \in 1 .. Len(values) |-> <<n, values[i]>>]
(* bits_read(): a field that is read with another width is garbage. *)
Read(s, i, bits) == IF s[i][1] = bits THEN s[i][2] ELSE 0 - 1
Values(s, n, bits) == [i \in 1 .. n |-> Read(s, i, bits)]
After(s, n) == SubSeq(s, n + 1, Len(s))
High(v) == v \div 256
Low(v) == v % 256
Word(values) == FoldLeft(LAMBDA acc, v : acc \o <<High(v), Low(v)>>, <<>>, values)
Packed(values, bits) ==   \* the raw value of a pixel
  FoldLeft(LAMBDA acc, i : acc * 2^bits[i] + values[i], 0, [i \in 1 .. Len(bits) |-> i])
(* The values of rows w wide, two to a byte; every row begins a byte. *)
Pairs(values, w) ==
  LET rows == Len(values) \div w
      half == (w + 1) \div 2
      At(row, col) == IF col < w THEN values[row * w + col + 1] ELSE 0
  IN  [i \in 1 .. rows * half |->
         LET row == (i - 1) \div half
             col == 2 * ((i - 1) % half)
         IN  At(row, col) * 16 + (At(row, col + 1) % 16)]

-------------------------------------------------------------------------------
(* inflate_huffman(): a tree is [freq, nodes, root] over the slots          *)
(* 0 .. n - 1; a slot without children is that symbol's leaf.               *)

IsLeaf(t, i) == t.nodes[i] = <<-1, -1>>
Child(t, i) == IF IsLeaf(t, i) THEN i + Leaf ELSE i

(* A weight lower than both takes the place of the higher one. *)
Lighter(m, f, i) ==
  IF f < m.f1 /\ m.f2 < m.f1 THEN [m EXCEPT !.f1 = f, !.i1 = i]
  ELSE IF f < m.f1 \/ f < m.f2 THEN [m EXCEPT !.f2 = f, !.i2 = i] ELSE m

RECURSIVE Scan(_, _, _, _)
Scan(freq, n, i, m) == IF i = n THEN m ELSE Scan(freq, n, i + 1, Lighter(m, freq[i], i))
Lightest(freq, n) == Scan(freq, n, 0, [f1 |-> Gone, i1 |-> 0, f2 |-> Gone, i2 |-> 1])

(* The first leaf that is in a tree already: its slot can hold a node. *)
FreeSlot(t, n) ==
  LET free == {i \in 0 .. n - 1 : IsLeaf(t, i) /\ t.freq[i] >= Gone} IN Min(free)

\* Mutant: a tree weighs what one half of it does.
HalfWeight(a, b) == IF a = 0 THEN 1 ELSE a

Weight(a, b) == IF a + b = 0 THEN 1 ELSE a + b

(* Two trees become one, in the slot of the first leaf of the two. *)
Merge(t, m, n) ==
  LET gone == [t EXCEPT !.freq = [@ EXCEPT ![m.i1] = Gone, ![m.i2] = Gone]]
      root == IF IsLeaf(t, m.i1) THEN m.i1
              ELSE IF IsLeaf(t, m.i2) THEN m.i2 ELSE FreeSlot(gone, n)
      other == IF root = m.i1 THEN m.i2 ELSE m.i1
      pair == IF root \in {m.i1, m.i2} THEN <<root + Leaf, Child(t, other)>> ELSE <<m.i1, m.i2>>
  IN  [freq |-> [gone.freq EXCEPT ![root] = Weight(t.freq[m.i1], t.freq[m.i2])],
       nodes |-> [t.nodes EXCEPT ![root] = pair], root |-> root]

RECURSIVE Grown(_, _)
Grown(t, n) ==
  LET m == Lightest(t.freq, n)
  IN  IF m.f1 = Gone \/ m.f2 = Gone THEN t ELSE Grown(Merge(t, m, n), n)

Tree(freqs) ==
  LET n == Len(freqs)
  IN  Grown([freq |-> [i \in 0 .. n - 1 |-> freqs[i + 1]],
             nodes |-> [i \in 0 .. n - 1 |-> <<-1, -1>>], root |-> 0], n)

(* [done, at, bad]: the symbols read, and the node the next bit is read at. *)
HuffmanBit(r, t, field) ==
  LET next == t.nodes[r.at][field[2] + 1]
  IN  IF next >= Leaf THEN [done |-> Append(r.done, next - Leaf), at |-> t.root] ELSE [r EXCEPT !.at = next]

RECURSIVE Walked(_, _, _, _)
Walked(s, t, r, count) ==
  IF Len(r.done) = count THEN [vals |-> r.done, rest |-> s]
  ELSE Walked(Tail(s), t, HuffmanBit(r, t, Head(s)), count)

InflateHuffman(s, count, size) ==
  LET t == Tree(Values(s, size, 8))
  IN  Walked(After(s, size), t, [done |-> <<>>, at |-> t.root], count)

-------------------------------------------------------------------------------
(* inflate_rle(): a value, or a run from further back and a value; a run   *)
(* shorter than its own code is not written as one.                         *)

\* Mutant: one more than fits.
FloorFudge(bt, rl, bs) == ((bt + rl + bs + 1) \div (bs + 1)) + 1

Fudge(bt, rl, bs) == (bt + rl + bs + 1 + bs) \div (bs + 1)

RECURSIVE Run(_, _, _, _)
Run(s, done, total, p) ==
  IF Len(done) >= total THEN [vals |-> done, rest |-> s]
  ELSE IF Read(s, 1, 1) = 0 THEN Run(After(s, 2), Append(done, Read(s, 2, p.bs)), total, p)
  ELSE LET back == Read(s, 2, p.bt) + 1
           run == Read(s, 3, p.rl) + Fudge(p.bt, p.rl, p.bs)
           copied == [i \in 1 .. run |-> done[Len(done) - back + 1 + ((i - 1) % back)]]
       IN  Run(After(s, 4), Append(done \o copied, Read(s, 4, p.bs)), total, p)

InflateRle(s, total) ==
  Run(After(s, 3), <<>>, total, [bt |-> Read(s, 1, 3), rl |-> Read(s, 2, 3), bs |-> Read(s, 3, 4)])

-------------------------------------------------------------------------------
(* tex_blur(): the values are what is added to a guess from the values to  *)
(* the left and above, row after row through all channels.                 *)

Guess(method, left, above, corner) ==
  LET Half(x) == IF x >= 0 THEN x \div 2 ELSE 0 - ((0 - x) \div 2)
  IN  CASE method = 0 -> left
        [] method = 1 -> above
        [] method = 2 -> corner
        [] method = 3 -> left + above - corner
        [] method = 4 -> Half(above - corner) + left
        [] method = 5 -> Half(left - corner) + above
        [] method = 6 -> Half(left + above)
        [] OTHER -> 0

GuessAt(done, i, w, method) ==   \* for the i-th value, those before it in done
  LET col == (i - 1) % w
      Value(k, there) == IF there /\ k >= 1 THEN done[k] ELSE 0
  IN  Guess(method, Value(i - 1, col > 0), Value(i - w, TRUE), Value(i - w - 1, col > 0))

\* Mutant: the guess is made of the values as they came.
BlurRaw(values, w, method, size) ==
  [i \in 1 .. Len(values) |-> (values[i] + 2 * size + GuessAt(values, i, w, method)) % size]

Blur(values, w, method, size) ==
  FoldLeft(LAMBDA done, v :
             Append(done, (v + 2 * size + GuessAt(done, Len(done) + 1, w, method)) % size),
           <<>>, values)

-------------------------------------------------------------------------------
(* inflate_lookup(), inflate_lookup_coded() and expand_lookup()            *)

BitSize(n) == Min({k \in 0 .. 8 : 2^k >= n})
ColorBits(fmt) == FoldLeft(LAMBDA sum, b : sum + b, 0, Bits[fmt])

ExpandLookup(fmt, w, lut, idx) ==
  LET value == [i \in 1 .. Len(idx) |-> lut[(IF idx[i] >= Len(lut) THEN 0 ELSE idx[i]) + 1]]
  IN  CASE fmt \in {"I8", "IA8"} -> value
        [] fmt \in {"I4", "IA4"} -> Pairs(value, w)
        [] fmt \in {"RGBA16", "IA16"} -> Word(value)
        [] fmt = "RGB15" -> Word([i \in 1 .. Len(value) |-> value[i] * 2 + 1])

Lookup(s, fmt, w, h, method) ==
  LET n == Read(s, 1, 11)
      lut == Values(After(s, 1), n, ColorBits(fmt))
      rest == After(s, n + 1)
      bits == IF n = 1 THEN 1 ELSE BitSize(n)
      idx == CASE method = "lookup" -> Values(rest, w * h, bits)
               [] method = "huffmanLookup" -> InflateHuffman(rest, w * h, n).vals
               [] method = "rleLookup" -> InflateRle(rest, w * h).vals
  IN  ExpandLookup(fmt, w, lut, idx)

-------------------------------------------------------------------------------
(* read_uncomp_tight() *)
Uncompressed(s, fmt, w, h) ==
  CASE fmt \in {"I8", "IA8"} -> Values(s, w * h, 8)
    [] fmt \in {"I4", "IA4"} -> Values(s, ((w + 1) \div 2) * h, 8)
    [] fmt \in {"RGBA16", "IA16"} -> Word(Values(s, w * h, 16))
    [] fmt = "RGB15" -> Word([i \in 1 .. w * h |-> Read(s, i, 15) * 2 + 1])
    [] fmt = "RGBA32" -> Values(s, 4 * w * h, 8)
    [] fmt = "RGB24" ->
         FoldLeft(LAMBDA acc, v : acc \o <<High(High(v)), Low(High(v)), Low(v)>>, <<>>,
                  Values(s, w * h, 24))

(* chans_to_pixels(): from one channel after the other to texels.          *)
ChansToPixels(src, fmt, w, h) ==
  LET n == w * h
      Ch(c) == SubSeq(src, c * n + 1, c * n + n)
      Each(channels) == [i \in 1 .. n * channels |-> src[((i - 1) % channels) * n + ((i - 1) \div channels) + 1]]
  IN  CASE fmt = "I8" -> Ch(0)
        [] fmt = "I4" -> Pairs(Ch(0), w)
        [] fmt = "RGBA16" ->
             Word([i \in 1 .. n |-> Ch(0)[i] * 2048 + Ch(1)[i] * 64 + Ch(2)[i] * 2 + Ch(3)[i]])
        [] fmt = "RGB15" -> Word([i \in 1 .. n |-> Ch(0)[i] * 2048 + Ch(1)[i] * 64 + Ch(2)[i] * 2 + 1])
        [] fmt = "RGB24" -> Each(3)
        [] fmt = "IA8" -> [i \in 1 .. n |-> Ch(0)[i] * 16 + (Ch(1)[i] % 16)]
        [] fmt = "IA16" -> Each(2)
        [] fmt = "IA4" -> Pairs([i \in 1 .. n |-> (Ch(0)[i] % 8) * 2 + IF Ch(1)[i] # 0 THEN 1 ELSE 0], w)
        [] fmt = "RGBA32" -> Each(4)

Overwrite(buffer, from, values) ==
  [i \in 1 .. Len(buffer) |-> IF i \in from + 1 .. from + Len(values) THEN values[i - from] ELSE buffer[i]]

(* The channels that decode_rare() leaves in its buffer: [buffer, rest].   *)
Channels(s, fmt, w, h, method, buffer) ==
  LET n == w * h
      count == Coded(fmt) * n
      size == ChanSize(fmt)
      One(d) == [buffer |-> Overwrite(buffer, 0, d.vals), rest |-> d.rest]
      Next(acc, c) == LET d == InflateHuffman(acc.rest, n, size)
                      IN  [buffer |-> Overwrite(acc.buffer, c * n, d.vals), rest |-> d.rest]
      Blurred(d) == [d EXCEPT !.vals = Blur(@, w, Read(s, 1, 3), size)]
  IN  CASE method = "huffman" -> One(InflateHuffman(s, count, size))
        [] method = "huffmanPerChannel" -> 
             FoldLeft(LAMBDA acc, c : LET a == acc IN Next(a, c), [buffer |-> buffer, rest |-> s],
                      UpTo(Coded(fmt)))
        [] method = "rle" -> One(InflateRle(s, count))
        [] method = "huffmanBlur" -> One(Blurred(InflateHuffman(After(s, 1), count, size)))
        [] method = "rleBlur" -> One(Blurred(InflateRle(After(s, 1), count)))

\* Mutant: the bits of an alpha channel are left where they are.
NoAlphaBits(d, fmt, n) == d.buffer

(* The alpha bits go to the place of a fourth channel. *)
AlphaBits(d, fmt, n) ==
  IF HasOneBit(fmt) THEN Overwrite(d.buffer, 3 * n, Values(d.rest, n, 1)) ELSE d.buffer

Raw == {"uncompressed0", "uncompressed1"}
Lookups == {"lookup", "huffmanLookup", "rleLookup"}

(* decode_rare(): [texels, buffer] *)
DecodeRare(s, buffer) ==
  LET fmt == s[1]
      w == Read(s, 2, 8)
      h == Read(s, 3, 8)
      method == s[4]
      body == After(s, 4)
  IN  IF method \in Raw THEN [fmt |-> fmt, w |-> w, texels |-> Uncompressed(body, fmt, w, h), tlut |-> <<>>, buffer |-> buffer]
      ELSE IF method \in Lookups THEN
        [fmt |-> fmt, w |-> w, texels |-> Lookup(body, fmt, w, h, method), tlut |-> <<>>, buffer |-> buffer]
      ELSE LET d == Channels(body, fmt, w, h, method, buffer)
               all == AlphaBits(d, fmt, w * h)
           IN  [fmt |-> fmt, w |-> w, texels |-> ChansToPixels(all, fmt, w, h), tlut |-> <<>>, buffer |-> all]

(* decode_zlib(): a palette, and the indices behind the 1172 of a room. *)
DecodeZlib(s, buffer) ==
  LET fmt == s[1]
      n == Read(s, 2, 8) + 1
      w == Read(s, n + 3, 8)
      h == Read(s, n + 4, 8)
  IN  [fmt |-> fmt, w |-> w, texels |-> s[n + 5], tlut |-> Values(After(s, 2), n, 16),
       buffer |-> buffer]

(* texel_need(), g1_tex_load_bank() and g1_tex_load_raw(): what is behind   *)
(* the texels is not kept.                                                  *)
Need(fmt, n) ==
  IF fmt \in Nibbles THEN (n + 1) \div 2
  ELSE IF fmt \in Paletted THEN n
  ELSE n * (IF fmt = "RGB15" THEN 2 ELSE ColorBits(fmt) \div 8)

LoadBank(d, n) ==
  IF Len(d.texels) < Need(d.fmt, n) THEN NoTile
  ELSE [fmt |-> d.fmt, w |-> d.w, texels |-> SubSeq(d.texels, 1, Need(d.fmt, n)), tlut |-> d.tlut]

-------------------------------------------------------------------------------
(* g1_tex_sample_slot() at a texel *)

Five(v) == v * 8 + (v \div 4)
Rgba5551(c) ==
  <<Five(c \div 2048), Five((c \div 64) % 32), Five((c \div 2) % 32), (c % 2) * 255>>
Gray(i, a) == <<i, i, i, a>>

\* Mutant: the first texel of a byte is taken from its low half.
NibbleLow(texels, i) == IF i % 2 = 0 THEN texels[(i \div 2) + 1] % 16 ELSE texels[(i \div 2) + 1] \div 16

(* The first texel of a byte is its high half; rows do not begin bytes. *)
Nibble(texels, i) == IF i % 2 = 1 THEN texels[(i \div 2) + 1] % 16 ELSE texels[(i \div 2) + 1] \div 16

Sample(t, i) ==
  LET pix == IF t.fmt \in Nibbles THEN Nibble(t.texels, i) ELSE t.texels[i + 1]
      Byte(size, k) == t.texels[i * size + k]
      color == IF t.fmt \in Paletted THEN t.tlut[(IF pix >= Len(t.tlut) THEN 0 ELSE pix) + 1]
               ELSE IF t.fmt \in {"RGBA16", "RGB15"} THEN Byte(2, 1) * 256 + Byte(2, 2) ELSE 0
  IN  CASE t.fmt = "I8" -> Gray(pix, 255)
        [] t.fmt = "I4" -> Gray(pix * 17, 255)
        [] t.fmt = "IA8" -> Gray((pix \div 16) * 17, (pix % 16) * 17)
        [] t.fmt = "IA4" -> Gray(((pix \div 2) * 255) \div 7, (pix % 2) * 255)
        [] t.fmt = "IA16" -> Gray(Byte(2, 1), Byte(2, 2))
        [] t.fmt \in {"IA16_CI4", "IA16_CI8"} -> Gray(High(color), Low(color))
        [] t.fmt \in {"CI4", "CI8"} -> Rgba5551(color)
        [] t.fmt = "RGBA16" -> Rgba5551(color)
        [] t.fmt = "RGB15" -> [Rgba5551(color) EXCEPT ![4] = 255]
        [] t.fmt = "RGB24" -> <<Byte(3, 1), Byte(3, 2), Byte(3, 3), 255>>
        [] t.fmt = "RGBA32" -> <<Byte(4, 1), Byte(4, 2), Byte(4, 3), Byte(4, 4)>>

-------------------------------------------------------------------------------
(* The tool that made the textures.  Its Huffman trees are those of the     *)
(* code; what makes them trees is stated below.                             *)

RECURSIVE CodesFrom(_, _, _)
CodesFrom(t, i, path) ==
  IF i >= Leaf THEN {<<i - Leaf, path>>}
  ELSE CodesFrom(t, t.nodes[i][1], Append(path, 0)) \cup CodesFrom(t, t.nodes[i][2], Append(path, 1))
Codes(freqs) == LET t == Tree(freqs) IN CodesFrom(t, t.root, <<>>)

Huffman(values, freqs) ==
  LET codes == Codes(freqs)
      code == [v \in ToSet(values) |-> (CHOOSE c \in codes : c[1] = v)[2]]
  IN  Fields(8, freqs) \o FoldLeft(LAMBDA acc, v : acc \o Fields(1, code[v]), <<>>, values)

(* Every run that is longer than its code is written as one. *)
RECURSIVE Runs(_, _, _)
Runs(values, i, p) ==
  LET least == Min({k \in 1 .. 20 : k * (p.bs + 1) >= p.bt + p.rl + p.bs + 1})
      runs == {<<b, k>> \in (0 .. 2^p.bt - 1) \X (least .. least + 2^p.rl - 1) :
                 /\ i - b - 1 >= 1 /\ i + k <= Len(values)
                 /\ \A j \in 0 .. k - 1 : values[i + j] = values[i + j - b - 1]}
  IN  IF i > Len(values) THEN <<>>
      ELSE IF runs = {} THEN <<<<1, 0>>, <<p.bs, values[i]>>>> \o Runs(values, i + 1, p)
      ELSE LET r == CHOOSE r \in runs : \A q \in runs : q[2] <= r[2]
           IN  <<<<1, 1>>, <<p.bt, r[1]>>, <<p.rl, r[2] - least>>, <<p.bs, values[i + r[2]]>>>>
                 \o Runs(values, i + r[2] + 1, p)

Rle(values, bits) ==
  LET p == [bt |-> 2, rl |-> 2, bs |-> bits]
  IN  <<<<3, p.bt>>, <<3, p.rl>>, <<4, p.bs>>>> \o Runs(values, 1, p)

Blurred(values, w, method, size) ==
  [i \in 1 .. Len(values) |-> (values[i] + 2 * size - GuessAt(values, i, w, method)) % size]

Body(img) ==
  LET n == img.w * img.h
      bits == Bits[img.fmt]
      raw == [i \in 1 .. n |-> Packed(img.px[i], bits)]
      chans == [i \in 1 .. Coded(img.fmt) * n |-> img.px[((i - 1) % n) + 1][((i - 1) \div n) + 1]]
      alpha == IF HasOneBit(img.fmt) THEN Fields(1, [i \in 1 .. n |-> Last(img.px[i])]) ELSE <<>>
      colors == SetToSeq(ToSet(raw))
      index == [i \in 1 .. n |-> (CHOOSE k \in DOMAIN colors : colors[k] = raw[i]) - 1]
      count == Len(colors)
      lut == <<<<11, count>>>> \o Fields(ColorBits(img.fmt), colors)
      size == ChanSize(img.fmt)
      blur == 3
      soft == Blurred(chans, img.w, blur, size)
  IN  CASE img.method \in Raw ->
             (CASE img.fmt \in Nibbles -> Fields(8, Pairs(raw, img.w))
                [] img.fmt = "RGBA32" -> Fields(8, FoldLeft(LAMBDA acc, p : acc \o p, <<>>, img.px))
                [] OTHER -> Fields(ColorBits(img.fmt), raw))
        [] img.method = "huffman" -> Huffman(chans, img.freqs) \o alpha
        [] img.method = "huffmanPerChannel" ->
             FoldLeft(LAMBDA acc, c : acc \o Huffman(SubSeq(chans, c * n + 1, c * n + n), img.freqs),
                      <<>>, UpTo(Coded(img.fmt))) \o alpha
        [] img.method = "rle" -> Rle(chans, bits[1]) \o alpha
        [] img.method = "huffmanBlur" -> <<<<3, blur>>>> \o Huffman(soft, img.freqs) \o alpha
        [] img.method = "rleBlur" -> <<<<3, blur>>>> \o Rle(soft, bits[1]) \o alpha
        [] img.method = "lookup" ->
             lut \o Fields(Min({k \in 1 .. 8 : 2^k >= count}), index)
        [] img.method = "huffmanLookup" -> lut \o Huffman(index, SubSeq(img.freqs, 1, count))
        [] img.method = "rleLookup" -> lut \o Rle(index, 4)

Encoded(img) ==
  IF img.method # "zlib"
    THEN <<img.fmt, <<8, img.w>>, <<8, img.h>>, img.method>> \o Body(img)
  ELSE LET bits == IF img.fmt \in {"CI4", "CI8"} THEN Bits["RGBA16"] ELSE Bits["IA16"]
           pal == [i \in 1 .. Len(img.pal) |-> Packed(img.pal[i], bits)]
       IN  <<img.fmt, <<8, Len(pal) - 1>>>> \o Fields(16, pal) \o <<<<8, img.w>>, <<8, img.h>>>>
             \o <<IF img.fmt \in Nibbles THEN Pairs(img.px, img.w) ELSE img.px>>

Streams == [img \in Images |-> Encoded(img)]

-------------------------------------------------------------------------------
Init ==
  /\ scratch = [i \in 1 .. 16 |-> 0]   \* of four pixels
  /\ tile = NoTile /\ image = [method |-> "none"] /\ loads = 0

(* load_from_pack(): a texture is decoded and put into its slot. *)
Load ==
  /\ loads < MaxLoads /\ loads' = loads + 1
  /\ \E img \in Images :
       LET stream == Streams[img]
           d == IF img.method = "zlib" THEN DecodeZlib(stream, scratch) ELSE DecodeRare(stream, scratch)
       IN  /\ scratch' = d.buffer
           /\ tile' = LoadBank(d, img.w * img.h)
           /\ image' = img

Spec == Init /\ [][Load]_vars

-------------------------------------------------------------------------------
(* The channels of a sample, and their bits: 0 is opaque. *)
Shows(fmt) ==
  CASE fmt \in {"I8", "I4"} -> <<1, 1, 1, 0>>
    [] fmt \in {"IA16", "IA8", "IA4"} -> <<1, 1, 1, 2>>
    [] fmt \in {"RGB24", "RGB15"} -> <<1, 2, 3, 0>>
    [] OTHER -> <<1, 2, 3, 4>>

(* v of 2^bits - 1 is s of 255, give or take one. *)
Near(v, bits, s) ==
  LET full == 2^bits - 1
      off == s * full - 255 * v
  IN  off <= full /\ 0 - off <= full

AlphaLost(img) == img.fmt = "IA4" /\ img.method \notin Raw \cup Lookups

(* A texture is sampled as it was drawn, whatever its format and encoding   *)
(* and whatever was decoded before.  Alpha of IA4 is an exception: its bits *)
(* go behind three channels and are looked for behind one.                  *)
AsMade ==
  image.method # "none" =>
    /\ tile # NoTile
    /\ \A i \in 1 .. image.w * image.h :
         LET fmt == CASE image.fmt \in {"CI4", "CI8"} -> "RGBA16"
                      [] image.fmt \in {"IA16_CI4", "IA16_CI8"} -> "IA16"
                      [] OTHER -> image.fmt
             px == IF image.fmt \in Paletted THEN image.pal[image.px[i] + 1] ELSE image.px[i]
             s == Sample(tile, i - 1)
         IN  \A c \in 1 .. 4 :
               LET k == Shows(fmt)[c]
               IN  IF k = 0 THEN s[c] = 255
                   ELSE (c = 4 /\ AlphaLost(image)) \/ Near(px[k], Bits[fmt][k], s[c])

(* Every symbol of a Huffman tree has one code, and if all of them occur,   *)
(* no other code is shorter.                                                *)
RECURSIVE LeastCost(_)
LeastCost(weights) ==   \* a sequence in order
  IF Len(weights) <= 1 THEN 0
  ELSE LET sum == weights[1] + weights[2]
       IN  sum + LeastCost(SortSeq(Append(After(weights, 2), sum), LAMBDA a, b : a < b))

BestCodes ==
  image.method \in {"huffman", "huffmanLookup"} =>
    LET freqs == image.freqs
        codes == Codes(freqs)
    IN  /\ {c[1] : c \in codes} = 0 .. Len(freqs) - 1 /\ Cardinality(codes) = Len(freqs)
        /\ (\A i \in DOMAIN freqs : freqs[i] > 0) =>
             MapThenSumSet(LAMBDA c : freqs[c[1] + 1] * Len(c[2]), codes)
               = LeastCost(SortSeq(freqs, LAMBDA a, b : a < b))
===============================================================================
