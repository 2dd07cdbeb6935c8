-------------------------------- MODULE Archive --------------------------------
(***************************************************************************)
(* From a ROM to the files the engine reads, done twice: in the browser    *)
(* (byteswap.ts, extract.ts, csv.ts, imagelist.ts, pack.ts) and by the     *)
(* developer's tool (extract.c, filelist.c, c0pack.c).  The hash of a pack *)
(* is what a lobby compares, so both must make the same pack; the engine   *)
(* (c0pack.c, pack_dma.c) must read back what was put in, and a DMA from   *)
(* the pack must bring what the same DMA brings from the ROM (rom_dma.c).  *)
(*                                                                         *)
(* Abstracted: the byte layout of a pack, a hash (its argument), inflation *)
(* (one file of three bytes per stream), the text of the lists, names (in  *)
(* the order of their bytes).  Lists are well-formed and name no file      *)
(* twice.                                                                  *)
(***************************************************************************)
EXTENDS Integers, Sequences, SequencesExt, FiniteSets

CONSTANTS
  Roms,      \* byte sequences that may be dropped on the page
  Names,     \* sequence of the paths, in the order of their bytes
  EndsIn,    \* EndsIn[p]: last components that the bytes of path p end in
  Component,      \* Component[p]: the last component of path p
  FileLists, \* sequences of rows [offset, size, name, compressed]
  ImageLists,\* sequences of rows [offset, size]
  ImageDefs, \* sequences of paths: images.def
  AnimTable, \* rows that are packed though the list may lack them
  Addresses, \* <<top nibble, rest>> that a DMA may name
  NoFile,    \* there is none, or not yet
  Unusable   \* what a step answers when it fails

VARIABLES
  given,     \* the ROM and the lists
  web, tool, \* files taken out by the two extractors, Unusable, or NoFile
  pack,      \* the two packs, or NoFile
  read       \* what the engine has of the pack, and the last DMA

vars == <<given, web, tool, pack, read>>

Slice(b, off, size) == SubSeq(b, off + 1, off + size)
File(path, bytes) == [path |-> path, bytes |-> bytes]
Rank(path) == CHOOSE i \in DOMAIN Names : Names[i] = path
Inflated(b) == <<0>> \o SubSeq(b, 3, 3)
Anim(name) == \E i \in DOMAIN AnimTable : AnimTable[i].name = name

-------------------------------------------------------------------------------
Pairwise(b) == [i \in DOMAIN b |-> IF i % 2 = 1 THEN b[i + 1] ELSE b[i - 1]]
FourBack(b) == [i \in DOMAIN b |-> LET block == (i - 1) \div 4 IN b[8 * block + 5 - i]]

(* detectEndian() and toZ64() of byteswap.ts *)
ToZ64(b) ==
  IF Len(b) < 4 THEN Unusable
  ELSE CASE SubSeq(b, 1, 2) = <<128, 55>> -> b
         [] SubSeq(b, 1, 2) = <<55, 128>> /\ Len(b) % 2 = 0 -> Pairwise(b)
         [] SubSeq(b, 1, 2) = <<64, 18>> /\ Len(b) % 4 = 0 -> FourBack(b)
         [] OTHER -> Unusable

(* detect_z64() of extract.c swaps in place. *)
DetectZ64(b) ==
  LET Swap(width) == FoldLeft(LAMBDA out, k : out \o Reverse(Slice(b, width * k, width)), <<>>,
                              [k \in 1 .. Len(b) \div width |-> k - 1])
  IN  CASE Len(b) < 4 -> Unusable
        [] Len(b) >= 4 /\ b[1] = 128 /\ b[2] = 55 -> b
        [] Len(b) >= 4 /\ b[1] = 55 /\ b[2] = 128 -> IF Len(b) % 2 # 0 THEN Unusable ELSE Swap(2)
        [] Len(b) >= 4 /\ b[1] = 64 /\ b[2] = 18 -> IF Len(b) % 4 # 0 THEN Unusable ELSE Swap(4)
        [] OTHER -> Unusable

-------------------------------------------------------------------------------
(* pull() and extract_row(): one row's bytes, NoFile for a missing rest     *)
(* pose, or a refusal.                                                      *)
Pull(rom, row) ==
  IF row.offset + row.size > Len(rom) THEN (IF Anim(row.name) THEN NoFile ELSE Unusable)
  ELSE IF ~row.compressed THEN Slice(rom, row.offset, row.size)
  ELSE IF row.size <= 2 THEN Unusable
  ELSE Inflated(Slice(rom, row.offset, row.size))

Taken(out, path, bytes) ==
  CASE out = Unusable \/ bytes = Unusable -> Unusable
    [] out # Unusable /\ bytes = NoFile -> out
    [] OTHER -> Append(out, File(path, bytes))
HasPath(out, path) == out # Unusable /\ \E i \in DOMAIN out : out[i].path = path

(* extractRows() *)
ExtractRows(rom, rows, out) ==
  FoldLeft(LAMBDA q, row : IF row.size = 0 THEN q ELSE Taken(q, row.name, Pull(rom, row)), out, rows)

\* Mutant: rows without bytes have no name of their own.
SyncSkipping(names, offsets) ==
  LET full == SelectSeq(offsets, LAMBDA r : r.size > 0)
  IN  [i \in 1 .. (IF Len(names) < Len(full) THEN Len(names) ELSE Len(full)) |->
         [offset |-> full[i].offset, size |-> full[i].size, name |-> names[i], compressed |-> FALSE]]

(* syncImagelist(): the i-th name with the i-th row. *)
SyncImagelist(names, offsets) ==
  [i \in 1 .. (IF Len(names) < Len(offsets) THEN Len(names) ELSE Len(offsets)) |->
     [offset |-> offsets[i].offset, size |-> offsets[i].size, name |-> names[i], compressed |-> FALSE]]

(* extractAnimTables(), and the same loop of the tool *)
AnimTables(rom, out) ==
  FoldLeft(LAMBDA q, row : IF q = Unusable \/ HasPath(q, row.name) \/ row.offset + row.size > Len(rom) THEN q
                           ELSE Append(q, File(row.name, Slice(rom, row.offset, row.size))), out, AnimTable)

(* add_images(): the row number counts rows without bytes too; a row out of *)
(* the ROM is left out.                                                     *)
AddImages(rom, names, offsets, out) ==
  FoldLeft(LAMBDA q, i :
             LET o == offsets[i]
             IN  IF q = Unusable \/ o.size = 0 \/ i > Len(names) THEN q
                 ELSE IF HasPath(q, names[i]) \/ o.offset + o.size > Len(rom) THEN q
                 ELSE Append(q, File(names[i], Slice(rom, o.offset, o.size))), out, [i \in DOMAIN offsets |-> i])

(* extractRom() *)
ExtractRom(g) ==
  LET rom == ToZ64(g.rom)
      files == ExtractRows(rom, g.files, <<>>)
  IN  IF rom = Unusable THEN Unusable
      ELSE AnimTables(rom, ExtractRows(rom, SyncImagelist(g.names, g.images), files))

(* main() of the tool *)
ExtractTool(g) ==
  LET rom == DetectZ64(g.rom)
  IN  IF rom = Unusable THEN Unusable
      ELSE AddImages(rom, g.names, g.images, AnimTables(rom, ExtractRows(rom, g.files, <<>>)))

-------------------------------------------------------------------------------
Sha(x) == <<"sha", x>>
ByPath(files) == SortSeq(files, LAMBDA a, b : Rank(a.path) < Rank(b.path))
Lengths(entries) == FoldLeft(LAMBDA n, e : n + e.size, 0, entries)

(* canonicalManifest() has no offsets. *)
Canonical(entries) == [i \in DOMAIN entries |-> <<entries[i].path, entries[i].size, entries[i].sha>>]

\* Mutant: files are packed in the order they were taken out.
BuildUnsorted(files) ==
  LET entries == [i \in DOMAIN files |->
                    [path |-> files[i].path, size |-> Len(files[i].bytes), sha |-> Sha(files[i].bytes),
                     off |-> FoldLeft(LAMBDA n, f : n + Len(f.bytes), 0, SubSeq(files, 1, i - 1))]]
      hash == Sha(Canonical(entries))
  IN  [hash |-> hash, entries |-> entries,
       blob |-> Append(FoldLeft(LAMBDA q, f : q \o f.bytes, <<>>, files), hash)]

(* buildPack() and c0pack_build(): the hash stands before and behind the    *)
(* files, the last element of the blob here.                                *)
Build(files) == LET sorted == ByPath(files) IN BuildUnsorted(sorted)

(* parsePack(): the blob ends where the farthest file ends. *)
ParsePack(p) ==
  LET ends == {p.entries[i].off + p.entries[i].size : i \in DOMAIN p.entries} \cup {0}
      far == CHOOSE e \in ends : \A o \in ends : o <= e
      Bytes(i) == Slice(p.blob, p.entries[i].off, p.entries[i].size)
      sorted == SortSeq(p.entries, LAMBDA a, b : Rank(a.path) < Rank(b.path))
  IN  IF far + 1 > Len(p.blob) \/ p.blob[far + 1] # p.hash \/ p.hash # Sha(Canonical(sorted))
         \/ \E i \in DOMAIN p.entries : Sha(Bytes(i)) # p.entries[i].sha
      THEN Unusable
      ELSE [i \in DOMAIN p.entries |-> File(p.entries[i].path, Bytes(i))]

(* c0pack_validate() and c0pack_open(): the blob is as long as all files    *)
(* together, and the manifest is hashed as it stands.                       *)
Open(p) ==
  LET total == Lengths(p.entries)
      Bytes(i) == Slice(p.blob, p.entries[i].off, p.entries[i].size)
  IN  IF total + 1 > Len(p.blob) \/ p.blob[total + 1] # p.hash \/ p.hash # Sha(Canonical(p.entries))
         \/ \E i \in DOMAIN p.entries : Sha(Bytes(i)) # p.entries[i].sha
      THEN Unusable
      ELSE [i \in DOMAIN p.entries |-> File(p.entries[i].path, Bytes(i))]

(* c0pack_find_tail(): the first file whose path ends in the name's last    *)
(* component.                                                               *)
FindTail(files, name) ==
  LET hits == {i \in DOMAIN files : Component[name] \in EndsIn[files[i].path]}
  IN  IF hits = {} THEN NoFile ELSE files[CHOOSE i \in hits : \A j \in hits : i <= j].bytes

(* c0pack_find() *)
Find(files, name) ==
  LET hits == {i \in DOMAIN files : files[i].path = name}
  IN  IF hits = {} THEN FindTail(files, name) ELSE files[CHOOSE i \in hits : \A j \in hits : i <= j].bytes

-------------------------------------------------------------------------------
(* port_pack_devaddr_to_offset(), in windows of the cartridge *)
ToOffset(a) == IF a[1] \in {11, 9, 1} THEN <<0, a[2]>> ELSE a

(* port_filelist_find_offset(): the first row that holds the whole range *)
RowAt(rows, off, size) ==
  LET hits == {i \in DOMAIN rows : off >= rows[i].offset /\ off + size <= rows[i].offset + rows[i].size}
  IN  IF hits = {} THEN NoFile ELSE rows[CHOOSE i \in hits : \A j \in hits : i <= j]

(* port_pack_dma() and port_pack_dma_named() *)
PackDma(files, rows, a, size) ==
  LET off == ToOffset(a)
      row == IF off[1] # 0 THEN NoFile ELSE RowAt(rows, off[2], size)
      bytes == IF row = NoFile THEN NoFile ELSE Find(files, row.name)
  IN  IF bytes = NoFile THEN Unusable
      ELSE IF off[2] - row.offset + size > Len(bytes) THEN Unusable
      ELSE Slice(bytes, off[2] - row.offset, size)

(* port_rom_dma() *)
RomDma(rom, a, size) ==
  LET off == ToOffset(a)
  IN  IF off[1] # 0 \/ off[2] + size > Len(rom) THEN Unusable ELSE Slice(rom, off[2], size)

Unread == [files |-> NoFile, parsed |-> NoFile, dma |-> NoFile]

Init ==
  /\ given \in [rom : Roms, files : FileLists, images : ImageLists, names : ImageDefs]
  /\ web = NoFile /\ tool = NoFile /\ pack = NoFile /\ read = Unread

Extract ==
  /\ web = NoFile /\ web' = ExtractRom(given) /\ tool' = ExtractTool(given)
  /\ UNCHANGED <<given, pack, read>>

Pack ==
  /\ web \notin {NoFile, Unusable} /\ tool # Unusable /\ pack = NoFile
  /\ pack' = [web |-> Build(web), tool |-> Build(tool)]
  /\ UNCHANGED <<given, web, tool, read>>

(* port_init(), and parsePack() of a stored pack *)
OpenPack ==
  /\ pack # NoFile /\ read = Unread
  /\ read' = [files |-> Open(pack.web), parsed |-> ParsePack(pack.web), dma |-> NoFile]
  /\ UNCHANGED <<given, web, tool, pack>>

(* osPiStartDma() of an uncompressed range, in the two builds *)
Dma ==
  /\ read.files \notin {NoFile, Unusable}
  /\ \E a \in Addresses, size \in 0 .. 2 :
       LET row == RowAt(given.files, a[2], size)
       IN  /\ row # NoFile => ~row.compressed
           /\ read' = [read EXCEPT !.dma =
                [pack |-> PackDma(read.files, given.files, a, size),
                 rom |-> RomDma(ToZ64(given.rom), a, size)]]
  /\ UNCHANGED <<given, web, tool, pack>>

Next == Extract \/ Pack \/ OpenPack \/ Dma
Spec == Init /\ [][Next]_vars

-------------------------------------------------------------------------------
(* Either extractor refuses a ROM, or both make the same pack, whatever     *)
(* order they took the files out in.                                        *)
SamePack ==
  /\ web = Unusable <=> tool = Unusable
  /\ pack # NoFile => pack.web = pack.tool

(* The pack is accepted by both readers and has every file, under its own   *)
(* name; a DMA it answers brings the bytes of the ROM.                      *)
ReadsBack ==
  read.files # NoFile =>
    /\ read.files = ByPath(web) /\ read.parsed = read.files
    /\ \A i \in DOMAIN web : Find(read.files, web[i].path) = web[i].bytes
    /\ read.dma # NoFile => read.dma.pack \in {Unusable, read.dma.rom}
===============================================================================
