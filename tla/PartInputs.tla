------------------------------ MODULE PartInputs -------------------------------
(***************************************************************************)
(* What two parts of MCParts are checked with.  The stage files for        *)
(* StageFile: every order of the fields of two rooms, three rooms one      *)
(* after the other, one field that cannot be inflated, and tiles linked to *)
(* every head and point of others, found in each of the four ways and one  *)
(* too many for the table.  And a stair for Floors.                        *)
(***************************************************************************)
EXTENDS Integers, Sequences, FiniteSets, TLC

CONSTANT NoFile  \* of StageFile

(* The fields in the order of `order', one behind the other; `bad' cannot be *)
(* inflated.                                                                *)
FieldLen(name) == IF name[1] = "vtx" THEN 1 ELSE IF name[1] = "pri" THEN 2 ELSE 3
FieldsIn(order, bad) ==
  LET At[k \in 1 .. Len(order)] == IF k = 1 THEN 8 ELSE At[k - 1] + FieldLen(order[k - 1])
  IN  [k \in 1 .. Len(order) |->
         [at |-> At[k], len |-> FieldLen(order[k]), id |-> k, packed |-> TRUE,
          good |-> order[k] # bad, name |-> order[k]]]

BgFile(order, magic, bad, n, portals) ==
  LET fields == FieldsIn(order, bad)
      Of(name, i) ==
        LET k == {k \in 1 .. Len(order) : order[k] = <<name, i>>}
        IN  IF k = {} THEN 0 ELSE fields[CHOOSE x \in k : TRUE].at
  IN  [size |-> fields[Len(order)].at + 5, magic |-> magic,
       fields |-> {fields[k] : k \in 1 .. Len(order)},
       rooms |-> [i \in 1 .. n + 1 |->
                    [vtx |-> Of("vtx", i), pri |-> Of("pri", i), sec |-> Of("sec", i)]],
       portals |-> portals]

AllGood == <<"-", 0>>
Orders(names) ==
  {o \in [1 .. Cardinality(names) -> names] : \A a \in names : \E k \in DOMAIN o : o[k] = a}
Kinds == {"vtx", "pri", "sec"}
InRooms(rooms) == Orders(Kinds \X rooms)
Drawn2 == {"vtx", "pri"} \X {2}

Quad(at, a, b, dx, dz) ==
  [at |-> at, a |-> a, b |-> b, points |-> 4, dx |-> dx, dy |-> 200, dz |-> dz]
Quads ==
  <<Quad(3, 1, 2, 90, 4), Quad(3, 0, 2, 90, 4), Quad(3, 2, 1, 20, 300), Quad(0, 0, 0, 0, 0)>>

(* Four tiles; the second edge of a tile leads to another or nowhere. *)
TilePoints == <<3, 4, 3, 3>>
TileHead == <<16, 20, 25, 29>>
Nowhere == <<0, 0>>
ToTile(j) == {j} \X (0 .. TilePoints[j])
StanFile(size, pointer, low, to) ==
  LET Second(j, k, v) == IF k = 2 /\ to[j] # Nowhere THEN v ELSE 0
  IN  [size |-> size, at |-> 16, pointer |-> pointer, low |-> low, points |-> TilePoints,
       links |-> [j \in 1 .. 4 |-> [k \in 1 .. TilePoints[j] |->
                    Second(j, k, TileHead[to[j][1]] + to[j][2])]],
       named |-> [j \in 1 .. 4 |-> [k \in 1 .. TilePoints[j] |-> Second(j, k, to[j][1])]]]

PlainStan == StanFile(33, 16, FALSE, [j \in 1 .. 4 |-> Nowhere])
PlainBg ==
  BgFile(<<<<"vtx", 1>>, <<"pri", 1>>, <<"vtx", 2>>, <<"pri", 2>>>>, "0", AllGood, 2, Quads)

StageFiles ==
  {[bg |-> BgFile(o, m, AllGood, 2, Quads), stan |-> PlainStan] :
     o \in InRooms({1, 2}), m \in {"0", "G1DL"}}
  \cup {[bg |-> BgFile(a \o b \o c, m, AllGood, 3, <<>>), stan |-> PlainStan] :
          a \in InRooms({1}), b \in InRooms({2}) \cup Orders(Drawn2), c \in InRooms({3}),
          m \in {"0", "G1DL"}}
  \cup {[bg |-> BgFile(o, "0", bad, 2, Quads), stan |-> PlainStan] :
          o \in Orders({"vtx", "pri"} \X {1, 2}), bad \in Kinds \X {1, 2}}
  \cup {[bg |-> PlainBg, stan |-> StanFile(size, p, low, <<a, b, c, Nowhere>>)] :
          size \in {32, 33}, p \in {0, 16, 400}, low \in BOOLEAN,
          a \in {Nowhere} \cup ToTile(2) \cup ToTile(4),
          b \in {Nowhere} \cup ToTile(1) \cup ToTile(3), c \in {Nowhere} \cup ToTile(1)}
  \cup {[bg |-> NoFile, stan |-> PlainStan], [bg |-> PlainBg, stan |-> NoFile]}

-------------------------------------------------------------------------------
(* A stair in TLC's terms: a hall at eye 60, two steps, and a gallery at    *)
(* eye 270 over two places of the hall; behind the hall, under a ledge no   *)
(* link leads up to, a nook that is linked to the hall.                     *)
Mesh ==
  [hall    |-> {<<0, 0>>, <<1, 0>>, <<2, 0>>, <<2, 1>>, <<3, 1>>},
   step1   |-> {<<0, 1>>},
   step2   |-> {<<1, 1>>},
   gallery |-> {<<2, 1>>, <<3, 1>>},
   nook    |-> {<<-1, 0>>},
   ledge   |-> {<<-1, 0>>, <<-2, 0>>}]
Heights ==
  [hall |-> 60, step1 |-> 130, step2 |-> 200, gallery |-> 270, nook |-> 60, ledge |-> 379]
Landings ==
  [t \in DOMAIN Mesh |->
     [at |-> IF t = "ledge" THEN <<-2, 0>> ELSE CHOOSE c \in Mesh[t] : TRUE, tile |-> t]]

OneWay ==
  (<<"hall", <<0, 0>>, <<0, 1>>>> :> "step1") @@
  (<<"step1", <<0, 1>>, <<1, 1>>>> :> "step2") @@
  (<<"step2", <<1, 1>>, <<2, 1>>>> :> "gallery") @@
  (<<"hall", <<0, 0>>, <<-1, 0>>>> :> "nook")
Links ==
  OneWay @@
  [k \in {<<OneWay[e], e[3], e[2]>> : e \in DOMAIN OneWay} |->
     (CHOOSE e \in DOMAIN OneWay : e[2] = k[3] /\ e[3] = k[2])[1]]

StairFoot == {<<0, 0>>}
Overlaps == {<<"hall", "ledge">>}
===============================================================================
