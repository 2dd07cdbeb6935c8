---------------------------------- MODULE Boot ----------------------------------
(***************************************************************************)
(* How a page comes to have an engine (main.ts, idb.ts, verify.ts, the     *)
(* worker of the extractor, bridge.ts): the pack stored by an earlier      *)
(* visit is opened while ROMs may be dropped, and each of these flows      *)
(* stops at every await.  The hash of the pack is what the page shows to a *)
(* lobby, the engine is what it plays.                                     *)
(*                                                                         *)
(* Abstracted: the bytes of a ROM and a pack (a pack is its ROM and the    *)
(* extractor that made it), messages, progress.  A write to the store may  *)
(* fail; the page may be closed at any step and opened again, with a newer *)
(* extractor.                                                              *)
(***************************************************************************)
EXTENDS Integers, Sequences, FiniteSets

CONSTANTS
  FileFlows,   \* flows that begin with a dropped or a picked file
  Region,      \* Region[rom]: what verifyRom() makes of a file
  Extractors,  \* 1 .. n, in the order of their release
  NoPack

ASSUME BootAssumption == "visit" \notin FileFlows /\ 1 \in Extractors

VARIABLES
  flow,    \* FileFlows and "visit" -> where the flow waits, and the pack it has
  store,   \* IndexedDB: lastPackHash and the packs
  engines, \* instances of the engine that the page has made
  game,    \* the index of the page's engine, or 0
  shown,   \* lastPackHash of the page
  release  \* the extractor of the page

bootVars == <<flow, store, engines, game, shown, release>>

Flows == FileFlows \cup {"visit"}
Packs == {rom \in DOMAIN Region : Region[rom] = "U"} \X Extractors
At(where, pack) == [at |-> where, pack |-> pack]
Over == At("over", NoPack)
Goes(f, to) == flow' = [flow EXCEPT ![f] = to]
Unready == [pack |-> NoPack, ready |-> FALSE]

-------------------------------------------------------------------------------
(* The page is opened: the first await is that of kvGet(). *)
Opened == [f \in Flows |-> IF f = "visit" THEN At("kvGet", NoPack) ELSE Over]

BootInit ==
  /\ flow = Opened /\ store = [last |-> NoPack, packs |-> {}]
  /\ engines = <<>> /\ game = 0 /\ shown = NoPack /\ release = 1

(* A page is closed, whatever it was doing, and opened again. *)
Reload ==
  /\ flow' = Opened /\ engines' = <<>> /\ game' = 0 /\ shown' = NoPack
  /\ release' \in {r \in Extractors : r >= release}
  /\ UNCHANGED store

-------------------------------------------------------------------------------
(* The flow of a visit: kvGet(), which may fail, and packGet(). *)
KvGet ==
  /\ flow["visit"].at = "kvGet"
  /\ \/ Goes("visit", Over)
     \/ store.last # NoPack /\ Goes("visit", At("packGet", store.last))
  /\ UNCHANGED <<store, engines, game, shown, release>>

PackGet ==
  /\ flow["visit"].at = "packGet"
  /\ LET hash == flow["visit"].pack
     IN  Goes("visit", IF hash \in store.packs THEN At("start", hash) ELSE At("missing", hash))
  /\ UNCHANGED <<store, engines, game, shown, release>>

(* ingest(): the file waits for a frame, then for its digest; a file that   *)
(* is not the ROM of the region is refused.                                 *)
Drop(f) ==
  /\ flow[f] = Over
  /\ \E rom \in DOMAIN Region : Goes(f, At("verify", <<rom, release>>))
  /\ UNCHANGED <<store, engines, game, shown, release>>

Verify(f) ==
  /\ flow[f].at = "verify"
  /\ Goes(f, IF Region[flow[f].pack[1]] = "U" THEN At("extract", flow[f].pack) ELSE Over)
  /\ UNCHANGED <<store, engines, game, shown, release>>

(* extractRom() in a worker, which may fail, and buildPack() *)
Extract(f) ==
  /\ flow[f].at = "extract"
  /\ \/ Goes(f, At("put", flow[f].pack))
     \/ Goes(f, Over)
  /\ UNCHANGED <<store, engines, game, shown, release>>

\* Mutant: the hash is stored before its pack.
StoreHashFirst(s, at, hash) ==
  IF at = "put" THEN [s EXCEPT !.last = hash] ELSE [s EXCEPT !.packs = @ \cup {hash}]

(* packPut() and, when that is done, kvSet() *)
Stored(s, at, hash) ==
  IF at = "put" THEN [s EXCEPT !.packs = @ \cup {hash}] ELSE [s EXCEPT !.last = hash]

(* A write that fails ends the storing, not the flow. *)
Store(f) ==
  /\ flow[f].at \in {"put", "note"}
  /\ LET hash == flow[f].pack
     IN  \/ /\ store' = Stored(store, flow[f].at, hash)
            /\ Goes(f, At(IF flow[f].at = "put" THEN "note" ELSE "start", hash))
         \/ store' = store /\ Goes(f, At("start", hash))
  /\ UNCHANGED <<engines, game, shown, release>>

-------------------------------------------------------------------------------
\* Mutant: the hash is shown before the engine has been fetched.
ShownEarly(at, old, hash) == IF at = "start" THEN hash ELSE old

(* lastPackHash is assigned after the await of loadGame(). *)
Shown(at, old, hash) == IF at = "init" THEN hash ELSE old

(* init() of the bridge and port_api_init(): an engine that refuses a pack  *)
(* has none and is not ready.                                               *)
InitEngine(f, at, all, g) ==
  LET hash == flow[f].pack
  IN  /\ shown' = Shown("init", Shown(at, shown, hash), hash)
      /\ game' = g
      /\ \E works \in BOOLEAN :
           engines' = [all EXCEPT ![g] = IF works THEN [pack |-> hash, ready |-> TRUE] ELSE Unready]
      /\ Goes(f, Over)
      /\ UNCHANGED <<store, release>>

(* startEngine(): with an engine it goes on at once, and resets it. *)
StartEngine(f) ==
  /\ flow[f].at = "start"
  /\ IF game # 0 THEN InitEngine(f, "start", engines, game)
     ELSE /\ Goes(f, At("loading", flow[f].pack))
          /\ shown' = Shown("start", shown, flow[f].pack)
          /\ UNCHANGED <<store, engines, game, release>>

(* loadGame() of this flow is done: it may have failed, and its engine      *)
(* takes the place of the one another flow has fetched meanwhile.           *)
Fetched(f) ==
  /\ flow[f].at = "loading"
  /\ \/ Goes(f, Over) /\ UNCHANGED <<store, engines, game, shown, release>>
     \/ InitEngine(f, "loading", Append(engines, Unready), Len(engines) + 1)

BootNext ==
  \/ KvGet \/ PackGet \/ Reload
  \/ \E f \in FileFlows : Drop(f) \/ Verify(f) \/ Extract(f) \/ Store(f)
  \/ \E f \in Flows : StartEngine(f) \/ Fetched(f)

BootSpec == BootInit /\ [][BootNext]_bootVars

-------------------------------------------------------------------------------
(* An engine that can be played has the pack whose hash the page shows to   *)
(* the lobby, whichever flows have overtaken each other.                    *)
HashIsEngines == game # 0 /\ engines[game].ready => shown = engines[game].pack

(* The hash that the next visit looks for is that of a pack that is stored, *)
(* wherever the page was closed.                                            *)
NextVisitFinds ==
  /\ store.last # NoPack => store.last \in store.packs
  /\ flow["visit"].at # "missing"
===============================================================================
