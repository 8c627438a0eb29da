----------------------------- MODULE Snapshots -----------------------------
(***************************************************************************)
(* What the client sees of a dungeon: the server makes a snapshot of the   *)
(* dungeon's state (domain/dungeon/create_game_state.cpp), CBOR of the     *)
(* snapshot (wire/serder_game_state.cpp), the client a snapshot of the     *)
(* CBOR and a picture of the snapshot (client/ui/render_game_state.cpp).   *)
(*                                                                         *)
(* Coordinates are signed in the dungeon and unsigned on the wire, of the  *)
(* same width.  Order in the server's sets and maps is the order of the  *)
(* sequences here.                                                         *)
(***************************************************************************)
EXTENDS Cbor, Integers

CONSTANTS HalfRange,   \* how many coordinates are on each side of zero: 2^63
          HpValues,    \* what health points in a snapshot can be: 2^32 values
          MaxMapCells  \* kMaxMapCells: 40000

ASSUME SnapshotAssumption ==
  HalfRange \in Nat \ {0} /\ HpValues \in Nat \ {0} /\ MaxMapCells \in Nat

Coordinate == -HalfRange .. HalfRange - 1
ToUnsigned(x) == x % (2 * HalfRange)
ToSigned(u) == IF u < HalfRange THEN u ELSE u - 2 * HalfRange

----------------------------------------------------------------------------
(* createGameStateDTO *)

EntityType == [Player |-> 0, Monster |-> 1]
EntityState(entity) == IF entity.alive THEN 0 ELSE 1

\* Slip: the coordinates in the wrong order.
EntitySnapshotSlip(entity, type) ==
  [type |-> type, state |-> EntityState(entity), id |-> entity.id,
   pos_x |-> ToUnsigned(entity.at.y), pos_y |-> ToUnsigned(entity.at.x), hp |-> entity.hp]

EntitySnapshot(entity, type) ==
  [type |-> type, state |-> EntityState(entity), id |-> entity.id,
   pos_x |-> ToUnsigned(entity.at.x), pos_y |-> ToUnsigned(entity.at.y), hp |-> entity.hp]

CreateGameStateDTO(state) ==
  [blc_x |-> ToUnsigned(state.blc.x), blc_y |-> ToUnsigned(state.blc.y),
   trc_x |-> ToUnsigned(state.trc.x), trc_y |-> ToUnsigned(state.trc.y),
   barriers |-> [i \in DOMAIN state.barriers |->
                   [pos_x |-> ToUnsigned(state.barriers[i].x),
                    pos_y |-> ToUnsigned(state.barriers[i].y)]],
   players |-> [i \in DOMAIN state.players |->
                  EntitySnapshot(state.players[i], EntityType.Player)],
   mobs |-> [i \in DOMAIN state.monsters |->
               EntitySnapshot(state.monsters[i], EntityType.Monster)]]

----------------------------------------------------------------------------
(* A snapshot on the wire (wire/serder_game_state.cpp) *)

kBarrierArraySize == 2
kEntityArraySize == 6
kGameMapArraySize == 5

SerializeBarrier(barrier) ==
  BuildArray(<<BuildUint(barrier.pos_x), BuildUint(barrier.pos_y)>>)

DeserializeBarrier(item) ==
  {[pos_x |-> n[1], pos_y |-> n[2]] : n \in ReadUints(item, kBarrierArraySize)}

SerializeEntity(entity) ==
  BuildArray(<<BuildUint(entity.type), BuildUint(entity.state), BuildUint(entity.id),
               BuildUint(entity.pos_x), BuildUint(entity.pos_y), BuildUint(entity.hp)>>)

\* Type and state are cut to a byte, health points to their width.
DeserializeEntity(item) ==
  {[type |-> n[1] % 256, state |-> n[2] % 256, id |-> n[3], pos_x |-> n[4], pos_y |-> n[5],
    hp |-> n[6] % HpValues] : n \in ReadUints(item, kEntityArraySize)}

SerializeGameMap(s) ==
  BuildArray(<<BuildUint(s.blc_x), BuildUint(s.blc_y), BuildUint(s.trc_x), BuildUint(s.trc_y),
               SerializeVector([i \in DOMAIN s.barriers |-> SerializeBarrier(s.barriers[i])])>>)

DeserializeGameMap(item) ==
  IF item.kind = "array" /\ Len(item.items) = kGameMapArraySize
  THEN {[corners |-> n, barriers |-> b] :
          n \in ReadUints(BuildArray(SubSeq(item.items, 1, 4)), 4),
          b \in LET list == item.items[5] IN
                 DeserializeVector(list, [i \in DOMAIN list.items |-> DeserializeBarrier(list.items[i])])}
  ELSE {}

SerializeEntities(entities) ==
  SerializeVector([i \in DOMAIN entities |-> SerializeEntity(entities[i])])

DeserializeEntities(item) ==
  DeserializeVector(item, [i \in DOMAIN item.items |-> DeserializeEntity(item.items[i])])

SerializeGameState(s) ==
  BuildMap(<<[key |-> "map", value |-> SerializeGameMap(s)],
             [key |-> "players", value |-> SerializeEntities(s.players)],
             [key |-> "mobs", value |-> SerializeEntities(s.mobs)]>>)

DeserializeGameState(item) ==
  IF item.kind # "map" THEN {}
  ELSE {[blc_x |-> m.corners[1], blc_y |-> m.corners[2],
         trc_x |-> m.corners[3], trc_y |-> m.corners[4],
         barriers |-> m.barriers, players |-> p, mobs |-> b] :
           m \in UNION {DeserializeGameMap(v) : v \in CborMapGet(item, "map")},
           p \in UNION {DeserializeEntities(v) : v \in CborMapGet(item, "players")},
           b \in UNION {DeserializeEntities(v) : v \in CborMapGet(item, "mobs")}}

----------------------------------------------------------------------------
(* renderGameState *)

NoPicture(why) == [rows |-> <<>>, entities |-> <<>>, instead |-> why]

\* What placeOnGrid leaves in the cell: barriers, players, monsters, in turn.
SymbolAt(s, x, y) ==
  LET here(items) == \E i \in DOMAIN items : items[i].pos_x = x /\ items[i].pos_y = y IN
  CASE here(s.mobs) -> "M"
    [] ~here(s.mobs) /\ here(s.players) -> "@"
    [] ~here(s.mobs) /\ ~here(s.players) /\ here(s.barriers) -> "b"
    [] OTHER -> "."

Row(s, y) == [i \in 1 .. s.trc_x - s.blc_x + 1 |-> SymbolAt(s, s.blc_x + i - 1, y)]

EntityLine(entity) == [id |-> entity.id, hp |-> entity.hp]

\* The rows from the top, counted down in signed coordinates.
Rows(s) ==
  LET high == ToSigned(s.trc_y)
      low == ToSigned(s.blc_y)
  IN [i \in 1 .. high - low + 1 |-> Row(s, ToUnsigned(high - i + 1))]

Picture(s, rows) ==
  [rows |-> rows,
   entities |-> [i \in 1 .. Len(s.players \o s.mobs) |-> EntityLine((s.players \o s.mobs)[i])],
   instead |-> "none"]

\* The count goes on below the least coordinate, which is undefined, and so is
\* the row that is read next: the count may stop all the same, show a row that
\* is not the map's, end the process, or go on for good.
UndefinedRender(s) ==
  {Picture(s, Rows(s)), Picture(s, Append(Rows(s), <<"?">>)), NoPicture("crash"), NoPicture("endless")}

\* What may become of a snapshot.
RenderGameState(s) ==
  LET diffX == s.trc_x - s.blc_x
      diffY == s.trc_y - s.blc_y
  IN IF diffX < 0 \/ diffY < 0 THEN {NoPicture("invalid coordinates")}
     ELSE IF diffX = 2 * HalfRange - 1 \/ diffY = 2 * HalfRange - 1 THEN {NoPicture("coordinate overflow")}
     ELSE IF diffX + 1 > MaxMapCells \div (diffY + 1) THEN {NoPicture("too large")}
     ELSE IF ToSigned(s.blc_y) = -HalfRange THEN UndefinedRender(s)
     ELSE {Picture(s, Rows(s))}

============================================================================
