------------------------------- MODULE Settings -------------------------------
(***************************************************************************)
(* The settings both programs load first (common/utility/config.cpp):      *)
(* what the code has, then the leaves of config.json, then the environment *)
(* on top.  A key is the sequence of its parts; a part between two dots    *)
(* may hold underscores, which is why two keys can share the name of one   *)
(* variable.  The empty key is one empty part.                             *)
(*                                                                         *)
(* A document is its leaves in their order, each with the members and      *)
(* elements that lead to it.                                               *)
(*                                                                         *)
(* A text is what a field is converted from: a word, or the digits of a    *)
(* number, whole or with an exponent.                                      *)
(***************************************************************************)
EXTENDS Integers, Sequences, SequencesExt

CONSTANTS ShortBits, LongBits, SignedBits,  \* the widths of uint16_t, uint32_t, int64_t
          Spelling                          \* the capital words of a part of a key

Text == [is : {"word", "whole", "real"}, of : STRING, n : Int]
WordText(w) == [is |-> "word", of |-> w, n |-> 0]
WholeText(n) == [is |-> "whole", of |-> "digits", n |-> n]
RealText(n) == [is |-> "real", of |-> "digits", n |-> n]

\* What assign_field is instantiated with; durations are of a signed type.
Handlers ==
  [server |-> [host |-> "string", port |-> "uint16", max_players |-> "uint16",
               tick_rate_ms |-> "int64", client_disconnect_timeout_sec |-> "int64"],
   database |-> [connection_string |-> "string", pool_size |-> "uint16"],
   gameplay |-> [lobby_max_players |-> "uint16", map_name |-> "string",
                 match_duration_sec |-> "int64", player_default_hp |-> "uint32",
                 monster_default_hp |-> "uint32", monsters_per_player |-> "uint16",
                 default_radius_attack |-> "double", default_radius_view |-> "double",
                 player_default_attack |-> "uint32", monster_default_attack |-> "uint32",
                 default_map_blc_x |-> "int64", default_map_blc_y |-> "int64",
                 default_map_trc_x |-> "int64", default_map_trc_y |-> "int64"],
   logger |-> [level |-> "string", output_dir |-> "string", format |-> "string"]]

KnownKeys == UNION {{<<section, field>> : field \in DOMAIN Handlers[section]} : section \in DOMAIN Handlers}
FieldType(key) == Handlers[key[1]][key[2]]

Defaults ==
  [server |-> [host |-> WordText("127.0.0.1"), port |-> WholeText(8080), max_players |-> WholeText(100),
               tick_rate_ms |-> WholeText(100), client_disconnect_timeout_sec |-> WholeText(10)],
   database |-> [connection_string |-> WordText(""), pool_size |-> WholeText(10)],
   gameplay |-> [lobby_max_players |-> WholeText(4), map_name |-> WordText("test"),
                 match_duration_sec |-> WholeText(100), player_default_hp |-> WholeText(100),
                 monster_default_hp |-> WholeText(50), monsters_per_player |-> WholeText(3),
                 default_radius_attack |-> RealText(2), default_radius_view |-> RealText(4),
                 player_default_attack |-> WholeText(10), monster_default_attack |-> WholeText(5),
                 default_map_blc_x |-> WholeText(0), default_map_blc_y |-> WholeText(0),
                 default_map_trc_x |-> WholeText(60), default_map_trc_y |-> WholeText(30)],
   logger |-> [level |-> WordText("info"), output_dir |-> WordText("./logs"), format |-> WordText("json")]]

\* boost::lexical_cast: nothing when it throws.  An unsigned type takes a minus
\* sign and wraps.
LexicalCast(type, text) ==
  LET Fits(bits) == -(2 ^ bits) < text.n /\ text.n < 2 ^ bits
      Unsigned(bits) == IF Fits(bits) THEN {WholeText(text.n % 2 ^ bits)} ELSE {}
  IN CASE type = "string" -> {text}
       [] text.is = "word" -> {}
       [] type = "double" -> {RealText(text.n)}
       [] text.is = "real" -> {}
       [] type = "uint16" -> Unsigned(ShortBits)
       [] type = "uint32" -> Unsigned(LongBits)
       [] OTHER -> IF text.n \in -(2 ^ (SignedBits - 1)) .. 2 ^ (SignedBits - 1) - 1 THEN {text} ELSE {}

-----------------------------------------------------------------------------
\* What initialize finds: no document, one that does not parse, or one with
\* leaves.
PathStep == [kind : {"member"}, key : Seq(STRING)] \cup [kind : {"element"}, at : Nat]
Leaf == [node : {"string", "number"}, text : Text] \cup [node : {"bool"}, value : BOOLEAN] \cup [node : {"null"}]
Document ==
  [node : {"absent", "broken"}] \cup [node : {"document"}, leaves : Seq([path : Seq(PathStep), is : Leaf])]

VARIABLES sources,      \* the calls of initialize still to come: [doc, env]
          initialized,  \* Settings::initialized_
          fields,       \* the known settings
          dynamic,      \* Settings::dynamic_: the others
          source        \* history: what the settings were loaded from

settingsVars == <<sources, initialized, fields, dynamic, source>>

NoSource == [doc |-> [node |-> "absent"], env |-> <<>>]

\* A handler assigns what converts and leaves the field alone otherwise; a key
\* without a handler goes to the dynamic ones.
Store(s, key, text) ==
  IF key \in KnownKeys
  THEN [s EXCEPT !.fields[key[1]][key[2]] =
          IF LexicalCast(FieldType(key), text) = {} THEN @
          ELSE CHOOSE v \in LexicalCast(FieldType(key), text) : TRUE]
  ELSE [s EXCEPT !.dynamic = [k \in DOMAIN @ \cup {key} |-> IF k = key THEN text ELSE @[k]]]

\* What a leaf of the document is as a text: numbers with a fraction are
\* serialized with an exponent.
LeafText(leaf) ==
  IF leaf.node = "bool" THEN WordText(IF leaf.value THEN "true" ELSE "false")
  ELSE IF leaf.node = "null" THEN WordText("null") ELSE leaf.text

\* The key that a path leads to.  Only a member of an object leaves out the dot
\* after an empty prefix.
KeyOf(path) ==
  FoldLeft(LAMBDA prefix, step :
             IF step.kind = "element" THEN prefix \o <<ToString(step.at)>>
             ELSE IF prefix = <<"">> THEN step.key ELSE prefix \o step.key,
           <<"">>, path)

Leaves(json) == [i \in DOMAIN json.leaves |-> <<KeyOf(json.leaves[i].path), LeafText(json.leaves[i].is)>>]

\* Texts stored one after the other.
StoreAll(s, texts) ==
  LET after[i \in 0 .. Len(texts)] == IF i = 0 THEN s ELSE Store(after[i - 1], texts[i][1], texts[i][2])
  IN after[Len(texts)]

FlattenAndStore(s, json) == StoreAll(s, Leaves(json))

\* "server.max_players" and "server.max.players" are both SERVER_MAX_PLAYERS.
EnvName(key) == FlattenSeq([i \in DOMAIN key |-> Spelling[key[i]]])

OverrideSettings(s, env) ==
  LET keys == SetToSeq({k \in KnownKeys \cup DOMAIN s.dynamic : EnvName(k) \in DOMAIN env}) IN
  StoreAll(s, [i \in DOMAIN keys |-> <<keys[i], env[EnvName(keys[i])]>>])

\* The environment is read before the document.
LoadSlip(s, from) ==
  LET overridden == OverrideSettings(s, from.env) IN
  IF from.doc.node = "absent" THEN overridden ELSE FlattenAndStore([overridden EXCEPT !.dynamic = <<>>], from.doc)

Load(s, from) ==
  OverrideSettings(IF from.doc.node = "absent" THEN s ELSE FlattenAndStore([s EXCEPT !.dynamic = <<>>], from.doc),
                   from.env)

SettingsInit(calls) ==
  /\ sources = calls
  /\ initialized = FALSE
  /\ fields = Defaults
  /\ dynamic = <<>>
  /\ source = NoSource

Call(from) == sources # <<>> /\ from = Head(sources) /\ sources' = Tail(sources)

\* The first call that does not throw loads; a document that does not parse
\* throws, and the next call starts with a new object.
Initialize(from) ==
  /\ ~initialized
  /\ from.doc.node # "broken"
  /\ LET s == Load([fields |-> Defaults, dynamic |-> <<>>], from) IN
     /\ fields' = s.fields
     /\ dynamic' = s.dynamic
  /\ initialized' = TRUE
  /\ source' = from

InitializeThrows(from) ==
  /\ ~initialized
  /\ from.doc.node = "broken"
  /\ fields' = Defaults
  /\ dynamic' = <<>>
  /\ UNCHANGED <<initialized, source>>

InitializeAgain == initialized /\ UNCHANGED <<initialized, fields, dynamic, source>>

InitializeSettings ==
  \E from \in {sources[i] : i \in DOMAIN sources} :
    /\ Call(from)
    /\ Initialize(from) \/ InitializeThrows(from) \/ InitializeAgain

-----------------------------------------------------------------------------
(***************************************************************************)
(* A setting is what the highest layer that names it says: its variable,   *)
(* else the last of the document's leaves for it, else what the code has;  *)
(* a key that the code does not know exists exactly when the document has  *)
(* it.  Read from the layers as config.h:17-20 lists them, without the     *)
(* order of assignments that gives it.                                     *)
(*                                                                         *)
(* Of a text that does not convert the code keeps what the lower layers    *)
(* gave, and its comments and its warning speak of the default             *)
(* (config.h:181, config.cpp:150-155).  Either will do here, and nothing   *)
(* else: never another leaf, half a number or a zero.                      *)
(***************************************************************************)
Layered(key, known, leaves) ==
  LET Converted(text) == IF known THEN LexicalCast(FieldType(key), text) ELSE {text}
      default == IF known THEN {Defaults[key[1]][key[2]]} ELSE {}
      OfKey == {i \in DOMAIN leaves : leaves[i][1] = key}
      Taken == {i \in OfKey : Converted(leaves[i][2]) # {}}
      highest == IF EnvName(key) \in DOMAIN source.env THEN Converted(source.env[EnvName(key)])
                 ELSE IF OfKey # {} THEN Converted(leaves[Max(OfKey)][2])
                 ELSE default
      lower == IF Taken # {} THEN Converted(leaves[Max(Taken)][2]) ELSE {}
  IN IF highest # {} THEN highest ELSE default \cup lower

SettingsAreLayered ==
  initialized =>
    LET leaves == IF source.doc.node = "absent" THEN <<>> ELSE Leaves(source.doc)
        keys == {leaves[i][1] : i \in DOMAIN leaves}
    IN /\ source.doc.node # "broken"
       /\ \A key \in KnownKeys : fields[key[1]][key[2]] \in Layered(key, TRUE, leaves)
       /\ DOMAIN dynamic = keys \ KnownKeys
       /\ \A key \in DOMAIN dynamic : dynamic[key] \in Layered(key, FALSE, leaves)

=============================================================================
