------------------------------ MODULE MCPrograms ------------------------------
(***************************************************************************)
(* An instance of Programs for TLC.  Documents: up to two members, from    *)
(* objects, dotted keys, arrays and leaves of every kind, with values that *)
(* convert, do not, or only just; variables that two keys share.           *)
(***************************************************************************)
EXTENDS Programs

MCSpelling ==
  [part \in {"server", "database", "gameplay", "logger"} \cup UNION {DOMAIN Handlers[s] : s \in DOMAIN Handlers}
            \cup {"max", "players", "Port", "", "0", "1", "mod"} |->
     CASE part = "server" -> <<"SERVER">>
       [] part = "port" -> <<"PORT">>
       [] part = "Port" -> <<"PORT">>
       [] part = "host" -> <<"HOST">>
       [] part = "max_players" -> <<"MAX", "PLAYERS">>
       [] part = "max" -> <<"MAX">>
       [] part = "players" -> <<"PLAYERS">>
       [] part = "mod" -> <<"MOD">>
       [] OTHER -> <<"(", part, ")">>]

\* A leaf under members, and a list of leaves under one.
Of(leaf, members) == [path |-> [i \in DOMAIN members |-> [kind |-> "member", key |-> members[i]]], is |-> leaf]
Number(n) == [node |-> "number", text |-> WholeText(n)]
Word(w) == [node |-> "string", text |-> WordText(w)]
Null == [node |-> "null"]
Elements(leaves, members) ==
  [i \in DOMAIN leaves |->
     [path |-> Of(leaves[i], members).path \o <<[kind |-> "element", at |-> i - 1]>>, is |-> leaves[i]]]

MCLeaf == {[node |-> "string", text |-> t] : t \in {WordText("a"), WordText(""), RealText(2)}}
            \cup {Number(n) : n \in {-1, 0, 65535, 65536, -65535, -65536}}

Server == <<"server">>

\* The leaves of one member of the document's object.
MCMember ==
  {<<Of(l, <<Server, <<"port">>>>)>> : l \in MCLeaf}
    \cup {<<Of(l, <<<<"server", "port">>>>)>> : l \in {Word("a"), Number(1)}}
    \cup {<<Of(Number(2), <<Server, <<"Port">>>>), Of(Number(3), <<Server, <<"max_players">>>>)>>,
          <<Of(Word("b"), <<Server, <<"max">>, <<"players">>>>)>>,
          <<Of(Number(-1), <<Server, <<"tick_rate_ms">>>>)>>,
          <<Of(Number(3), <<<<"gameplay">>, <<"default_radius_view">>>>),
            Of(Number(-1), <<<<"gameplay">>, <<"player_default_hp">>>>)>>,
          <<Of(Null, <<<<"server", "host">>>>)>>,
          <<Of([node |-> "bool", value |-> TRUE], <<<<"mod">>>>)>>,
          Elements(<<Word("a"), Number(1)>>, <<<<"mod">>>>)}

Doc(leaves) == [node |-> "document", leaves |-> leaves]

\* Nothing, a text or an array in place of the object, one member or two.
MCDoc ==
  {[node |-> "absent"], [node |-> "broken"],
   Doc(<<>>), Doc(<<Of(Word("a"), <<>>)>>), Doc(Elements(<<Word("a")>>, <<>>))}
    \cup {Doc(a) : a \in MCMember}
    \cup {Doc(p[1] \o p[2]) : p \in {q \in MCMember \X MCMember : q[1][1].path[1] # q[2][1].path[1]}}

EnvNames == {<<"SERVER", "PORT">>, <<"SERVER", "MAX", "PLAYERS">>, <<"MOD">>}
MCEnv == UNION {[names -> {WordText("a"), WholeText(7)}] : names \in SUBSET EnvNames}

\* Once, after a document that does not parse, and twice.
MCCalls ==
  LET other == [doc |-> Doc(<<Of(Number(5), <<<<"server", "port">>>>)>>), env |-> <<>>] IN
  {<<[doc |-> d, env |-> e]>> : d \in MCDoc, e \in MCEnv}
    \cup {<<[doc |-> d, env |-> <<>>], other>> : d \in MCDoc}

MCLogDir ==
  [named: {TRUE}, exists: {TRUE}, is_directory: BOOLEAN, creatable: {FALSE}, writable: {TRUE}]
    \cup [named: {TRUE}, exists: {FALSE}, is_directory: {FALSE}, creatable: {TRUE}, writable: BOOLEAN]

MCkKeys == <<"w", "a", "1">>

MCTyped == UNION {[1 .. n -> {"a", "\r", "\n"}] : n \in 0 .. 4}

=============================================================================
