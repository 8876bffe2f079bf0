----------------------------- MODULE MCGeneration -----------------------------
(* What a build generates, and the code it generates for topics, at work.  The *)
(* generators share no state: a behaviour is that of one of them, the others   *)
(* stay where they begin.                                                      *)
EXTENDS Generation, Codec, TLC

-----------------------------------------------------------------------------
(* Routes: two pages, one of them in a folder of its own, an API handler and a *)
(* component.                                                                  *)

MCFile == {"home", "post", "hello", "card"}
MCRoot == [f \in MCFile |-> CASE f = "hello" -> "api" [] f = "card" -> "components"
                              [] OTHER -> "pages"]
MCDir == [f \in MCFile |-> CASE f = "hello" -> "api" [] f = "card" -> "components"
                             [] f = "post" -> "blog" [] OTHER -> "pages"]
NoTree == [f \in MCFile |-> None]

-----------------------------------------------------------------------------
(* Packages of two files: functions f and g, constants A and B of one          *)
(* declaration, and a variable v.  The second file has a name of its own for p. *)

D(kind, defines, uses) == [kind |-> kind, defines |-> defines, uses |-> SetToSeq(uses)]
ImportsOf(uses, suffix) ==
  SetToSeq({[path |-> x, name |-> x \o suffix] : x \in uses \cap {"p", "q"}})

\* What the page's file says of its state: in the first literal, in a second one,
\* wrongly in a first one, or nowhere.
Func(page) == [state |-> "func", uses |-> SetToSeq(page)]
Other(state) == [state |-> state, uses |-> <<>>]
Literals(page) ==
  [first |-> <<Func(page)>>, second |-> <<Other("none"), Func(page)>>,
   wrong |-> <<Other("unknown"), Func(page)>>, nowhere |-> <<Other("none")>>]

MCPackage(page, f, g, consts, where) ==
  [decls |-> <<D("func", {"f"}, f), D("const", {"A", "B"}, consts),
               D("func", {"g"}, g), D("var", {"v"}, {"f"})>>,
   imports |-> ImportsOf(page \cup f, "") \o ImportsOf(g, "2"),
   literals |-> Literals(page)[where]]

NoPackage == MCPackage({}, {}, {}, {}, "nowhere")
Packages ==
  {MCPackage(page, f, g, consts, where) :
     page \in {{"f"}, {"f", "p"}, {"A", "B"}, {"A", "g"}, {"g"}},
     f \in {{}, {"f", "g"}, {"g", "p"}, {"A", "q"}, {"v"}},
     g \in {{}, {"f"}, {"B", "p"}, {"p", "q"}},
     consts \in {{}, {"g"}},
     where \in {"first", "second", "wrong", "nowhere"}}
MCPackages == Packages \cup {NoPackage}

MCObjects == {"f", "g", "A", "B", "v"}
MCPaths == {"p", "q"}

-----------------------------------------------------------------------------
(* Topics: two files, two structs in one of them or one in each, each with one *)
(* declaration, two or none; two pages whose passes run at the same time.      *)

Create(var, s, key, subscriber, component) ==
  <<[var |-> var, of |-> s, key |-> key, subscriber |-> subscriber, component |-> component]>>

P == <<"P">>
Q == <<"Q">>
Default(s) == s \o <<"Topic">>

\* P with its default name, with one of its own, with both, with none, declared
\* twice, without a key, or with a mount of its own.
OfP ==
  {<<>>, Create(Default(P), P, "k", NoName, NoName), Create(<<"GetP">>, P, "k", NoName, NoName),
   Create(Default(P), P, "k", <<"UseP">>, NoName), Create(Blank, P, "k", NoName, <<"MountP">>),
   Create(<<"UseP">>, P, "k", <<"UseP">>, NoName), Create(Default(P), P, NoKey, NoName, NoName),
   Create(<<"OldP">>, P, "j", <<"UseP">>, NoName) \o Create(Default(P), P, "k", NoName, NoName)}
\* Q likewise, with the key of P or its own, and with a name that P has too.
OfQ ==
  {<<>>, Create(Default(Q), Q, "l", NoName, NoName), Create(Default(Q), Q, "k", NoName, NoName),
   Create(<<"UseQ">>, Q, "l", <<"UseQ">>, <<"MountQ">>), Create(Default(P), Q, "l", NoName, NoName)}

TopicFiles(aStructs, aCreates, bStructs, bCreates) ==
  [f \in {"a", "b"} |-> IF f = "a" THEN [structs |-> aStructs, creates |-> aCreates]
                        ELSE [structs |-> bStructs, creates |-> bCreates]]
NoTopics == TopicFiles({}, <<>>, {}, <<>>)
Pairs ==
  {<<p, Create(Default(Q), Q, "l", NoName, NoName)>> : p \in OfP} \cup
  {<<Create(<<"GetP">>, P, "k", NoName, NoName), q>> : q \in OfQ}
Authors ==
  UNION {{TopicFiles({P, Q}, c[1] \o c[2], {}, <<>>), TopicFiles({P}, c[1], {Q}, c[2]),
          TopicFiles({P}, c[1] \o c[2], {Q}, <<>>)} : c \in Pairs}
MCAuthors == Authors \cup {NoTopics}

MCTopicFile == {"a", "b"}
MCPages == {"page1", "page2"}

-----------------------------------------------------------------------------
(* The codec: structs of every kind of field, each a package of its own with   *)
(* Leaf, with values at the edges of each type; one message of one value in    *)
(* each behaviour, from a module of one compiler to a module of another.       *)

F(t) == [tag |-> "", type |-> t]
Tag(tag, t) == [tag |-> tag, type |-> t]
N(n) == [k |-> "named", name |-> n]
S(t) == [k |-> "slice", elem |-> t]
PointerTo(t) == [k |-> "pointer", elem |-> t]
M(key, val) == [k |-> "map", key |-> key, val |-> val]

MCFields ==
  [Leaf |-> <<F(N("bool")), F(N("string"))>>,
   Numbers |-> <<F(N("int")), F(N("rune")), F(N("Level"))>>,
   Naturals |-> <<F(N("uint")), F(N("uint16")), F(N("time"))>>,
   Tags |-> <<Tag("i32", N("int")), Tag("skip", N("Leaf")), Tag("u32", N("uint")),
              F(N("bool"))>>,
   Lists |-> <<F(S(N("Leaf"))), F(S(N("byte"))), F(N("Names"))>>,
   Grid |-> <<F(S(S(N("Level")))), F(N("int8"))>>,
   Pointers |-> <<F(PointerTo(N("Leaf"))), F(PointerTo(N("int"))),
                  F(S(PointerTo(N("Twig"))))>>,
   Table |-> <<F(M(N("string"), N("Leaf"))), F(N("Twig"))>>,
   Nested |-> <<F(M(N("uint8"), M(N("uint8"), N("bool")))), F(N("bool"))>>,
   Optionals |-> <<F(M(N("uint8"), PointerTo(N("Leaf")))), F(S(PointerTo(N("bool"))))>>,
   \* Accepted, but what is generated does not compile.
   Cube |-> <<F(S(S(S(N("bool")))))>>,
   Defined |-> <<F(S(PointerTo(N("Renamed"))))>>,
   Whole |-> <<F(N("Renamed"))>>,
   Mistyped |-> <<Tag("i32", N("int8"))>>]

MCAlias ==
  [Level |-> [type |-> N("int8"), defined |-> TRUE],
   Names |-> [type |-> S(N("bool")), defined |-> TRUE],
   Twig |-> [type |-> N("Leaf"), defined |-> FALSE],
   Renamed |-> [type |-> N("Leaf"), defined |-> TRUE]]

SeqsUpTo(n, T) == UNION {[1 .. k -> T] : k \in 0 .. n}
Rows(sets) == FoldLeft(LAMBDA rows, T : {Append(r, x) : r \in rows, x \in T}, {<<>>}, sets)

\* The numbers a field can have in a module of this compiler, at the edges of its
\* width there, elsewhere and on the wire, and just beyond them.
Edges(c, on) ==
  {x \in UNION {LET m == Byte ^ n
                IN  IF c.signed THEN {-(m \div 2) - 1, -(m \div 2), -1, 0, m \div 2 - 1, m \div 2}
                    ELSE {0, m - 1, m} :
                n \in {c.wire, Own(c, "TinyGo"), Own(c, "Golang")}} :
     InRange(x, Own(c, on), c.signed)}

RECURSIVE Few(_, _)
Few(c, on) ==
  CASE c.op = "nothing" -> {<<>>}
    [] c.op = "bool" -> BOOLEAN
    [] c.op = "bytes" -> {<<>>, <<1, Byte - 1>>}
    [] c.op = "number" -> Edges(c, on)
    [] c.op = "optional" -> {<<>>} \cup {<<v>> : v \in Few(c.of, on)}
    [] c.op = "loop" ->
         SeqsUpTo(IF c.of.op \in {"number", "bool"} THEN 2 ELSE 1, Few(c.of, on))
    [] c.op = "table" ->
         UNION {[ks -> Few(c.val, on)] :
                  ks \in {k \in SUBSET Few(c.key, on) : Cardinality(k) <= 2}}
    [] c.op = "call" ->
         LET cs == StructCode[c.as.name]
         IN  Rows([i \in 1 .. Len(cs) |-> Few(cs[i], on)])

MCValues == [s \in DOMAIN Fields |->
               [on \in {"TinyGo", "Golang"} |-> Few(Call(N(s)), on)]]

VARIABLES struct,   \* a topic of this struct
          writer,   \* in a module of this compiler
          value,    \* has this value
          message,  \* which is sent as these bytes
          reader    \* to a module of this compiler

NoMessage == <<"none">>
messageVars == <<struct, writer, value, message, reader>>

MessageInit ==
  /\ struct \in DOMAIN Fields /\ writer \in {"TinyGo", "Golang"}
  /\ value \in MCValues[struct][writer]
  /\ message = NoMessage /\ reader = writer

Encode ==
  /\ message = NoMessage /\ struct \in Builds
  /\ message' \in Encodings(struct, value)
  /\ reader' \in {"TinyGo", "Golang"}
  /\ UNCHANGED <<struct, writer, value>>

-----------------------------------------------------------------------------
VARIABLE of  \* the one that is at work in this behaviour

AtWork(who, var, rest) == of # who => var = rest
MCInit ==
  /\ of \in {"routes", "scan", "topics", "codec"}
  /\ AtWork("routes", disk, NoTree) /\ Init
  /\ AtWork("scan", package, NoPackage) /\ ScanInit
  /\ AtWork("topics", author, NoTopics) /\ TopicInit
  /\ AtWork("codec", struct, "Leaf") /\ AtWork("codec", writer, "TinyGo")
  /\ AtWork("codec", value, <<FALSE, <<>>>>) /\ MessageInit

MCNext ==
  /\ UNCHANGED of
  /\ \/ of = "routes" /\ Next /\ UNCHANGED <<scanVars, topicVars, messageVars>>
     \/ of = "scan" /\ ScanNext /\ UNCHANGED <<vars, topicVars, messageVars>>
     \/ of = "topics" /\ TopicNext /\ UNCHANGED <<vars, scanVars, messageVars>>
     \/ of = "codec" /\ Encode /\ UNCHANGED <<vars, scanVars, topicVars>>

MCSpec == MCInit /\ [][MCNext]_<<vars, scanVars, topicVars, messageVars, of>>

-----------------------------------------------------------------------------
\* A message from a module of either compiler, with its maps in whichever order, is
\* read to its end by a module of either compiler, and each field whose numbers have
\* room on the wire and in the reader's types comes back as it was: a number that has
\* none damages no field but its own.  Of a message that is cut short the decoder
\* notices it, wherever it is cut.
RoundTrip ==
  message # NoMessage => /\ DecodesBack(struct, value, message, reader)
                         /\ CutIsNoticed(struct, message, reader)

\* The decoder of a field, with its writes taken out, is still code that compiles, and
\* still passes over the bytes of its field, all of them and no other: what the topic
\* manager keeps of each field is that field, also for a consumer of another compiler.
CapturesFit ==
  message # NoMessage => /\ struct \in CapturesBuild
                         /\ CapturesCut(struct, message, writer, reader)
==============================================================================
