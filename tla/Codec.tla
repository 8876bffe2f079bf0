-------------------------------- MODULE Codec --------------------------------
(***************************************************************************)
(* The binary codec of topic structs.  The generator turns the type of     *)
(* each field into code for an Encoder and a Decoder (wasm_codec.go); both *)
(* run inside the WASM modules (runtime/codec.go).  Here the choices of    *)
(* the generator for a type are a tree; its encoder is Put of that tree,   *)
(* its decoder the statements DecLines of it, which Run executes.  The     *)
(* manager of a topic runs them with the writes cut out (StripReceiver).   *)
(*                                                                         *)
(* A byte is a digit of base Byte: TLC's integers would not hold eight     *)
(* bytes of 256, and only the number of bytes of a value matters.  Floats  *)
(* are their bits, times their nanoseconds, a pointer is a sequence of no  *)
(* or one value, a nil slice or map is the empty one, as it is after       *)
(* decoding.                                                               *)
(***************************************************************************)
EXTENDS Integers, Sequences, FiniteSets, SequencesExt

CONSTANTS Byte,     \* number of values of a byte, an even number
          Fields,   \* the structs of src/topics: name -> sequence of fields,
                    \* each with a gothic tag and a type
          Alias     \* its named types that are no structs: name -> the type and
                    \* whether it is defined (type A T) or a synonym (type A = T)

Named(n) == [k |-> "named", name |-> n]
SliceOf(t) == [k |-> "slice", elem |-> t]
MapOf(key, val) == [k |-> "map", key |-> key, val |-> val]
PointerOf(t) == [k |-> "pointer", elem |-> t]
IntType == Named("int")

-----------------------------------------------------------------------------
(* The choices of the generator.  `as' is the Go type of what is decoded.  *)

Unsupported == [op |-> "unsupported"]
NoCode == [op |-> "nothing"]
Bytes == [op |-> "bytes"]  \* also for strings: a length and that many bytes
Bool == [op |-> "bool"]

\* A number: how many bytes on the wire and in the Go type, and whether it has
\* a sign.  int and uint have the width of a Word, which is the compiler's.
Word == 0
Number(wire, own, signed) ==
  [op |-> "number", wire |-> wire, own |-> own, signed |-> signed]

\* A time that 64 bits of nanoseconds do not hold (the zero time, for one) is
\* a number wider than the wire.
Primitive ==
  [int |-> Number(8, Word, TRUE), int8 |-> Number(4, 1, TRUE),
   int16 |-> Number(4, 2, TRUE), int32 |-> Number(4, 4, TRUE),
   rune |-> Number(4, 4, TRUE), int64 |-> Number(8, 8, TRUE),
   uint8 |-> Number(1, 1, FALSE), byte |-> Number(1, 1, FALSE),
   uint16 |-> Number(2, 2, FALSE), uint32 |-> Number(4, 4, FALSE),
   uint |-> Number(8, Word, FALSE), uint64 |-> Number(8, 8, FALSE),
   float32 |-> Number(4, 4, FALSE), float64 |-> Number(8, 8, FALSE),
   time |-> Number(8, 12, TRUE), bool |-> Bool, string |-> Bytes]

Typed(c, t) == c @@ [as |-> t]

\* A tag is for fields of type int and uint, and is not compared with the type.
Tagged == [i32 |-> Typed(Number(4, Word, TRUE), IntType),
           i64 |-> Typed(Number(8, Word, TRUE), IntType),
           u32 |-> Typed(Number(4, Word, FALSE), Named("uint")),
           u64 |-> Typed(Number(8, Word, FALSE), Named("uint")),
           skip |-> NoCode]

\* One step only: an alias of an alias stays one.
Resolve(t) ==
  IF t.k = "named" /\ t.name \in DOMAIN Alias THEN Alias[t.name].type ELSE t

IsPrimitive(t) == t.k = "named" /\ t.name \in DOMAIN Primitive
IsStruct(t) == t.k = "named" /\ t.name \in DOMAIN Fields
Call(t) == Typed([op |-> "call"], t)

Optional(c) ==
  IF c = Unsupported THEN c
  ELSE Typed([op |-> "optional", of |-> c], PointerOf(c.as))
Loop(elem, c) ==
  IF c = Unsupported THEN c ELSE Typed([op |-> "loop", of |-> c], SliceOf(elem))
Table(m, key, val) ==
  IF Unsupported \in {key, val} THEN Unsupported
  ELSE Typed([op |-> "table", key |-> key, val |-> val], m)

\* Through an alias, a primitive is cast to the type as it is written.
PrimitiveCode(t) ==
  IF IsPrimitive(Resolve(t)) THEN Typed(Primitive[Resolve(t).name], t)
  ELSE Unsupported

\* A primitive through an alias, or a struct by its own name.
ValueCode(t) == IF IsStruct(t) THEN Call(t) ELSE PrimitiveCode(t)

\* The pointers in slices and maps may go to the alias of a struct as well,
\* and its values are those of the struct itself.
PointeeCode(t) ==
  IF PrimitiveCode(t) = Unsupported /\ IsStruct(Resolve(t)) THEN Call(Resolve(t))
  ELSE ValueCode(t)

RECURSIVE SliceCode(_)
SliceCode(elem) ==
  Loop(elem, CASE elem.k = "slice" -> SliceCode(elem.elem)
               [] elem.k = "pointer" -> Optional(PointeeCode(elem.elem))
               [] elem.k = "map" -> Unsupported
               [] OTHER -> ValueCode(elem))

\* A map may be the value of a map, and that is the last level.
MapCode(m) ==
  Table(m, PrimitiveCode(m.key),
        CASE m.val.k = "pointer" -> Optional(PointeeCode(m.val.elem))
          [] m.val.k = "map" ->
               Table(m.val, PrimitiveCode(m.val.key),
                     IF m.val.val.k = "named" THEN ValueCode(m.val.val)
                     ELSE Unsupported)
          [] m.val.k = "slice" -> Unsupported
          [] OTHER -> ValueCode(m.val))

TypeCode(t) ==
  LET r == Resolve(t)
  IN  CASE r = SliceOf(Named("byte")) -> Typed(Bytes, r)
        [] r.k = "slice" -> SliceCode(r.elem)
        [] r.k = "map" -> MapCode(r)
        [] r.k = "pointer" -> Optional(ValueCode(r.elem))
        [] IsPrimitive(r) -> PrimitiveCode(t)
        [] IsStruct(r) -> Call(r)
        [] OTHER -> Unsupported

\* A gothic tag stands for the type.
FieldCode(f) ==
  IF f.tag = "" THEN TypeCode(f.type)
  ELSE IF f.tag \in DOMAIN Tagged THEN Tagged[f.tag] ELSE Unsupported

StructCode == [s \in DOMAIN Fields |->
                 [i \in DOMAIN Fields[s] |-> FieldCode(Fields[s][i])]]
Accepts(s) == Unsupported \notin Range(StructCode[s])

-----------------------------------------------------------------------------
(* The generated encoder.                                                  *)

RECURSIVE Digits(_, _)
Digits(n, x) ==
  IF n = 0 THEN <<>> ELSE <<x % Byte>> \o Digits(n - 1, x \div Byte)

Length == 4
PutLength(n) == Digits(Length, n)

\* All that can be written when the parts are written one after the other.
Concat(parts) ==
  FoldLeft(LAMBDA done, part : {a \o b : a \in done, b \in part},
           {<<>>}, parts)

\* Go ranges over a map in any order, so a map has several encodings.
RECURSIVE Put(_, _)
Put(c, v) ==
  CASE c.op = "nothing" -> {<<>>}
    [] c.op = "number" -> {Digits(c.wire, v)}
    [] c.op = "bool" -> {<<IF v THEN 1 ELSE 0>>}
    [] c.op = "bytes" -> {PutLength(Len(v)) \o v}
    [] c.op = "optional" ->
         IF v = <<>> THEN {<<0>>} ELSE {<<1>> \o b : b \in Put(c.of, v[1])}
    [] c.op = "loop" ->
         Concat(<<{PutLength(Len(v))}>>
                  \o [i \in 1 .. Len(v) |-> Put(c.of, v[i])])
    [] c.op = "table" ->
         UNION {Concat(<<{PutLength(Len(ks))}>> \o
                  [i \in 1 .. Len(ks) |->
                     Concat(<<Put(c.key, ks[i]), Put(c.val, v[ks[i]])>>)]) :
                ks \in SetToSeqs(DOMAIN v)}
    [] c.op = "call" ->
         LET cs == StructCode[c.as.name]
         IN  Concat([i \in 1 .. Len(cs) |-> Put(cs[i], v[i])])

-----------------------------------------------------------------------------
(* The statements of the generated decoder.  A place is a variable, or one *)
(* and the variable that indexes it.                                       *)

Field == "v.F"  \* the field that the statements decode
Underscore == <<"_">>

Read(c) == [op |-> "read", of |-> c]                    \* T(d.I32()), _decode_T(d)
Count == [op |-> "count"]                               \* int(d.U32())
Make(t, n) == [op |-> "make", type |-> t, n |-> n]      \* make(T, n)
Value(x) == [op |-> "value", var |-> x]                 \* x
Address(x) == [op |-> "address", var |-> x]             \* &x

Var(x, t) == [op |-> "var", var |-> x, type |-> t]      \* var x T
Define(x, e) == [op |-> "define", var |-> x, from |-> e]    \* x := e
Assign(place, e) == [op |-> "assign", to |-> place, from |-> e]
Block(body) == [op |-> "block", body |-> body]
IfTag(body) == [op |-> "if", body |-> body]             \* if d.U8() != 0 { .. }
Over(x, body) == [op |-> "range", over |-> x, body |-> body]
Times(i, n, body) == [op |-> "times", i |-> i, n |-> n, body |-> body]

\* A pointer: the value is decoded to a variable, whose address is kept.
PointerLines(c, place) ==
  IfTag(IF c.op = "call"
        THEN <<Define("_sv", Read(c)), Assign(place, Address("_sv"))>>
        ELSE <<Var("_pv", c.as), Assign(<<"_pv">>, Read(c)),
               Assign(place, Address("_pv"))>>)

Outer == [n |-> "_n", i |-> "_i", k |-> "_k", v |-> "_v"]
Inner == [n |-> "_n2", i |-> "_j", k |-> "_k2", v |-> "_v2"]

RECURSIVE MapLines(_, _, _)
MapLines(c, x, is) ==
  Block(<<Define(is.n, Count), Assign(<<x>>, Make(c.as, is.n)),
          Times(is.i, is.n,
                <<Var(is.k, c.as.key), Var(is.v, c.as.val),
                  Assign(<<is.k>>, Read(c.key)),
                  CASE c.val.op = "optional" -> PointerLines(c.val.of, <<is.v>>)
                    [] c.val.op = "table" -> MapLines(c.val, is.v, Inner)
                    [] OTHER -> Assign(<<is.v>>, Read(c.val)),
                  Assign(<<x, is.k>>, Value(is.v))>>)>>)

\* Every level of nested slices has the same names for its variables.
RECURSIVE SliceLines(_, _)
SliceLines(c, x) ==
  LET item == <<x, "_i">>
      of == c.of
  IN  Block(<<Define("_n", Count), Assign(<<x>>, Make(c.as, "_n")),
              Over(x, CASE of.op = "optional" -> <<PointerLines(of.of, item)>>
                        [] of.op = "loop" ->
                             <<Var("_inner", of.as), SliceLines(of, "_inner"),
                               Assign(item, Value("_inner"))>>
                        [] of.op = "call" -> <<Assign(item, Read(of))>>
                        [] OTHER -> <<Var("_item", of.as), Assign(<<"_item">>, Read(of)),
                                      Assign(item, Value("_item"))>>)>>)

DecLines(c) ==
  CASE c.op = "nothing" -> <<>>
    [] c.op = "optional" -> <<Block(<<PointerLines(c.of, <<Field>>)>>)>>
    [] c.op = "loop" -> <<SliceLines(c, Field)>>
    [] c.op = "table" -> <<MapLines(c, Field, Outer)>>
    [] OTHER -> <<Assign(<<Field>>, Read(c))>>

\* The capture of a field: its decoder without the field.  What was written to
\* it is discarded, and a loop over it counts; the make that the code takes out
\* would have to be a statement of its own, and is always in a block.
Discard_KeyUnused(s) == <<Assign(Underscore, s.from)>>
Discard(s) ==
  (IF s.to = <<Field, "_k">> THEN <<Assign(Underscore, Value("_k"))>> ELSE <<>>)
    \o <<Assign(Underscore, s.from)>>

RECURSIVE StripReceiver(_)
StripReceiver(ss) ==
  FlattenSeq([j \in DOMAIN ss |->
    LET s == ss[j]
    IN  CASE s.op = "assign" -> IF s.to[1] = Field THEN Discard(s) ELSE <<s>>
          [] s.op = "range" ->
               <<IF s.over = Field THEN Times("_i", "_n", StripReceiver(s.body))
                 ELSE [s EXCEPT !.body = StripReceiver(@)]>>
          [] s.op \in {"block", "if", "times"} ->
               <<[s EXCEPT !.body = StripReceiver(@)]>>
          [] OTHER -> <<s>>])

IsMake(s) == s.op = "assign" /\ s.to = <<Field>> /\ s.from.op = "make"
CaptureLines(c) ==
  StripReceiver(SelectSeq(DecLines(c), LAMBDA s : ~ IsMake(s)))

\* The code of every field of every struct the generator accepts.
ForAllFields(Lines(_)) ==
  [s \in {s \in DOMAIN Fields : Accepts(s)} |->
     [i \in DOMAIN StructCode[s] |-> Lines(StructCode[s][i])]]
Decoders == ForAllFields(DecLines)
Captures == ForAllFields(CaptureLines)

-----------------------------------------------------------------------------
(* What Go says of these statements: a variable is in scope, takes values  *)
(* that are assignable to its type, and is used.                           *)

Synonym ==
  [rune |-> [type |-> Named("int32"), defined |-> FALSE],
   byte |-> [type |-> Named("uint8"), defined |-> FALSE]] @@ Alias

RECURSIVE Identity(_)
Identity(t) ==
  CASE t.k = "named" -> IF t.name \in DOMAIN Synonym /\ ~ Synonym[t.name].defined
                        THEN Identity(Synonym[t.name].type) ELSE t
    [] t.k = "map" -> MapOf(Identity(t.key), Identity(t.val))
    [] OTHER -> [t EXCEPT !.elem = Identity(@)]

RECURSIVE Underlying(_)
Underlying(t) ==
  LET u == Identity(t)
  IN  IF u.k = "named" /\ u.name \in DOMAIN Alias THEN Underlying(Alias[u.name].type)
      ELSE u

Assignable(from, to) ==
  \/ Identity(from) = Identity(to)
  \/ /\ Underlying(from) = Underlying(to)
     /\ Identity(from).k # "named" \/ Identity(to).k # "named"

TypeOf(e, scope) ==
  CASE e.op = "read" -> e.of.as
    [] e.op = "count" -> IntType
    [] e.op = "make" -> e.type
    [] e.op = "value" -> scope[e.var]
    [] e.op = "address" -> PointerOf(scope[e.var])

PlaceType(place, scope) ==
  LET t == scope[place[1]]
  IN  IF Len(place) = 1 THEN t
      ELSE IF Underlying(t).k = "map" THEN Underlying(t).val ELSE Underlying(t).elem

Declares(s, scope) ==
  CASE s.op = "var" -> s.var :> s.type
    [] s.op = "define" -> s.var :> TypeOf(s.from, scope)
    [] OTHER -> <<>>
DeclaredIn(ss) == {s.var : s \in {s \in Range(ss) : s.op \in {"var", "define"}}}

UsedBy(e) == CASE e.op \in {"value", "address"} -> {e.var}
               [] e.op = "make" -> {e.n}
               [] OTHER -> {}

\* The variables from outside that are read; to write one element reads both.
RECURSIVE UsedIn(_)
UsedIn(ss) ==
  IF ss = <<>> THEN {} ELSE
  LET s == Head(ss)
  IN  (CASE s.op = "var" -> {}
         [] s.op = "define" -> UsedBy(s.from)
         [] s.op = "assign" ->
              UsedBy(s.from) \cup (IF Len(s.to) = 2 THEN Range(s.to) ELSE {})
         [] s.op = "range" -> {s.over} \cup (UsedIn(s.body) \ {"_i"})
         [] s.op = "times" -> {s.n} \cup (UsedIn(s.body) \ {s.i})
         [] OTHER -> UsedIn(s.body)) \cup (UsedIn(Tail(ss)) \ DeclaredIn(<<s>>))

RECURSIVE Compiles(_, _)
Compiles(ss, scope) ==
  \/ ss = <<>>
  \/ LET s == Head(ss)
     IN  /\ UsedIn(<<s>>) \subseteq DOMAIN scope
         /\ DeclaredIn(<<s>>) \subseteq UsedIn(Tail(ss))
         /\ CASE s.op \in {"block", "if"} -> Compiles(s.body, scope)
              [] s.op = "times" -> Compiles(s.body, (s.i :> IntType) @@ scope)
              [] s.op = "range" -> /\ "_i" \in UsedIn(s.body)
                                   /\ Compiles(s.body, ("_i" :> IntType) @@ scope)
              [] s.op = "assign" ->
                   \/ s.to = Underscore
                   \/ /\ s.to[1] \in DOMAIN scope
                      /\ Assignable(TypeOf(s.from, scope), PlaceType(s.to, scope))
              [] OTHER -> TRUE
         /\ Compiles(Tail(ss), Declares(s, scope) @@ scope)

\* The structs whose decoders compile: without them no module is made.
Builds ==
  {s \in DOMAIN Decoders : \A i \in DOMAIN Fields[s] :
     Compiles(Decoders[s][i], Field :> Fields[s][i].type)}

\* The structs whose captures compile, in functions that have no receiver.
CapturesBuild ==
  {s \in DOMAIN Captures : \A i \in DOMAIN Fields[s] : Compiles(Captures[s][i], <<>>)}

-----------------------------------------------------------------------------
(* The decoder at work, in a module of compiler `on'.  Its first error     *)
(* stays, and reads return zero.                                           *)

Decoder(buf, on) == [buf |-> buf, pos |-> 0, err |-> FALSE, on |-> on]
Need(d, n) == ~ d.err /\ d.pos + n <= Len(d.buf)

\* What one read returns: the decoder after it and a value.
Result(d, v) == [d |-> d, v |-> v]

Take(d, n, Of(_), zero) ==
  IF Need(d, n)
  THEN Result([d EXCEPT !.pos = @ + n], Of(SubSeq(d.buf, d.pos + 1, d.pos + n)))
  ELSE Result([d EXCEPT !.err = TRUE], zero)

Unsigned(bytes) == FoldRight(LAMBDA b, x : b + Byte * x, bytes, 0)

\* TinyGo's target has 32 bits, GOARCH=wasm has 64.
WordBytes == [TinyGo |-> 4, Golang |-> 8]
Own(c, on) == IF c.own = Word THEN WordBytes[on] ELSE c.own

\* The conversion of Go to an integer of n bytes.
Wrap_Unsigned(x, n, signed) == x % (Byte ^ n)
Wrap(x, n, signed) ==
  LET m == Byte ^ n
      y == x % m
  IN  IF signed /\ 2 * y >= m THEN y - m ELSE y

\* What int8(d.I32()) makes of four bytes.
Converted(c, bytes, on) ==
  Wrap(Wrap(Unsigned(bytes), c.wire, c.signed), Own(c, on), c.signed)

GetLength(d) == Take(d, Length, Unsigned, 0)

\* The zero value of a pointer: no other is left as it was made.
Nil == <<>>

\* The statements of one field are done, after those of r.
Decoded(r, end) == Result(end.d, Append(r.v, end.env[Field]))
Captured(r, end) == Result(end, Append(r.v, SubSeq(end.buf, r.d.pos + 1, end.pos)))

RECURSIVE Get(_, _), Run(_, _)
RunField(lines, d) == Run(lines, [d |-> d, env |-> Field :> Nil])
Get(c, d) ==
  CASE c.op = "number" -> Take(d, c.wire, LAMBDA b : Converted(c, b, d.on), 0)
    [] c.op = "bool" -> Take(d, 1, LAMBDA b : b[1] # 0, FALSE)
    [] c.op = "bytes" ->
         LET n == GetLength(d) IN Take(n.d, n.v, LAMBDA b : b, <<>>)
    [] c.op = "call" ->
         FoldLeft(LAMBDA r, lines : Decoded(r, RunField(lines, r.d)),
                  Result(d, <<>>), Decoders[c.as.name])

Evaluate(e, st) ==
  CASE e.op = "read" -> Get(e.of, st.d)
    [] e.op = "count" -> GetLength(st.d)
    [] e.op = "make" ->
         Result(st.d, IF e.type.k = "map" THEN <<>>
                      ELSE [j \in 1 .. st.env[e.n] |-> Nil])
    [] e.op = "value" -> Result(st.d, st.env[e.var])
    [] e.op = "address" -> Result(st.d, <<st.env[e.var]>>)

Bind(st, x, r) == [d |-> r.d, env |-> (x :> r.v) @@ st.env]
Store(env, place, v) ==
  IF place = Underscore THEN env
  ELSE [env EXCEPT ![place[1]] =
          IF Len(place) = 1 THEN v ELSE (env[place[2]] :> v) @@ @]

StoreResult(st, place, r) == [d |-> r.d, env |-> Store(st.env, place, r.v)]

\* A body has its own variables, and those it hides come back after it.
Enter(body, own, st) ==
  LET hidden == DeclaredIn(body) \cup DOMAIN own
      end == Run(body, [st EXCEPT !.env = own @@ @])
  IN  [end EXCEPT !.env = [x \in DOMAIN st.env |->
                             IF x \in hidden THEN st.env[x] ELSE @[x]]]

\* Loops count from 1, as sequences do.
Repeat(n, i, body, st) ==
  FoldLeft(LAMBDA at, j : Enter(body, i :> j, at), st, [j \in 1 .. n |-> j])

Step(st, s) ==
  CASE s.op = "var" -> [st EXCEPT !.env = (s.var :> Nil) @@ @]
    [] s.op = "define" -> Bind(st, s.var, Evaluate(s.from, st))
    [] s.op = "assign" -> StoreResult(st, s.to, Evaluate(s.from, st))
    [] s.op = "block" -> Enter(s.body, <<>>, st)
    [] s.op = "if" -> LET tag == Take(st.d, 1, Unsigned, 0)
                          at == [st EXCEPT !.d = tag.d]
                      IN  IF tag.v = 0 THEN at ELSE Enter(s.body, <<>>, at)
    [] s.op = "range" -> Repeat(Len(st.env[s.over]), "_i", s.body, st)
    [] s.op = "times" -> Repeat(st.env[s.n], s.i, s.body, st)

Run(ss, st) == FoldLeft(Step, st, ss)

\* _captureAllFields: the bytes that the capture of each field passes over.
CaptureAllFields(s, d) ==
  FoldLeft(LAMBDA r, lines : Captured(r, Run(lines, [d |-> r.d, env |-> <<>>]).d),
           Result(d, <<>>), Captures[s])

-----------------------------------------------------------------------------
(* Properties of one message of one value of one struct.                   *)

Encodings(s, v) == Put(Call(Named(s)), v)
Decode(s, buf, on) == Get(Call(Named(s)), Decoder(buf, on))
AtEnd(d) == d.pos = Len(d.buf) /\ ~ d.err

\* The numbers of n bytes.
InRange(x, n, signed) ==
  LET m == Byte ^ n
  IN  IF signed THEN -m <= 2 * x /\ 2 * x < m ELSE 0 <= x /\ x < m

\* Every number in the value has room on the wire and in the reader's type.
RECURSIVE Fits(_, _, _)
Fits(c, v, reader) ==
  CASE c.op = "number" -> /\ InRange(v, c.wire, c.signed)
                          /\ InRange(v, Own(c, reader), c.signed)
    [] c.op \in {"optional", "loop"} -> \A j \in DOMAIN v : Fits(c.of, v[j], reader)
    [] c.op = "table" -> \A key \in DOMAIN v : /\ Fits(c.key, key, reader)
                                               /\ Fits(c.val, v[key], reader)
    [] c.op = "call" -> \A i \in DOMAIN v : Fits(StructCode[c.as.name][i], v[i], reader)
    [] OTHER -> TRUE

\* Whatever the order of its maps, what was encoded is decoded to the end, and
\* each field of it that fits comes back as it was.
DecodesBack(s, v, buf, reader) ==
  LET r == Decode(s, buf, reader)
  IN  /\ AtEnd(r.d)
      /\ \A i \in DOMAIN v : Fits(StructCode[s][i], v[i], reader) => r.v[i] = v[i]

\* No encoding is the beginning of another: a message that is cut short leaves
\* an error, and never a value that looks whole.
CutIsNoticed(s, buf, reader) ==
  \A n \in 0 .. Len(buf) - 1 : Decode(s, SubSeq(buf, 1, n), reader).d.err

\* The captures cut the message where the encoders of the single fields begin and
\* end: the parts are the message again, and each decodes to what the whole
\* message does for its field.
IsField(end, v) == AtEnd(end.d) /\ end.env[Field] = v
PartsFit(s, parts, whole, reader) ==
  \A i \in DOMAIN parts :
    IsField(RunField(Decoders[s][i], Decoder(parts[i], reader)), whole[i])
CapturesCut(s, buf, manager, reader) ==
  \E parts \in {CaptureAllFields(s, Decoder(buf, manager)).v} :
    FlattenSeq(parts) = buf /\ PartsFit(s, parts, Decode(s, buf, reader).v, reader)
==============================================================================
