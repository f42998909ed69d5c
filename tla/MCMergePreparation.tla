------------------------ MODULE MCMergePreparation -------------------------
(***************************************************************************)
(* Small MERGE requests for TLC: BY values 1, 2 and missing, a row number  *)
(* as the data of a row, two or three occurrences.                         *)
(***************************************************************************)
EXTENDS MergePreparation

Column(name) == <<"var", name, name>>
k == Column("k")
bigK == <<"var", "k", "K">>
j == Column("j")
x == Column("x")
y == Column("y")
z == Column("z")
ina == Column("ina")
bigIna == <<"var", "ina", "Ina">>
inb == Column("inb")
done == Column("done")
a == <<"a", "a">>
bigA == <<"a", "A">>
b == <<"b", "b">>
other == <<"other", "other">>

(* a table whose rows have these BY values and a number of their own       *)
Table(key, data, values, type) ==
  [cols |-> <<key, data>>, type |-> type,
   rows |-> [i \in DOMAIN values |-> [e \in {key, data} |-> IF e = key THEN values[i] ELSE i]]]
Data(data, n) == [cols |-> <<data>>, type |-> "int", rows |-> [i \in 1..n |-> [e \in {data} |-> i]]]
Source(table, prep) == [kind |-> "table", table |-> table, prep |-> prep]
Stream1 == [kind |-> "stream", prep |-> "none"]
Of(name, opts, in) == [name |-> name, opts |-> opts, in |-> in]
Plain(name, in) == Of(name, NoOptions, in)
Inputs(t, u) == (a :> Source(t, "none")) @@ (b :> Source(u, "none"))
Request(rs, ks, end, explicit) == [refs |-> rs, by |-> ks, end |-> end, explicit |-> explicit]

Values == {1, 2, Null}
UpTo(n, S) == UNION {[1..m -> S] : m \in 0..n}

(* every way two sources with up to three rows line up by one key          *)
TwoByKey ==
  {Request(<<Plain(a, ina), Plain(b, inb)>>, <<k>>, NoVar,
           Inputs(Table(k, x, v, "int"), Table(bigK, y, w, "int"))) :
     v \in UpTo(3, Values), w \in UpTo(3, Values)}
(* three sources, no IN= on the third; and without BY                      *)
ThreeByKey ==
  {Request(<<Plain(a, ina), Plain(b, inb), Plain(other, NoVar)>>, <<k>>, NoVar,
           Inputs(Table(k, x, v, "int"), Table(bigK, y, w, "int"))
             @@ (other :> Source(Table(k, z, u, "int"), "none"))) :
     v \in UpTo(2, {1, 2}), w \in UpTo(2, {1, 2}), u \in UpTo(2, {1, 2})}
ThreeInStep ==
  {Request(<<Plain(a, ina), Plain(b, bigIna), Plain(other, inb)>>, <<>>, NoVar,
           Inputs(Data(x, l), Data(y, m)) @@ (other :> Source(Data(z, n), "none"))) :
     l \in 0..3, m \in 0..3, n \in 0..3}

(* two BY columns                                                          *)
Pairs == {<<1, 1>>, <<1, 2>>, <<2, 1>>, <<Null, 1>>}
PairTable(data, vs) ==
  [cols |-> <<k, data, j>>, type |-> "int",
   rows |-> [i \in DOMAIN vs |-> (k :> vs[i][1]) @@ (j :> vs[i][2]) @@ (data :> i)]]
TwoKeys ==
  {Request(<<Plain(a, ina), Plain(b, inb)>>, <<k, j>>, NoVar, Inputs(PairTable(x, v), PairTable(y, w))) :
     v \in UpTo(2, Pairs), w \in UpTo(2, Pairs)}

(* options, IN= and END= names that collide or are used twice              *)
Opt(field, value) == [NoOptions EXCEPT ![field] = value]
DropOf(e) == Opt("drop", {ColumnKey(e)})
OptionsOfA == {NoOptions, DropOf(x), DropOf(k), Opt("where", <<k, {1}>>), Opt("where", <<z, {1}>>),
               Opt("rename", <<x, y>>), Opt("rename", <<k, bigK>>), Opt("rename", <<z, y>>),
               Opt("firstobs", 2), Opt("firstobs", 0), Opt("obs", 2), Opt("obs", 0)}
OptionsOfB == {NoOptions, DropOf(k), Opt("rename", <<k, j>>)}
Optioned ==
  {Request(<<Of(a, oa, va), Of(b, ob, vb)>>, ks, end,
           Inputs(Table(k, x, <<2, 1, 1>>, "int"), Table(k, y, <<1, 2>>, "int"))) :
     oa \in OptionsOfA, ob \in OptionsOfB, va \in {NoVar, ina, x}, vb \in {NoVar, bigIna, ina, inb},
     ks \in {<<>>, <<k>>, <<bigK>>}, end \in {NoVar, done, y}}

(* one dataset named twice, inputs under two spellings, sources that are   *)
(* missing, streams or prepared before, types of BY columns                *)
SmallA == Table(k, x, <<2, 1, 1>>, "int")
SmallB == Table(k, y, <<1, 2>>, "int")
Twice ==
  {Request(<<Of(a, oa, ina), Of(n, ob, inb)>>, ks, NoVar, e) :
     oa \in {NoOptions, DropOf(x), DropOf(k)},
     ob \in {NoOptions, DropOf(x), Opt("rename", <<x, y>>)}, n \in {a, bigA}, ks \in {<<>>, <<k>>},
     e \in {(d :> Source(SmallA, "none")) : d \in {a, bigA}}}
Kinds ==
  {Request(<<Of(a, o, ina), Plain(b, inb)>>, <<k>>, NoVar, e) :
     o \in {NoOptions, Opt("obs", 2)},
     e \in {(a :> Source(SmallA, "none"))}
           \cup {(a :> s) @@ (b :> t) @@ (other :> Source(SmallB, p)) :
                   s \in {Stream1, Source(SmallA, "none"), Source(SmallA, "prepared_set")},
                   t \in {Stream1, Source(SmallB, "none")},
                   p \in {"none", "prepared_set", "prepared_merge"}}}
Types ==
  {Request(<<Plain(a, ina), Plain(b, inb)>>, <<k>>, NoVar,
           Inputs(Table(k, x, IF t = "null" THEN <<Null, Null>> ELSE <<1, 2>>, t),
                  Table(k, y, <<1, 2>>, u))) :
     t \in {"int", "string", "large_string", "null"}, u \in {"int", "string", "large_string"}}

MCRequests ==
  UNION {TwoByKey, ThreeByKey, ThreeInStep, TwoKeys, Optioned, Twice, Kinds, Types}
=============================================================================
