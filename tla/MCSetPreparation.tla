-------------------------- MODULE MCSetPreparation --------------------------
(***************************************************************************)
(* Small SET requests for TLC: BY values 1, 2 and missing, a row number as *)
(* the data of a row, one to three occurrences.                            *)
(***************************************************************************)
EXTENDS SetPreparation

Column(name) == <<"var", name, name>>
k == Column("k")
bigK == <<"var", "k", "K">>
j == Column("j")
x == Column("x")
y == Column("y")
z == Column("z")
ina == Column("ina")
bigIna == <<"var", "ina", "Ina">>
inb == Column("inb")
done == Column("done")
src == Column("src")
a == <<"a", "a">>
bigA == <<"a", "A">>
b == <<"b", "b">>
bigB == <<"b", "B">>
c == <<"c", "c">>

Table(key, data, values, type) ==
  [cols |-> <<key, data>>, type |-> type,
   rows |-> [i \in DOMAIN values |-> [e \in {key, data} |-> IF e = key THEN values[i] ELSE i]]]
Tab(table) == [kind |-> "table", table |-> table, prep |-> "none"]
Prepared(table, prep) == [kind |-> "table", table |-> table, prep |-> prep]
Stream1 == [kind |-> "stream", prep |-> "none"]
Of(name, opts, in) == [name |-> name, opts |-> opts, in |-> in]
Plain(name) == Of(name, NoOptions, NoVar)
Statement(rs, ks, explicit) ==
  [refs |-> rs, by |-> ks, end |-> NoVar, indsname |-> NoVar, lags |-> <<>>, explicit |-> explicit]
Opt(field, value) == [NoOptions EXCEPT ![field] = value]
DropOf(e) == Opt("drop", {ColumnKey(e)})
UpTo(n, S) == UNION {[1..m -> S] : m \in 0..n}
Values == {1, 2, Null}

LagOf(e, n) == [column |-> e, step |-> -n, default |-> Null, helper |-> Column("__lag__"), owned |-> TRUE]
LeadOf(e, n) == [column |-> e, step |-> n, default |-> 0, helper |-> Column("__lead__"), owned |-> TRUE]
Shift == [LagOf(x, 1) EXCEPT !.owned = FALSE]

(* every way two sources with up to two rows interleave, with all the      *)
(* automatic variables and helpers                                         *)
TwoByKey ==
  {[Statement(<<Of(a, NoOptions, ina), Of(b, NoOptions, inb)>>, <<k>>,
              (a :> Tab(Table(k, x, v, "int"))) @@ (b :> Tab(Table(k, y, w, "int"))))
      EXCEPT !.end = done, !.indsname = src, !.lags = <<LagOf(k, 1), LeadOf(x, 2)>>] :
     v \in UpTo(3, Values), w \in UpTo(2, Values)}
(* three sources without BY, plain and with END=                           *)
ThreeInTurn ==
  {[Statement(<<Plain(a), Plain(b), Plain(c)>>, <<>>,
              (a :> Tab(Table(k, x, u, "int"))) @@ (b :> Tab(Table(k, y, v, "int")))
                @@ (c :> Tab(Table(j, x, w, "int")))) EXCEPT !.end = end] :
     u \in UpTo(1, {1, 2}), v \in UpTo(2, {1, 2}), w \in UpTo(1, {1, 2}), end \in {NoVar, done}}
(* two BY columns                                                          *)
Pairs == {<<1, 1>>, <<1, 2>>, <<2, 1>>, <<Null, 1>>}
PairTable(data, vs) ==
  [cols |-> <<k, data, j>>, type |-> "int",
   rows |-> [i \in DOMAIN vs |-> (k :> vs[i][1]) @@ (j :> vs[i][2]) @@ (data :> i)]]
TwoKeys ==
  {Statement(<<Plain(a), Plain(b)>>, <<k, j>>, (a :> Tab(PairTable(x, v))) @@ (b :> Tab(PairTable(x, w)))) :
     v \in UpTo(2, Pairs), w \in UpTo(2, Pairs)}

(* options, automatic variables that collide or are shared, and helpers of *)
(* columns that are there, dropped, computed in the block or respelled     *)
SmallA == Table(k, x, <<2, 1, 1>>, "int")
SmallB == Table(k, y, <<1, 2>>, "int")
Small == (a :> Tab(SmallA)) @@ (b :> Tab(SmallB))
OptionsOfA == {NoOptions, DropOf(x), DropOf(k), Opt("where", <<k, {1}>>), Opt("where", <<z, {1}>>),
               Opt("rename", <<x, y>>), Opt("rename", <<k, j>>), Opt("rename", <<z, y>>),
               Opt("firstobs", 2), Opt("firstobs", 0), Opt("obs", 1), Opt("obs", 0)}
Optioned1 ==
  {[Statement(<<Of(a, oa, va), Of(b, ob, vb)>>, ks, Small) EXCEPT !.end = end] :
     oa \in OptionsOfA, ob \in {NoOptions, DropOf(k), Opt("obs", 1)}, va \in {NoVar, ina, x},
     vb \in {NoVar, bigIna, ina, inb}, ks \in {<<>>, <<bigK>>}, end \in {NoVar, done, y}}
Helped ==
  {[Statement(rs, ks, Small) EXCEPT !.lags = <<l>>, !.indsname = n] :
     rs \in {<<Plain(a)>>, <<Of(a, Opt("where", <<k, {1}>>), NoVar)>>, <<Of(a, Opt("where", <<k, {}>>), NoVar)>>,
             <<Plain(a), Plain(b)>>, <<Of(b, DropOf(y), NoVar), Plain(a)>>},
     ks \in {<<>>, <<k>>}, n \in {NoVar, src, x},
     l \in {LagOf(x, 1), LagOf(y, 1), LagOf(z, 1), LagOf(bigK, 2), LeadOf(k, 1), LeadOf(z, 2), Shift}}

(* one dataset named twice, under two spellings, missing, as a stream, or  *)
(* beside inputs prepared before; types of the shared columns              *)
Twice ==
  {[Statement(<<Of(a, oa, ina), Of(n, ob, inb)>>, ks, a :> Tab(SmallA)) EXCEPT !.indsname = src] :
     oa \in {NoOptions, DropOf(x), Opt("obs", 1)}, ob \in {NoOptions, Opt("firstobs", 2)},
     n \in {a, bigA}, ks \in {<<>>, <<k>>}}
Kinds ==
  {[Statement(<<Of(a, o, v), Plain(b)>>, ks, e) EXCEPT !.lags = ls] :
     o \in {NoOptions, Opt("obs", 2)}, v \in {NoVar, ina}, ks \in {<<>>, <<k>>}, ls \in {<<>>, <<LagOf(x, 1)>>},
     e \in {a :> Tab(SmallA)}
           \cup {(a :> s) @@ (b :> t) @@ (c :> Prepared(SmallB, p)) :
                   s \in {Stream1, Tab(SmallA)}, t \in {Stream1, Tab(SmallB)},
                   p \in {"none", "prepared_set", "prepared_merge"}}}
Single ==
  {Statement(<<Of(a, o, v)>>, ks, a :> s) :
     o \in {NoOptions, Opt("obs", 2)}, v \in {NoVar, ina}, ks \in {<<>>, <<k>>}, s \in {Stream1, Tab(SmallA)}}
Types ==
  {Statement(<<Of(a, o, NoVar), Plain(b)>>, ks,
             (a :> Tab(Table(k, x, IF t = "null" THEN <<Null, Null>> ELSE <<1, 2>>, t)))
               @@ (b :> Tab(Table(k, y, <<1, 2>>, u)))) :
     o \in {NoOptions, DropOf(k)}, ks \in {<<>>, <<k>>},
     t \in {"int", "string", "large_string", "null"}, u \in {"int", "string", "large_string"}}

MCRequests ==
  UNION {TwoByKey, ThreeInTurn, TwoKeys, Optioned1, Helped, Twice, Kinds, Single, Types}
=============================================================================
