--------------------------- MODULE MCBlockOutputs ---------------------------
(* Small DATA blocks for TLC: two data columns and one IN= variable in the  *)
(* stream, one computed column, two rows, up to three targets.              *)
EXTENDS BlockOutputs

Column(name) == <<"var", name, name>>
x == Column("x")
bigX == <<"var", "x", "X">>
y == Column("y")
z == Column("z")
v == Column("v")
w == Column("w")
ina == Column("ina")
firstX == <<"FIRST", "x", "x">>
b == <<"b", "b">>
bigB == <<"b", "B">>
c == <<"c", "c">>
d == <<"d", "d">>
dictionary == <<"dictionary", "dictionary">>

Opt(field, value) == [NoProjection EXCEPT ![field] = value]
Ref(n, o) == [name |-> n, opts |-> o]
Plain(n) == Ref(n, NoProjection)
Top(rs) == [refs |-> rs, inline |-> FALSE]
Inline(rs) == [refs |-> rs, inline |-> TRUE]
Write(column) == [column |-> column, else |-> FALSE]
WriteElse(column) == [column |-> column, else |-> TRUE]
Row(written, fired) == [written |-> Keys(written), fired |-> fired]
One(list) == IF list = <<>> THEN <<>> ELSE <<list>>

Block ==
  [data |-> <<Plain(b)>>, explicit |-> <<>>, outputs |-> <<>>, source |-> <<x, y, ina>>,
   internal |-> {ina}, writes |-> <<>>, keep |-> <<>>, drop |-> <<>>, rename |-> <<>>,
   labels |-> <<>>, given |-> <<>>, rows |-> <<Row({}, <<>>), Row({}, <<>>)>>]

(* The row view looks an owned value up under the new name of a column, and *)
(* the plan hides by name what the view holds by binding: there the two     *)
(* readings disagree (README, section 9).  In these blocks no RENAME makes  *)
(* the name of a computed or an automatic column, the one it was given by   *)
(* an earlier RENAME included.                                              *)
Pairs(blk) == ToSet(FlattenSeq(blk.rename))
TargetPairs(blk) == UNION {ToSet(blk.data[i].opts.rename) : i \in DOMAIN blk.data}
Computed(blk) == {blk.writes[i].column : i \in DOMAIN blk.writes} \cup blk.internal
NewNames(pairs, cs) == {q[2] : q \in {r \in pairs : ColumnKey(r[1]) \in Keys(cs)}}
Regular(blocks) ==
  {blk \in blocks :
     /\ \A q \in Pairs(blk) \cup TargetPairs(blk) : ColumnKey(q[2]) \notin Keys(Computed(blk))
     /\ \A q \in TargetPairs(blk) :
          ColumnKey(q[2]) \notin Keys(NewNames(Pairs(blk), Computed(blk)))}

(* every KEEP, DROP and RENAME with every projection of the target *)
Writes == {<<>>, <<Write(w)>>, <<Write(x)>>, <<WriteElse(w)>>, <<Write(w), Write(x)>>}
Keeps == {<<>>, <<bigX>>, <<x, w>>, <<y, z>>, <<ina>>}
Drops == {<<>>, <<y>>, <<x, w>>, <<ina>>}
Renames == {<<>>, <<<<x, z>>>>, <<<<bigX, y>>>>, <<<<x, y>>, <<y, z>>>>, <<<<x, y>>, <<y, x>>>>,
            <<<<x, z>>, <<y, z>>>>, <<<<ina, v>>>>, <<<<w, v>>>>, <<<<x, <<"var", "z", "Z">>>>, <<y, z>>>>}
TargetOptions ==
  {NoProjection, Opt("drop", <<z>>), Opt("keep", <<y, v>>), Opt("rename", <<<<x, y>>, <<y, x>>>>),
   Opt("rename", <<<<z, v>>>>), Opt("rename", <<<<ina, v>>, <<y, z>>>>), Opt("rename", <<<<x, y>>>>)}
Projections ==
  Regular({[Block EXCEPT !.data = <<Ref(b, o)>>, !.writes = ws, !.keep = One(k), !.drop = One(dr),
                         !.rename = One(rn),
                         !.rows = <<Row({}, <<>>), Row({ws[i].column : i \in DOMAIN ws}, <<>>)>>] :
             o \in TargetOptions, ws \in Writes, k \in Keeps, dr \in Drops, rn \in Renames})
NoData ==
  {[Block EXCEPT !.source = s, !.internal = {ina, firstX}, !.keep = One(k), !.rename = One(rn)] :
     s \in {<<ina, firstX>>, <<x, firstX, ina>>, <<ina>>},
     k \in {<<>>, <<ina>>, <<firstX>>}, rn \in {<<>>, <<<<ina, v>>>>, <<<<firstX, v>>>>}}

(* every way rows reach targets *)
Statements ==
  {<<>>} \cup
  {<<s, t>> : s \in {Top(<<>>), Top(<<Plain(c)>>), Inline(<<Plain(bigB)>>), Top(<<Plain(b), Plain(c), Plain(bigB)>>)},
              t \in {Inline(<<>>), Inline(<<Plain(d)>>), Top(<<Ref(c, Opt("drop", <<y>>))>>), Inline(<<Plain(b)>>)}}
FiredOf(os) == {f \in {<<>>, <<1>>, <<2>>, <<1, 2>>} : ToSet(f) \subseteq DOMAIN os}
Routes ==
  UNION {{[Block EXCEPT !.data = ds, !.outputs = os, !.explicit = e, !.rows = <<Row({}, f), Row({}, g)>>] :
            ds \in {<<Plain(b)>>, <<Plain(b), Plain(c)>>, <<Plain(c), Ref(b, Opt("keep", <<x>>))>>},
            e \in {<<>>, <<c>>, <<d, b>>}, f \in FiredOf(os), g \in FiredOf(os)} : os \in Statements}

(* references that agree on their options, or do not *)
Options == {NoProjection, Opt("drop", <<x>>), Opt("drop", <<bigX>>), Opt("keep", <<x>>), Opt("in", ina)}
Shared ==
  {[Block EXCEPT !.data = ds, !.outputs = <<Top(<<Ref(b, p), Ref(n, q)>>), Inline(<<Ref(b, r)>>)>>,
                 !.rows = <<Row({}, <<1>>), Row({}, <<2>>)>>] :
     ds \in {<<Plain(b)>>, <<Ref(b, Opt("drop", <<x>>)), Plain(c)>>, <<Plain(b), Plain(bigB)>>, <<>>,
             <<Plain(dictionary)>>},
     n \in {b, c}, p \in Options, q \in Options, r \in Options}
Untargeted == {[Block EXCEPT !.data = <<>>]}

(* Labels of the first source and of the LABEL statement.  A block whose   *)
(* last label is dropped keeps those of the source, so a source has either *)
(* none or one for each of its columns here.                               *)
Label(column, text) == <<column, text>>
Labelled ==
  {[Block EXCEPT !.data = <<Ref(b, o), Plain(c)>>, !.writes = ws, !.given = g, !.labels = l,
                 !.keep = One(k), !.drop = One(dr), !.rename = One(rn)] :
     o \in {NoProjection, Opt("rename", <<<<z, v>>>>), Opt("rename", <<<<x, y>>, <<y, x>>>>), Opt("drop", <<y>>)},
     ws \in {<<>>, <<Write(w)>>},
     g \in {<<>>, <<Label(x, "given"), Label(y, "given too")>>},
     l \in {<<>>, <<Label(x, "said")>>, <<Label(w, "said"), Label(y, "said too")>>},
     k \in {<<>>, <<x>>}, dr \in {<<>>, <<x>>}, rn \in {<<>>, <<<<x, z>>>>, <<<<x, y>>, <<y, z>>>>}}

MCBlocks == UNION {Projections, NoData, Routes, Shared, Untargeted, Labelled}
=============================================================================
