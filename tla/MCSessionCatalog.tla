-------------------------- MODULE MCSessionCatalog --------------------------
(* Instances of SessionCatalog for TLC. *)
EXTENDS SessionCatalog

CONSTANTS ka, kb, kc, kd, lo, up, t1, t2, t3

N(k, s) == <<k, s>>
B(r, w) == [reads |-> r, writes |-> w]

MCThreads == {t1, t2, t3}
TwoThreads == {t1, t2}
OneThread == {t1}
MCLoaders == {t1}

(* ka is loaded, kb is an output *)
LoadedOnly == {N(ka, lo)}
AllLo == {N(ka, lo), N(kb, lo)}

(* one spelling per key *)
PlainPrograms ==
  { << B({N(ka, lo)}, {N(kb, lo)}), B({N(kb, lo)}, {N(kb, lo)}) >>,
    << B({N(kb, lo)}, {N(kb, lo)}) >> }

(* with an empty source and a block of two targets *)
RichPrograms ==
  PlainPrograms \cup
  { << B({N(ka, lo)}, {N(kb, lo), N(kc, lo)}), B({N(kb, lo), N(kc, lo)}, {N(kc, lo)}) >>,
    << >> }

(* kd is written in two spellings, in both orders and back, and never read *)
RespellPrograms ==
  RichPrograms \cup
  { << B({N(ka, lo)}, {N(kd, s)}), B({N(ka, lo)}, {N(kd, r)}) >> :
      s \in {lo, up}, r \in {lo, up} } \cup
  { << B({N(ka, lo)}, {N(kd, lo)}), B({N(ka, lo)}, {N(kd, up)}), B({N(ka, lo)}, {N(kd, lo)}) >> }

(* a DATA block writes the name that was loaded, and a later one reads it *)
OverwritePrograms ==
  { << B({N(ka, s)}, {N(ka, s)}), B({N(ka, s)}, {N(kb, s)}) >> : s \in {lo, up} }
LoadAnyCase == {N(ka, lo), N(ka, up)}

ModeChoices == {"bogus", None}
DefaultMode == {None}
=============================================================================
