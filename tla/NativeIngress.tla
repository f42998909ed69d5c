---------------------------- MODULE NativeIngress ----------------------------
(***************************************************************************)
(* The door of the native runtime: what the typed bridge does with the     *)
(* source statement and the inputs that preparation hands on, before it    *)
(* exports the Arrow streams.                                              *)
(***************************************************************************)
EXTENDS PreparedTables

(* The bridge looks an input up by the folded name, in the order of the    *)
(* inputs: a name of the caller comes before the names a statement added,  *)
(* and a carrier comes last.                                               *)
FirstFolded(inputs, n) ==
  IF \E d \in DOMAIN inputs : d # n /\ DatasetKey(d) = DatasetKey(n)
  THEN inputs[CHOOSE d \in DOMAIN inputs : d # n /\ DatasetKey(d) = DatasetKey(n)]
  ELSE inputs[n]

Consumed(ref) == ~HasOptions(ref.opts) /\ ref.in = NoVar
Unconsumed(refs) == \E s \in DOMAIN refs : ~Consumed(refs[s])

(* _normalize_prepared_set: the reference to a prepared carrier loses its  *)
(* options and its companions                                              *)
Normalized(inputs, refs) ==
  IF FirstFolded(inputs, refs[1].name).prep # "prepared_set" THEN refs
  ELSE <<[refs[1] EXCEPT !.opts = NoOptions, !.in = NoVar]>>

(* validate_prepared_input_contract, before and after the normalization,   *)
(* for a SET statement: the code of its diagnostic, or "none"              *)
Refusal(inputs, given) ==
  LET kinds == PreparedKinds(inputs)
      refs  == Normalized(inputs, given)
  IN  IF Unconsumed(given)
      THEN IF kinds = {} THEN "INPUT_OPTION_NOT_PREPARED" ELSE "PREPARED_INPUT_OPTION_REMAINING"
      ELSE IF kinds # {} /\ (Len(refs) # 1 \/ FirstFolded(inputs, refs[1].name).prep \notin kinds)
      THEN "PREPARED_INPUT_CONTRACT_INVALID"
      ELSE "none"
=============================================================================
