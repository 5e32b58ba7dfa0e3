---------------------------- MODULE Quantization ----------------------------
(***************************************************************************)
(* 4-bit quantization of hivemind/moe/server/bnb_quantization.py:          *)
(* quantization(model) sets the two compatibility flags, replaces the      *)
(* nn.Linear submodules with replace_with_bnb_layers and casts the         *)
(* floating parameters.                                                    *)
(*                                                                         *)
(* A module tree is a function from paths (sequences of attribute names)   *)
(* to the kind of the submodule there.  Names and exclusion keys are       *)
(* character sequences, since the exclusion test works on substrings of    *)
(* the dotted path.  Weights are abstracted away: a replaced layer copies  *)
(* the original's weight and bias (lines 122-124).                         *)
(***************************************************************************)
EXTENDS Naturals, Sequences, SequencesExt

CONSTANTS
    Names,        \* the attribute names a submodule may have
    NameOrder,    \* the order named_children yields them in
    Exclusions    \* the possible modules_to_not_convert lists (as sets of keys)

ASSUME QuantizationAssumption ==
    /\ NameOrder \in Seq(Names) /\ ToSet(NameOrder) = Names
    /\ \A n \in Names : n \in Seq(STRING) /\ n # <<>>

VARIABLES
    model,      \* path -> "Linear", "Linear4bit", "Other", "Container"
    excl,       \* the modules_to_not_convert list passed down
    replaced,   \* the has_been_replaced flag of the outermost call
    flags,      \* <<is_loaded_in_4bit, is_loaded_in_8bit>>, False while unset
    pc          \* "fresh", "quantized"

vars == <<model, excl, replaced, flags, pc>>

-----------------------------------------------------------------------------
(* ".".join(current_key_name)                                              *)
Dotted(key) ==
    FlattenSeq([i \in 1..(2 * Len(key) - 1) |->
        IF i % 2 = 1 THEN key[(i + 1) \div 2] ELSE <<".">>])

(* Python's `k in s` on strings.                                           *)
Occurs(k, s) == \E i \in 0..(Len(s) - Len(k)) : SubSeq(s, i + 1, i + Len(k)) = k

(* The direct children of the submodule at p, in named_children order.     *)
Children(m, p) ==
    SelectSeq([i \in DOMAIN NameOrder |-> p \o <<NameOrder[i]>>],
              LAMBDA c : c \in DOMAIN m)

(* Lines 93-100: proceed is False when some key matches the dotted path.   *)
KeyExcluded(key, ks) ==
    \E k \in ks :
        \/ Occurs(k, Dotted(key)) /\ Occurs(k \o <<".">>, Dotted(key))
        \/ k = Dotted(key)

(* Line 91 and 101: a Linear child is replaced unless its bare name is a   *)
(* key or its dotted path is excluded.                                     *)
Converts(m, c, key, ks) ==
    m[c] = "Linear" /\ c[Len(c)] \notin ks /\ ~KeyExcluded(key, ks)

(* Mutant of ReplaceChildren: the recursion of lines 128-132 is missing.   *)
RECURSIVE ReplaceChildrenFlat(_, _, _, _)
ReplaceChildrenFlat(m, cs, key, ks) ==
    IF cs = <<>> THEN <<m, FALSE, key>>
    ELSE LET c    == Head(cs)
             key1 == Append(key, c[Len(c)])
             m1   == IF Converts(m, c, key1, ks) THEN [m EXCEPT ![c] = "Linear4bit"] ELSE m
             rest == ReplaceChildrenFlat(m1, Tail(cs), Front(key1), ks)
         IN <<rest[1], m1 # m \/ rest[2], rest[3]>>

(* Mutant of ReplaceChildren: the subtree's flag is not ORed in (line     *)
(* 132 dropped).                                                           *)
RECURSIVE ReplaceChildrenNoSubFlag(_, _, _, _)
ReplaceChildrenNoSubFlag(m, cs, key, ks) ==
    IF cs = <<>> THEN <<m, FALSE, key>>
    ELSE LET c    == Head(cs)
             key1 == Append(key, c[Len(c)])
             m1   == IF Converts(m, c, key1, ks) THEN [m EXCEPT ![c] = "Linear4bit"] ELSE m
             sub  == IF Children(m, c) # <<>>
                     THEN ReplaceChildrenNoSubFlag(m1, Children(m, c), key1, ks)
                     ELSE <<m1, FALSE, key1>>
             rest == ReplaceChildrenNoSubFlag(sub[1], Tail(cs), Front(sub[3]), ks)
         IN <<rest[1], m1 # m \/ rest[2], rest[3]>>

(* Mutant of ReplaceChildren: setattr with the dotted path for the name   *)
(* (line 126), which adds an attribute instead of replacing the child.     *)
RECURSIVE ReplaceChildrenSetattrPath(_, _, _, _)
ReplaceChildrenSetattrPath(m, cs, key, ks) ==
    IF cs = <<>> THEN <<m, FALSE, key>>
    ELSE LET c    == Head(cs)
             key1 == Append(key, c[Len(c)])
             m1   == IF Converts(m, c, key1, ks)
                     THEN (Front(c) \o <<Dotted(key1)>>) :> "Linear4bit" @@ m ELSE m
             sub  == IF Children(m, c) # <<>>
                     THEN ReplaceChildrenSetattrPath(m1, Children(m, c), key1, ks)
                     ELSE <<m1, FALSE, key1>>
             rest == ReplaceChildrenSetattrPath(sub[1], Tail(cs), Front(sub[3]), ks)
         IN <<rest[1], m1 # m \/ sub[2] \/ rest[2], rest[3]>>

(* _replace_with_bnb_layers, lines 86-135, over the children cs of one     *)
(* module, with the shared list current_key_name as `key`: push the name,  *)
(* replace a convertible Linear, recurse into a child that has children    *)
(* (the original child, line 128), pop the name.  Returns the tree, the    *)
(* has_been_replaced flag and the key list.                                *)
RECURSIVE ReplaceChildren(_, _, _, _)
ReplaceChildren(m, cs, key, ks) ==
    IF cs = <<>> THEN <<m, FALSE, key>>
    ELSE LET c    == Head(cs)
             key1 == Append(key, c[Len(c)])
             m1   == IF Converts(m, c, key1, ks) THEN [m EXCEPT ![c] = "Linear4bit"] ELSE m
             sub  == IF Children(m, c) # <<>>
                     THEN ReplaceChildren(m1, Children(m, c), key1, ks)
                     ELSE <<m1, FALSE, key1>>
             rest == ReplaceChildren(sub[1], Tail(cs), Front(sub[3]), ks)
         IN <<rest[1], m1 # m \/ sub[2] \/ rest[2], rest[3]>>

(* replace_with_bnb_layers, lines 47-69: the outermost call, with an empty *)
(* key list (lines 88-89).                                                 *)
ReplaceWithBnbLayers(m, ks) ==
    LET r == ReplaceChildren(m, Children(m, <<>>), <<>>, ks) IN <<r[1], r[2]>>

-----------------------------------------------------------------------------
(* The trees of depth at most two over Names: a top-level child is a       *)
(* Linear, another leaf layer, or a container of such leaves.              *)
Leaf == {"Linear", "Other"}

MkTree(top, sub) ==
    LET dom == {<<n>> : n \in {x \in Names : top[x] # "absent"}}
               \cup {<<n, x>> \in {y \in Names : top[y] = "Container"} \X Names :
                        sub[n][x] # "absent"}
    IN [p \in dom |-> IF Len(p) = 1 THEN top[p[1]] ELSE sub[p[1]][p[2]]]

Trees == {MkTree(top, sub) : top \in [Names -> Leaf \cup {"absent", "Container"}],
                             sub \in [Names -> [Names -> Leaf \cup {"absent"}]]}

Init ==
    /\ model \in Trees
    /\ excl \in Exclusions
    /\ replaced = FALSE
    /\ flags = <<FALSE, FALSE>>
    /\ pc = "fresh"

(* quantization(model), lines 14-43, with BASE_QUANT_CONFIG (4-bit, not   *)
(* 8-bit).  The cast loop of lines 40-42 discards the result of           *)
(* param.to(dtype), so it changes nothing.                                 *)
Quantize ==
    /\ pc = "fresh"
    /\ LET r == ReplaceWithBnbLayers(model, excl)
       IN /\ model' = r[1]
          /\ replaced' = r[2]
    /\ flags' = <<TRUE, FALSE>>
    /\ pc' = "quantized"
    /\ UNCHANGED excl

Next == Quantize

Spec == Init /\ [][Next]_vars

TypeOK ==
    /\ DOMAIN model \subseteq Seq(Names)
    /\ model \in [DOMAIN model -> {"Linear", "Linear4bit", "Other", "Container"}]
    /\ replaced \in BOOLEAN
    /\ flags \in BOOLEAN \X BOOLEAN
    /\ pc \in {"fresh", "quantized"}

-----------------------------------------------------------------------------
(* PROPERTIES                                                              *)

(* Spec section 4.2: a child's dotted path is excluded if it equals an     *)
(* exclusion entry or the entry is a prefix of it ending at a segment     *)
(* boundary, so a partial name match does not exclude a sibling.           *)
SpecExcluded(p, ks) ==
    \E k \in ks : k = Dotted(p) \/ IsPrefix(k \o <<".">>, Dotted(p))

(* After quantization the tree has the same shape, and a submodule is a   *)
(* 4-bit layer exactly where the input had an nn.Linear that the spec's   *)
(* exclusion rule does not exclude; everything else is unchanged.          *)
QuantizedAsSpecified ==
    [][pc = "fresh" /\ pc' = "quantized" =>
         /\ DOMAIN model' = DOMAIN model
         /\ \A p \in DOMAIN model :
              model'[p] = IF model[p] = "Linear" /\ ~SpecExcluded(p, excl)
                          THEN "Linear4bit" ELSE model[p]]_vars

(* For any exclusion list, the tree keeps its shape and only nn.Linear    *)
(* layers change; a Linear that no exclusion key occurs in is quantized,   *)
(* and one the spec's rule excludes (its path, or a parent of it, is a     *)
(* key) stays as it is.  Paths that contain a key some other way are the   *)
(* case where code and spec differ (run quant_excl).                       *)
QuantizedUnlessExcluded ==
    [][pc = "fresh" /\ pc' = "quantized" =>
         /\ DOMAIN model' = DOMAIN model
         /\ \A p \in DOMAIN model :
              /\ model[p] # "Linear" => model'[p] = model[p]
              /\ model[p] = "Linear" => model'[p] \in {"Linear", "Linear4bit"}
              /\ model[p] = "Linear" /\ (\A k \in excl : ~Occurs(k, Dotted(p)))
                   => model'[p] = "Linear4bit"
              /\ model[p] = "Linear" /\ SpecExcluded(p, excl) => model'[p] = "Linear"]_vars

(* The flag returned by _replace_with_bnb_layers says whether any layer   *)
(* anywhere in the tree was replaced (line 132 ORs the subtrees' flags).   *)
ReplacedFlagExact ==
    pc = "quantized" => (replaced <=> \E p \in DOMAIN model : model[p] = "Linear4bit")
=============================================================================
