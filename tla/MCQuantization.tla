--------------------------- MODULE MCQuantization ---------------------------
EXTENDS Quantization

(* Two attribute names, one a suffix of the other.                         *)
NameA  == <<"a">>
NameBA == <<"b", "a">>
MCNames == {NameA, NameBA}
MCNameOrder == <<NameA, NameBA>>

(* Exclusion lists over a bare name, a non-name and a dotted path; the      *)
(* empty one is what the orchestrator passes.                              *)
KeyB    == <<"b">>
KeyBA_A == <<"b", "a", ".", "a">>
MCExclusions == SUBSET {NameA, KeyB, KeyBA_A}

(* The spec's testable property 6, with "a" for "lm_head".                  *)
MCOneKey == {{NameA}}
=============================================================================
