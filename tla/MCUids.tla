------------------------------ MODULE MCUids -------------------------------
EXTENDS Uids

CONSTANTS s1, s2

MCServers == {s1, s2}
MCOneServer == {s1}

(* The spec's example pattern "x.{layer_id}.{expert_id}".                  *)
DottedPattern == <<"x", ".", LayerPh, ".", ExpertPh>>
(* A pattern without separators, "{layer_id}{expert_id}".                 *)
PlainPattern == <<LayerPh, ExpertPh>>

MCSmall == [s \in MCServers |-> 2]
MCStart == [s \in MCServers |-> 0]
MCDotted == [s \in MCServers |-> DottedPattern]

(* Twelve layers of eleven experts: the first sizes at which two index    *)
(* pairs, (1, 10) and (11, 0), concatenate to the same digits.            *)
MCLayers12 == [s \in MCOneServer |-> 12]
MCExperts11 == [s \in MCOneServer |-> 11]
MCStart1 == [s \in MCOneServer |-> 0]
MCPlain == [s \in MCOneServer |-> PlainPattern]
=============================================================================
