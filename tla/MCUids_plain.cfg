\* One server with the pattern "{layer_id}{expert_id}", 12 layers of 11 experts.
CONSTANTS
    s1 = s1
    s2 = s2
    Servers <- MCOneServer
    NumExperts <- MCExperts11
    NumLayers <- MCLayers12
    LayersStart <- MCStart1
    Pattern <- MCPlain
SPECIFICATION Spec
INVARIANT HostsEveryGeneratedUid
