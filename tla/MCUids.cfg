\* Two servers with the same pattern and sizes against one DHT.
CONSTANTS
    s1 = s1
    s2 = s2
    Servers <- MCServers
    NumExperts <- MCSmall
    NumLayers <- MCSmall
    LayersStart <- MCStart
    Pattern <- MCDotted
SPECIFICATION FairSpec
INVARIANT TypeOK
INVARIANT HostsEveryGeneratedUid
INVARIANT UidsInv
PROPERTY SomeServerServes
