SPECIFICATION NetSpec
CONSTANTS
    K = 4
    S = 2
    L = 4
    H = 2
    N = 60
    MaxHops = 70
    INT_MAX_HOPS = 3
    Wait = {0, 2}
    Wire = {1, 5}
    MaxFrames = 2
    Flow <- MCFlow
    EndHost <- MCHost
    IntSwitch <- MCSwitch
    Port <- MCPort
    HostPort <- MCAttach
    tb_swid <- MCSwid
    LinkedTo <- MCNeighbor
    FarPort <- MCPeerPort
    tb_ipv4_lpm <- MCLpm
    tb_ecmp_nhop <- MCEcmpNhop
    Group = 2
    Offset <- MCOffset
INVARIANTS ReplayIsRoute UidIsGlobalLabel StackIsRoute DeltaIsTheLinks
PROPERTIES Delivered
CHECK_DEADLOCK FALSE
