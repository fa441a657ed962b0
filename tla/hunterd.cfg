\* Four shreds in two slots, channels of one and two, packets that arrive up to twice.
SPECIFICATION FairSpec
CONSTANTS
    None = None
    first = first
    last = last
    again = again
    stray = stray
    mintA = mintA
    mintB = mintB
    ones = ones
    Packets = {first, last, again, stray}
    Slots = {1, 2}
    Mints = {mintA, mintB, ones}
    Dexes = {1, 2, 3, 4}
    SlotOf <- MCSlotOf
    IndexOf <- MCIndexOf
    Last = {last, stray}
    MintAt <- MCMintAt
    PoolAt <- MCPoolAt
    LiqAt <- MCLiqAt
    DexesAt <- MCDexesAt
    KeyShaped = {mintA, ones}
    DefaultMint = ones
    SignalCapacity = 1
    OpportunityCapacity = 2
    MaxCopies = 2
INVARIANTS
    TwiceAtMost
    OfOneSlot
    VouchedFor
    EndsDrained
PROPERTIES
    StagesEnd
    PipeSpec
\* The stages end, and the sniffer may wait for packets for ever.
CHECK_DEADLOCK FALSE
