\* The generators' pass checks: EnumScan with the bounds of its tables and gptpipc flavours, SmCreate over
\* lists of up to 3 lines of up to 3 characters, UbGenconf over headers of up to 3 defines,
\* the generated store over headers of up to 2 items and strings of up to 3 characters,
\* PcapConv over captures of up to 2 packets and -r arguments of up to 2 pieces,
\* Codec over eventconfs with integers at the edges of the (scaled) int32 range.
CONSTANTS
    Target = Target
    Other = Other
    None = None
SPECIFICATION Spec
INVARIANTS
    TableIndexedByValue
    OneItemListsEnumerators
    EnumsMatchHeader
    ItemsAreLogicalLines
    SmNameIsSnakeCase
    MkvitemsAreInitials
    GeneratedSmCompiles
    ValuesTestPasses
    SetFailsOnlyOnUnknown
    ReadsBackLastSet
    ConvertsRequestedPorts
    PackedRequestDecodes
    MenuFollowsOperator
    ScenariosPassEventInit
