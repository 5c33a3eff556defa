SPECIFICATION Spec
CONSTANTS
    NULL = NULL
    Totals <- MCTotals
    PageNumbers <- MCPageNumbers
    Sizes <- MCSizes
    PageSizes <- MCPageSizes
    Memo <- MCMemo
    Falsy <- MCFalsy
    Text <- MCText
    Configurations <- MCConfigurations
    Exports <- MCExports
    Imports <- MCImports
    Environments <- MCEnvironments
INVARIANTS
    PagesPartitionRows
    RangeIsOneTab
    ExportIsReadBack
    BoxMatchesPages
CHECK_DEADLOCK FALSE
