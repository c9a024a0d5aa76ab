CONSTANTS
    CardSize = 5
    MaxAge = 4
    Capacity = 65
    OldSize = 20
    Bottom <- MCBottom
    Classes <- MCClasses
    ClassOf <- MCClassOf
    Layouts <- MCLayouts
SPECIFICATION Spec
INVARIANTS TypeOK SizesKept ListsExact GraphKept DyingNotified
