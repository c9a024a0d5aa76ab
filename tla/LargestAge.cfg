CONSTANTS
    CardSize = 5
    MaxAge = 4
    Capacity = 65
    OldSize = 20
    Bottom <- MCBottom
    Classes <- MCClasses
    ClassOf <- MCClassOf
    Layouts <- MCLargestAge
SPECIFICATION Spec
INVARIANT SizesKept
