SPECIFICATION Spec
CONSTANTS
    Elements = {1, 2}
    MaxIndex = 4
    MaxCapacity = 8
PROPERTY ImplementsVector
