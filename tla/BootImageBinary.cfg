\* An image of a kernel that is not UTF-8 text, read back.
CONSTANT MaxSlab = 1
SPECIFICATION Spec
INVARIANT BuiltBoots
