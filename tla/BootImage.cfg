\* Every kind of input; a slab of up to two MiB, rewritten at any time.
CONSTANT MaxSlab = 2
SPECIFICATION Spec
INVARIANTS TypeOK ReportedIsWhole ReportedIsKept BootsOnlyWhole TextReadsBack
