SPECIFICATION Spec
CONSTANT MaxOpened = 2
INVARIANT NoneStranded
