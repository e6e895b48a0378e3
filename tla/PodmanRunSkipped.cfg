SPECIFICATION Spec
INVARIANT AlwaysRemoves
