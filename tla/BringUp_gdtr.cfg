SPECIFICATION Spec
INVARIANT GdtrAlwaysPutBack
