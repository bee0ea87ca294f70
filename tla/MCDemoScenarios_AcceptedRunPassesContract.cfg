SPECIFICATION Spec
INVARIANT AcceptedRunPassesContract
