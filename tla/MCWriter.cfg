\* Two writer slots and two admission policies: every mix of judgements
\* (both true, one false, both false) and every mask.
CONSTANTS
    Writers = {w1, w2}
    Policies = {p1, p2}
SYMMETRY MCSymmetry
SPECIFICATION Spec
INVARIANT NotifyExactlyOnce
CHECK_DEADLOCK FALSE
