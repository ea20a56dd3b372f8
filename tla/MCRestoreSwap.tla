---------------------------- MODULE MCRestoreSwap ----------------------------
EXTENDS RestoreSwap

Fails(steps, late) == [ignored |-> steps, lateLoss |-> late]

\* The clean-up of the staging folder and of the marker may fail; and: every
\* best-effort step may, and the staging folder may vanish at any time.
MCSettings == {Fails({"staging", "marker"}, FALSE), Fails(BestEffort, TRUE)}

\* Nothing fails silently.
MCClean == {Fails({}, FALSE)}

\* restore-old/{id} may be left behind.
MCResidue == {Fails({"old"}, FALSE)}
=============================================================================
