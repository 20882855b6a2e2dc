------------------------- MODULE MCColocatedTraining -------------------------
EXTENDS ColocatedTraining
=============================================================================
