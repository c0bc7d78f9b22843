-------------------------------- MODULE MCHost --------------------------------
EXTENDS Host, TLC
CONSTANTS p1, p2
MCRuns == p1 :> Commands @@ p2 :> {"start"}
==============================================================================
