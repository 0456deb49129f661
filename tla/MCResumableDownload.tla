-------------------------- MODULE MCResumableDownload --------------------------
(* Three versions, two of them of the same size, and two mirrors, one without  *)
(* Range support.  MaxRetries in the .cfg is the default of nr_retry.         *)
EXTENDS ResumableDownload

MCVersions == {1,2,3}
MCSize == [v \in MCVersions |-> IF v = 3 THEN 2 ELSE 3]
MCMirrors == {"m1", "m2"}
MCRanged == {"m1"}
================================================================================
