-------------------------- MODULE MCImageCacheJobs --------------------------
(* ImageCacheJobs for TLC: its constants are numbers.                      *)
EXTENDS ImageCacheJobs

=============================================================================
