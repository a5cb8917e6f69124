-------------------------------- MODULE Jobs --------------------------------
(* What the queue (JobQueue) and the lock manager (JobLock) have in common. *)
CONSTANTS
  Job, NoJob,      \* job IDs (uuids); "no job"
  Worker           \* worker goroutines of all pools
=============================================================================
