---------------------------- MODULE MCSyncWorker ----------------------------
(* Instances of SyncWorker for TLC.  One payload cannot be built; it is not  *)
(* the first of its chunk, so it travels with valid ones.                    *)
EXTENDS SyncWorker

MCJobs == 1..4
MCUnsendable == {<<2, 1>>}
=============================================================================
