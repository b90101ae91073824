------------------------------- MODULE CxlJob -------------------------------
(***************************************************************************)
(* The host/device contract of runtime/include/cira_cxl_job.h: job ids and *)
(* status codes.  A word the code compares only for equality is a string.  *)
(* NOP, BAD_VERSION and BAD_JOB are left out of the sets the submission    *)
(* path ranges over: cira_mmio_submit_job refuses NOP and every id above   *)
(* CALL, and stores the constant version, so the firmware never sees them. *)
(***************************************************************************)

\* Ids that cira_mmio_submit_job lets through.
JobId == {"INSTALL_CACHELINE", "PREFETCH_CHAIN", "STREAM_PREFETCH", "CALL"}

\* Status words the firmware mirrors to the host.
JobStatus == {"SUCCESS", "RUNNING", "BAD_ARGS"}

=============================================================================
