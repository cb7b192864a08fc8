---------------------------- MODULE MCReportFlow ----------------------------
(* Bounds for ReportFlow: the scheduler's thread and a request's thread.   *)
EXTENDS ReportFlow

=============================================================================
