---------------------------- MODULE MCExportJobs ----------------------------
(* Model-checking instance of ExportJobs: one job, two workers and two      *)
(* create requests.  No symmetry: a liveness property is checked.           *)
EXTENDS ExportJobs
=============================================================================
