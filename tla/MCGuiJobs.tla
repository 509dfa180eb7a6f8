----------------------------- MODULE MCGuiJobs ------------------------------
(* GuiJobs with three jobs: a scan, an installation and a run can follow   *)
(* each other, and a job can start while another's dialogs are open.       *)
EXTENDS GuiJobs
=============================================================================
