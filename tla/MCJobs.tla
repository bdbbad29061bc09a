------------------------------- MODULE MCJobs -------------------------------
(* Instances of Jobs for TLC, one per configuration file.                  *)
EXTENDS Jobs
=============================================================================
