----------------------------- MODULE MCTeamPlan -----------------------------
(* All plans of up to three tasks. *)
EXTENDS TeamPlan

ThreeKeys == <<"coding", "docs", "verify">>
=============================================================================
