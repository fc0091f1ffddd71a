------------------------------- MODULE MCAbuse -------------------------------
(* Runs that are innocent, or have one flag, or two. *)
EXTENDS Abuse
MCResults == {{}, {"orchestration"}, {"timeout", "network_probe"}}
=============================================================================
