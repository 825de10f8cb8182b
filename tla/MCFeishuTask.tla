---------------------------- MODULE MCFeishuTask ----------------------------
(* Instances of FeishuTask for TLC. *)
EXTENDS FeishuTask
=============================================================================
