----------------------------- MODULE MCNodeRuntime ----------------------------
(* NodeRuntime with one command the interface awaits and one it does not.     *)
EXTENDS NodeRuntime

UpdateOrDownload == {"update", "download"}
=============================================================================
