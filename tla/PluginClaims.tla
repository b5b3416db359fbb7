---------------------------- MODULE PluginClaims ----------------------------
(***************************************************************************)
(* What a comment of FlintPlugin::shutdown asks for and shutdown() does    *)
(* not do, stated of FlintPlugin.                                          *)
(***************************************************************************)
EXTENDS FlintPlugin

\* "any threads ... should be released here so that this object can be safely
\* destroyed": no thread is left in the io_service when ~FlintPlugin destroys
\* it.  shutdown() takes the work away and neither stops the io_service nor
\* joins the thread, which stays while an operation is under way.
SafelyDestroyed == plugin = "gone" => thread # "running"
=============================================================================
