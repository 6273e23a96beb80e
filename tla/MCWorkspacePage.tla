---------------------------- MODULE MCWorkspacePage ----------------------------
(* Instances of WorkspacePage for TLC. *)
EXTENDS WorkspacePage, TLC

\* Two conversations of one project and one of another.
ThreeConversations == "a" :> "P" @@ "b" :> "P" @@ "c" :> "Q"
=============================================================================
