---------------------------- MODULE MCPatchDbFeed ----------------------------
(* Two pointers, one below the other, and a document next to both.         *)
EXTENDS PatchDbFeed

\* Every revision touches the root; some touch the package below it.
MCTouch == {{"root"}, {"root", "package"}}
MCPointer == {"root", "package"}
MCAccept == {2, 3}

=============================================================================
