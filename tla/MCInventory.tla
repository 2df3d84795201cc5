---------------------------- MODULE MCInventory ----------------------------
(* A small repository for Inventory.                                       *)
EXTENDS Inventory

MCPaths == <<".git", ".git/a.go", "README.md", "d", "d/README.md", "d/a.go", "main.gooo">>

MCParent ==
  [path \in ToSet(MCPaths) |->
     CASE path = ".git/a.go" -> ".git"
       [] path \in {"d/README.md", "d/a.go"} -> "d"
       [] OTHER -> "."]

MCTexts == {<<>>, <<"end", "x">>, <<"x", "end">>}
=============================================================================
