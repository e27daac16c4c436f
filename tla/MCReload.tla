------------------------------ MODULE MCReload ------------------------------
(* An app that imports a package of modules, which imports another module. *)
EXTENDS Reload, TLC

CONSTANTS app, pkg, part, lib

MCPlace == (app :> 1) @@ (pkg :> 2) @@ (part :> 3) @@ (lib :> 4)
MCRoot == (app :> app) @@ (pkg :> pkg) @@ (part :> pkg) @@ (lib :> lib)
MCImports == (app :> <<pkg>>) @@ (pkg :> <<part>>) @@ (part :> <<lib>>) @@ (lib :> <<>>)
=============================================================================
