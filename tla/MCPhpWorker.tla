------------------------------ MODULE MCPhpWorker ------------------------------
(* PhpWorker for TLC: a core file, a plugin that bundles a package, and a package. *)
EXTENDS PhpWorker

Core == <<"wp-includes", "f">>
Plugin == <<"wp-content", "plugins", "shop", "vendor", "x", "f">>
Package == <<"vendor", "x", "y", "f">>

MCFiles == {Core, Plugin, Package}
MCHome == [f \in MCFiles |-> IF f = Package THEN 1 ELSE 0]

=============================================================================
