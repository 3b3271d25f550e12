--------------------------- MODULE MCBrowserClient ---------------------------
(* Instances of BrowserClient for TLC. *)
EXTENDS BrowserClient, TLC

Alike == Permutations(Tab)
=============================================================================
