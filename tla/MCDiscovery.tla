------------------------------ MODULE MCDiscovery ------------------------------
(* Discovery over two streams and two descriptors of each.                    *)
EXTENDS Discovery
=============================================================================
