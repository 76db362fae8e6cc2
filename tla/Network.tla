------------------------------ MODULE Network ------------------------------
(* The nodes, as the models of connections and of inventory share them.    *)
CONSTANT Nodes
=============================================================================
