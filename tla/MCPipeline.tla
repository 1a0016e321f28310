------------------------------ MODULE MCPipeline ------------------------------
(* Instances of Pipeline. *)
EXTENDS Pipeline

OneDir == {[service |-> "a", category |-> "main", host |-> "host"]}

ThreeEach == [d \in Dir |-> 3]
=============================================================================
