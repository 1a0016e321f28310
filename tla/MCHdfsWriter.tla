----------------------------- MODULE MCHdfsWriter -----------------------------
(* Instances of HdfsWriter: the service directories found on a collector,  *)
(* and how many files each is given.                                       *)
EXTENDS HdfsWriter

named(service, category) ==
    [service |-> service, category |-> category, host |-> "host"]

OneDir == {named("a", "main")}

TwoServices == {named("a", "main"), named("b", "main")}

TwoCategories == {named("a", "main"), named("a", "errors")}

OneEach == [d \in Dir |-> 1]

TwoEach == [d \in Dir |-> 2]

TwoAndOne == [d \in Dir |-> IF d.service = "a" THEN 2 ELSE 1]
=============================================================================
