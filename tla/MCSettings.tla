------------------------------ MODULE MCSettings ------------------------------
(* An owner and a member who may be an administrator. *)
EXTENDS Settings, TLC

Order(command, values) == {[command |-> command, value |-> v] : v \in values}

MCOrders == Order("start", {None}) \cup Order("stop", {None})
              \cup Order("greeting", {"hi", "disable"}) \cup Order("lang", {"en"})
              \cup Order("gab", {51}) \cup Order("text", {"plain", "question"})
              \cup Order("join", {None})

MCDefault == [locale |-> "ru", mode |-> "classic"]

Symmetry == Permutations(Handlers)
=============================================================================
