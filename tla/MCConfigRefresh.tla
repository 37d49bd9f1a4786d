-------------------------- MODULE MCConfigRefresh --------------------------
(***************************************************************************)
(* Instances of ConfigRefresh for TLC: one or two entries, two addresses,  *)
(* the controller and the node server in one process (--role=all).         *)
(***************************************************************************)
EXTENDS ConfigRefresh

CONSTANTS ns1, ns2, addr1, addr2, addr3

Of(a, b) == [n \in Entries |-> IF n = ns1 THEN a ELSE b]
Yaml(a, b) == [entries |-> Of(a, b), parses |-> TRUE]
Broken(a, b) == [entries |-> Of(a, b), parses |-> FALSE]

(* The first entry moves, the second comes, goes and is written wrongly; or *)
(* Unmarshal can decode the second entry only, and the first stays.         *)
EditedFiles ==
  {Yaml(addr1, Absent), Yaml(addr2, addr1), Yaml(addr2, Bad), Yaml(addr1, Unset),
   Broken(Absent, addr2)}
ValidFiles == {Yaml(addr1, Absent), Yaml(addr2, addr1), Yaml(addr2, Absent)}

SomeSecrets == {Yaml(addr3, Absent), Broken(Absent, addr3)}
NoSecrets == {}

============================================================================
