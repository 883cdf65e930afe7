------------------------------- MODULE MCAcpi -------------------------------
(* A small instance of Acpi: packages with a short and a longer length, and *)
(* with each kind of element in each position.                              *)
EXTENDS Acpi

Package(follow, a, a_prefix, b, b_prefix) ==
  [follow |-> follow, a |-> a, a_prefix |-> a_prefix, b |-> b, b_prefix |-> b_prefix]

MCPackages ==
  {Package(0, 5, TRUE, 0, FALSE), Package(0, 0, FALSE, 7, TRUE),
   Package(1, 7, TRUE, 5, TRUE), Package(3, 1, FALSE, 0, FALSE)}
=============================================================================
