------------------------------ MODULE MCRoles ------------------------------
(* Model-checking instance of Roles.                                       *)
EXTENDS Roles

(* Callers are interchangeable, and so are rooms.                          *)
RoleSymmetry == Permutations(Tasks) \cup Permutations(Rooms)

=============================================================================
