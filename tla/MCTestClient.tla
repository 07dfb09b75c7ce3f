----------------------------- MODULE MCTestClient -----------------------------
(* Instances of TestClient for TLC.                                        *)
EXTENDS TestClientInv, TLC

RoleSymmetry == Permutations(Roles)
===============================================================================
