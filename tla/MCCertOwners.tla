---------------------------- MODULE MCCertOwners -----------------------------
(* Small instances of CertOwners: the accounts are numbered, so only the   *)
(* requests are interchangeable.                                           *)
EXTENDS CertOwners, TLC

OwnersSymmetry == Permutations(Reqs)
==============================================================================
