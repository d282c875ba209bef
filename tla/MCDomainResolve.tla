-------------------------- MODULE MCDomainResolve --------------------------
(* Instances of DomainResolve for TLC: see MCDomainResolve.cfg. *)
EXTENDS DomainResolve
=============================================================================
