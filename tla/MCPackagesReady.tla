--------------------------- MODULE MCPackagesReady ---------------------------
(* Instances of PackagesReady: what users write into spec.packages. *)
EXTENDS PackagesReady

Private == [img |-> 1, pkgs |-> <<TRUE>>]
Public == [img |-> 1, pkgs |-> <<FALSE>>]

FirstSpecs == {Private}
PackageEdits == {Private, Public}
OnlyPublic == {Public}
==============================================================================
