-------------------------- MODULE MCRegistryResolve --------------------------
(* Three registries: two errata of one name, and another name.             *)
EXTENDS RegistryResolve

CONSTANTS A, B

MCRegistries == {<<A, 0>>, <<A, 1>>, <<B, 0>>}

MCReferences == {<<A, Latest>>, <<A, 0>>, <<B, Latest>>}
TwoErrata == {<<A, 0>>, <<A, 1>>}

ToErrata == {<<A, Latest>>, <<A, 0>>}
=============================================================================
