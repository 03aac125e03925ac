--------------------------- MODULE MCPublications ---------------------------
(* Publications on small instances.                                        *)
EXTENDS Publications
=============================================================================
