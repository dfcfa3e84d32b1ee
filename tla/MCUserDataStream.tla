--------------------------- MODULE MCUserDataStream ---------------------------
(* Instances of UserDataStream for TLC.                                    *)
EXTENDS UserDataStream

CONSTANTS s1, s2, s3, k1, k2, e1

=============================================================================
