------------------------ MODULE MCSharedCertificate ------------------------
(* Instances of SharedCertificate, with Enroll in it, for TLC; the .cfg    *)
(* file gives the constants.                                               *)
EXTENDS SharedCertificate
=============================================================================
