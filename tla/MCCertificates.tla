---------------------------- MODULE MCCertificates ----------------------------
(* Instances of Certificates for TLC.                                       *)
EXTENDS Certificates

\* A wait shorter than the timeout and one longer than it.
MCDelays == {1, 3}

MCPauses == {1, 2}

===============================================================================
