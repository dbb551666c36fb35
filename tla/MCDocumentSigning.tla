--------------------------- MODULE MCDocumentSigning --------------------------
(***************************************************************************)
(* DocumentSigning with two keys, of which one has a certificate with GOST *)
(* 34.311 parameters of its own, as its issuer has, two contents, and file *)
(* names of which one is a percent encoding of the other.                  *)
(***************************************************************************)
EXTENDS DocumentSigning

MCFileNames == {RootName("a"), [RootName("a") EXCEPT !.layers = 1], RootName("b")}
MCIssuerOf == [k1 |-> "dke ca", k2 |-> "ca"]
=============================================================================
