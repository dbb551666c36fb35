----------------------------- MODULE MCPdfSigning -----------------------------
EXTENDS PdfSigning

MCCerts == {"signer", "tsa1", "tsa2", "tsa3", "sub", "cross", "ca", "root"}
MCTsas == {"tsa1", "tsa2", "tsa3"}

\* The CA above tsa1 is an anchor, and not self-signed; tsa2 is two steps below
\* a root that no store vouches for; tsa3 and the certificate above it were
\* issued by each other.
MCIssuerOf ==
    [c \in MCCerts |->
        CASE c \in {"signer", "tsa1"} -> "ca"
          [] c = "tsa2"              -> "sub"
          [] c = "tsa3"              -> "cross"
          [] c = "cross"             -> "tsa3"
          [] c \in {"sub", "ca", "root"} -> "root"]

MCFormFields == {[base |-> "Signature1", suffix |-> 1]}
=============================================================================
