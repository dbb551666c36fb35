----------------------------- MODULE PdfDocument -----------------------------
(***************************************************************************)
(* A PDF file as the PAdES code sees it, and PadesVerifier::VerifyPdf.     *)
(*                                                                         *)
(* A file is the sequence of its revisions.  Each one was appended to the  *)
(* bytes before it and never changes them, unless somebody alters bytes in *)
(* place.  Positions in the file are counted in halves of a revision, so   *)
(* that a file cut within its last revision has a size of its own; the     *)
(* /ByteRange of a signature, whoever made it, ends where its revision     *)
(* ends.                                                                   *)
(***************************************************************************)
EXTENDS Naturals, Sequences, FiniteSetsExt

CONSTANTS
    Pages,      \* what a reader may see on the pages
    Certs       \* certificates

Inherit == "inherit"    \* a revision that leaves the pages alone

Kinds == {"base", "edit", "junk", "sig", "stamp", "dss"}

(* An item of /DSS: a certificate, or a good answer about one.  An OCSP    *)
(* response is about a certificate, a CRL about all those of an issuer.    *)
EvidenceItems == [kind : {"cert", "ocsp", "crl"}, of : Certs, since : Nat]

(* /T of a field, as the bytes of the string: the base name alone, or with *)
(* "-2", "-3", ...  The same text in another encoding is another name.     *)
Names == [base : {"Signature1", "TimeStamp1"}, suffix : Nat]

(* An RFC 3161 token.  good: imprint and signature are right.              *)
Tokens == [tsa : Certs, time : Nat, good : BOOLEAN, certs : SUBSET Certs]

(* The fields of a revision:                                               *)
(*   body, cms   its bytes outside and inside /Contents: as written, or    *)
(*               altered since                                             *)
(*   page        what it puts on the pages                                 *)
(*   fields      the names in /AcroForm /Fields after it                   *)
(*   dss         the items of /DSS after it, in a set, {} without /DSS     *)
(*   prev        /Prev of its trailer                                      *)
(*   name        of the signature field it adds                            *)
(*   digest      the bytes its signature was made over                     *)
(*   tokens      the time-stamp in it, in a set                            *)
(*   saw         (history) what was on the pages when it was made          *)
Revision(kind, page, fields, dss, prev) ==
    [kind |-> kind, page |-> page, fields |-> fields, dss |-> dss, prev |-> prev,
     body |-> "written", cms |-> "written",
     names |-> {}, digest |-> <<>>, tokens |-> {}, saw |-> Inherit]

IsSignature(r) == r.kind \in {"sig", "stamp"}
Signatures(pdf) == {i \in DOMAIN pdf : IsSignature(pdf[i])}

(* What the first n revisions show.                                        *)
PageAt(pdf, n) ==
    pdf[Max({i \in 1..n : i = 1 \/ pdf[i].page # Inherit})].page

(* ParseLastStartXref: the last revision that has a startxref.             *)
LastStartXref(pdf) == Max({i \in DOMAIN pdf : pdf[i].kind # "junk"})

(* The Catalog that is in force.                                           *)
Catalog(pdf) == pdf[LastStartXref(pdf)]

(* ExtractSignedBytes for the signature of revision n: everything up to    *)
(* the end of the revision except its own /Contents.                       *)
ExtractSignedBytes(pdf, n) ==
    [i \in 1..n |-> <<pdf[i].body, pdf[i].page, IF i = n THEN "gap" ELSE pdf[i].cms>>]

Size(pdf, cut) == 2 * Len(pdf) - (IF cut THEN 1 ELSE 0)
RangeEnd(n) == 2 * n
-----------------------------------------------------------------------------
(* VerifyPdf.  cut: the file ends within its last revision.  read: the     *)
(* revisions whose objects qpdf finds; it may or may not recover those of  *)
(* a revision that is cut.                                                 *)
Readings(pdf, cut) == IF cut THEN {Len(pdf) - 1, Len(pdf)} ELSE {Len(pdf)}

(* Every dictionary with /SubFilter, /ByteRange and /Contents, in a field  *)
(* of /AcroForm or not, and whether what it contains verifies or not.      *)
ExtractSignatureFields(pdf, read) == {i \in Signatures(pdf) : i <= read}

MainSignatures(pdf, read) == {i \in ExtractSignatureFields(pdf, read) : pdf[i].kind = "sig"}
DocTimestamps(pdf, read) == {i \in ExtractSignatureFields(pdf, read) : pdf[i].kind = "stamp"}

InBounds(pdf, cut, n) == RangeEnd(n) <= Size(pdf, cut)

EndsWithPdfEof(pdf, cut) == pdf[Len(pdf)].kind # "junk" /\ ~cut

CoverageMainOnly(pdf, cut, read) ==
    Max({0} \cup {RangeEnd(i) : i \in {j \in MainSignatures(pdf, read) :
                                           InBounds(pdf, cut, j)}})

(* The furthest end of any of them, also of a stamp whose token is wrong.  *)
CoverageEnd(pdf, cut, read) ==
    Max({0} \cup {RangeEnd(i) : i \in {j \in ExtractSignatureFields(pdf, read) :
                                           InBounds(pdf, cut, j)}})

(* ComparePageContentWithSignedRevision, once both parse.                  *)
ContentChanged(pdf, end) == PageAt(pdf, Len(pdf)) # PageAt(pdf, end \div 2)


CoverageStatus(pdf, cut, read) ==
    LET end == CoverageEnd(pdf, cut, read) IN
    IF end = Size(pdf, cut) THEN "complete"
    ELSE IF ~EndsWithPdfEof(pdf, cut) THEN "unsigned-data-appended"
    ELSE IF end = 0 THEN "coverage-unverifiable"
    ELSE IF ContentChanged(pdf, end) THEN "modified-after-signing"
    ELSE "extended-by-unsigned-revisions"

CoverageComplete(status) == status \in {"complete", "extended-by-unsigned-revisions"}

(* VerifyDetached over the bytes the range names, and the range itself.    *)
SignatureValid(pdf, cut, n) ==
    /\ InBounds(pdf, cut, n)
    /\ pdf[n].cms = "written"
    /\ pdf[n].digest = ExtractSignedBytes(pdf, n)

(* ValidateTimestampToken: the TSA's certificate is in the token or in the *)
(* pool.                                                                   *)
TokenValid(token, pool) == token.good /\ token.tsa \in token.certs \cup pool

DssCertificates(dss) == {e.of : e \in {x \in dss : x.kind = "cert"}}

TimestampValid(pdf, cut, n) ==
    /\ pdf[n].cms = "written"
    /\ \A t \in pdf[n].tokens : TokenValid(t, DssCertificates(Catalog(pdf).dss))
    /\ pdf[n].kind = "stamp" => SignatureValid(pdf, cut, n)

DetectedProfile(pdf, read) ==
    LET found == ExtractSignatureFields(pdf, read) IN
    IF DocTimestamps(pdf, read) # {} THEN "LTA"
    ELSE IF Catalog(pdf).dss # {} THEN "LT"
    ELSE IF \E i \in found : pdf[i].tokens # {} THEN "T"
    ELSE "B"

(* VerifyPdf answers only about a file with a main signature.              *)
Verifiable(pdf, read) == MainSignatures(pdf, read) # {}

AllSignaturesValid(pdf, cut, read) ==
    \A i \in MainSignatures(pdf, read) : SignatureValid(pdf, cut, i)

(* is_valid of Session::VerifyPdf.                                         *)
IsValid(pdf, cut, read) ==
    /\ Verifiable(pdf, read)
    /\ AllSignaturesValid(pdf, cut, read)
    /\ CoverageComplete(CoverageStatus(pdf, cut, read))
=============================================================================
