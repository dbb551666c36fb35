---------------------------- MODULE EvidenceFetch ----------------------------
(***************************************************************************)
(* Validations that share a working directory fetch what they need over    *)
(* the network: CRLs, which policy/CrlCache keeps in workDir/crl-store     *)
(* under a name made of the URL; answers of OCSP and time-stamping         *)
(* services, which go to the caller; and the issuers missing from a chain, *)
(* which policy/AiaIssuerFetcher (module IssuerWalk) looks for and keeps   *)
(* in workDir/intermediate-store under a name made of their hash.          *)
(*                                                                         *)
(* A fetcher is a validation in a thread or in a process of its own.  A    *)
(* step is one look at the cache, one round trip, or one step of           *)
(* WriteBytesAtomic (module AtomicFile); between any two of them another   *)
(* fetcher may replace the file, time may pass, and the process may end.   *)
(***************************************************************************)
EXTENDS HttpTransfer, IssuerWalk, Functions

CONSTANTS
    Fetchers,
    CrlUrls,    \* distribution points of the certificates being validated
    PostUrls,   \* addresses of OCSP and time-stamping services
    Presented,  \* signers with the certificates embedded beside them, in order
    Needs,      \* what each validation looks for: subsets of Sought
    MaxOrphans  \* bound: temporary files left behind

\* CRLs of the distribution points, answers of the services, missing issuers.
Sought == {"CRLs", "answers", "issuers"}

\* The two directories are different ones, a downloaded bundle holds
\* certificates, a signer comes with a certificate, and a certificate names
\* addresses in an order.
ASSUME StoresAssumption ==
    /\ CrlUrls \cap Certs = {} /\ IsFiniteSet(Certs)
    /\ Bundles \subseteq Seq(Certs)
    /\ \A certs \in Presented : certs \in Seq(Certs) /\ certs # <<>>
    /\ CaIssuers \in [Certs -> Seq(UrlSet)]
    /\ \A n \in Needs, f \in Fetchers : n[f] \subseteq Sought

VARIABLES
    file, writing, orphans,     \* the two directories, see AtomicFile
    now,
    needs,      \* needs[f]: what the validation f looks for, see Sought
    pc,         \* pc[f]: "idle", "hop", "got"
    job,        \* job[f]: the URL asked for, and what its answer is for
    request,    \* request[f]: the request on its way
    sent,       \* sent[f]: requests sent for this job
    result,     \* result[f]: what HttpClient returned
    walk        \* walk[f]: the search for issuers, see IssuerWalk

vars == <<file, writing, orphans, now, needs, pc, job, request, sent, result, walk>>
disk == <<file, writing, orphans>>
world == <<now, needs>>

INSTANCE AtomicFile WITH
    Writers <- Fetchers, Paths <- CrlUrls \cup Certs, Contents <- Bodies \cup Certs

Uses == {"cache", "caller", "walk"}
Jobs == [url : UrlSet, use : Uses]
NoRequest == FirstRequest("GET", [scheme |-> "http", host |-> "malformed"])
NoJob == [url |-> NoRequest.url, use |-> "caller"]

(* Every fetcher's request, job and answer is one the code can build.      *)
TypeOK ==
    /\ FileTypeOK
    /\ now \in 0..MaxTime
    /\ needs \in Needs
    /\ pc \in [Fetchers -> {"idle", "hop", "got"}]
    /\ job \in [Fetchers -> Jobs]
    /\ request \in [Fetchers -> Requests]
    /\ sent \in [Fetchers -> Nat]
    /\ result \in [Fetchers -> Results]

(* IsValidCrlDer: one DER value that ends where the bytes end, with a      *)
(* validity window.                                                        *)
IsValidCrlDer(body) == body.text.kind = "crl" /\ ~body.cut

(* IsCachedCrlFresh, of the bytes a cached file holds.                     *)
IsCachedCrlFresh(held) ==
    /\ held.bytes = "whole"
    /\ IsValidCrlDer(held.of)
    /\ held.of.text.next > now

(* Every regular file of a directory, the temporary files of running and   *)
(* of dead writers included.                                               *)
Directory(paths) ==
    {file[p] : p \in {q \in paths : file[q] # Absent}}
        \cup {o[2] : o \in {q \in orphans : q[1] \in paths}}
        \cup UNION {TempOf(f) : f \in {g \in Fetchers :
                        writing[g].stage # "none" /\ writing[g].path \in paths}}

(* LoadCrlsFromWorkDir and CollectIntermediateCertificates read them all.  *)
LoadCrlsFromWorkDir == Directory(CrlUrls)
CollectIntermediateCertificates == Directory(Certs)

(* LoadMatchingCrlsFromWorkDir: of these, the well-formed CRLs of the      *)
(* certificate's issuer.                                                   *)
LoadMatchingCrlsFromWorkDir ==
    {c \in LoadCrlsFromWorkDir :
        /\ c.bytes = "whole"
        /\ IsValidCrlDer(c.of)
        /\ c.of.text.issuer = "ours"}

Init ==
    /\ FileInit
    /\ file = [p \in CrlUrls \cup Certs |-> Absent]
    /\ now = 0
    /\ needs \in Needs
    /\ pc = [f \in Fetchers |-> "idle"]
    /\ job = [f \in Fetchers |-> NoJob]
    /\ request = [f \in Fetchers |-> NoRequest]
    /\ sent = [f \in Fetchers |-> 0]
    /\ result = [f \in Fetchers |-> Failure]
    /\ walk = [f \in Fetchers |-> NoWalk]

IsIdle(f) ==
    /\ pc[f] = "idle"
    /\ writing[f].stage = "none"
    /\ walk[f].stage = "none"

(* The addresses a name may have for CheckDestination to let it pass.      *)
Passing(url) == {addresses \in SUBSET Addresses : CheckDestination(url, addresses)}

(* HttpClient::Get and Post: the destination is judged, then the loop      *)
(* begins.                                                                 *)
Ask(f, method, url, use) ==
    /\ pc' = [pc EXCEPT ![f] = "hop"]
    /\ job' = [job EXCEPT ![f] = [url |-> url, use |-> use]]
    /\ request' = [request EXCEPT ![f] = FirstRequest(method, url)]
    /\ sent' = [sent EXCEPT ![f] = 0]
    /\ result' = [result EXCEPT ![f] = Failure]

(* DownloadAndCacheCrlsForCert, one URL: a fresh cached CRL is left alone. *)
FetchCrl(f, url) ==
    /\ IsIdle(f)
    /\ "CRLs" \in needs[f]
    /\ ~IsCachedCrlFresh(file[url])
    /\ Passing(url) # {}
    /\ Ask(f, "GET", url, "cache")
    /\ UNCHANGED <<disk, world, walk>>

FetchAnswer(f, url) ==
    /\ IsIdle(f)
    /\ "answers" \in needs[f]
    /\ Passing(url) # {}
    /\ Ask(f, "POST", url, "caller")
    /\ UNCHANGED <<disk, world, walk>>

Return(f, r) ==
    /\ pc' = [pc EXCEPT ![f] = "got"]
    /\ request' = [request EXCEPT ![f] = NoRequest]
    /\ result' = [result EXCEPT ![f] = r]

(* One turn of WinHttpRequest's loop.                                      *)
HopDenied(f) ==
    /\ pc[f] = "hop"
    /\ Passing(request[f].url) # SUBSET Addresses
    /\ Return(f, Failure)
    /\ UNCHANGED <<disk, world, job, sent, walk>>

Sendable(f) ==
    /\ pc[f] = "hop"
    /\ Passing(request[f].url) # {}
    /\ sent' = [sent EXCEPT ![f] = @ + 1]
    /\ UNCHANGED <<disk, world, job, walk>>

HopAnswered(f) ==
    /\ Sendable(f)
    /\ \E r \in WinHttpRequestOnce(request[f].url) :
          /\ ~IsRedirectStatus(r.status)
          /\ Return(f, r)

(* The loop has no room, or the Location is empty, leaves HTTPS or is not  *)
(* allowed: some Location is always among these.                           *)
HopRefused(f) ==
    /\ Sendable(f)
    /\ \E r \in WinHttpRequestOnce(request[f].url) :
          /\ IsRedirectStatus(r.status)
          /\ Return(f, Refused(r))

HopFollowed(f) ==
    /\ Sendable(f)
    /\ \E next \in {n \in {ResolveHttpRedirectUrl(request[f].url, l) : l \in Locations} :
                        \E addresses \in SUBSET Addresses : MayFollow(request[f], n, addresses)},
          status \in Statuses :
          /\ IsRedirectStatus(status)
          /\ request' = [request EXCEPT ![f] = Followed(@, next, status)]
    /\ UNCHANGED <<pc, result>>

Forget(f) ==
    /\ pc' = [pc EXCEPT ![f] = "idle"]
    /\ job' = [job EXCEPT ![f] = NoJob]
    /\ request' = [request EXCEPT ![f] = NoRequest]
    /\ sent' = [sent EXCEPT ![f] = 0]
    /\ result' = [result EXCEPT ![f] = Failure]

(* Only the body of a success that is a CRL goes to the cache.             *)
Cacheable(r) == r.succeeded /\ IsValidCrlDer(r.body)

Cache(f) ==
    /\ pc[f] = "got"
    /\ job[f].use = "cache"
    /\ Cacheable(result[f])
    /\ BeginWrite(f, job[f].url, result[f].body)
    /\ Forget(f)
    /\ UNCHANGED <<world, walk>>

HandOverOnlySuccess(f) ==
    /\ pc[f] = "got"
    /\ result[f].succeeded
    /\ job[f].use # "walk"
    /\ ~(job[f].use = "cache" /\ Cacheable(result[f]))
    /\ Forget(f)
    /\ UNCHANGED <<disk, world, walk>>

HandOver(f) ==
    /\ pc[f] = "got"
    /\ job[f].use # "walk"
    /\ ~(job[f].use = "cache" /\ Cacheable(result[f]))
    /\ Forget(f)
    /\ UNCHANGED <<disk, world, walk>>

(* EnrichWithAiaIssuersIfNeeded: a validation whose chain ends short of    *)
(* the trust store walks from the signer's certificate, those embedded in  *)
(* the signature and those of the store, in this order.                    *)
BeginWalk(f, certs) ==
    /\ IsIdle(f)
    /\ "issuers" \in needs[f]
    /\ \E stored \in Injection(1 .. Cardinality(CollectIntermediateCertificates),
                               CollectIntermediateCertificates),
          legible \in SUBSET {h \in CollectIntermediateCertificates : h.bytes = "part"} :
          walk' = [walk EXCEPT ![f] =
                      FirstWalk([i \in DOMAIN certs |-> Whole(certs[i])] \o stored, legible)]
    /\ UNCHANGED <<disk, world, pc, job, request, sent, result>>

(* The turns of FetchMissingIssuers' loops between requests.               *)
WalkOn(f) ==
    /\ \/ AtUrl(walk[f]) /\ walk' = [walk EXCEPT ![f] = TryUrl(@)]
       \/ AtEntryEnd(walk[f]) /\ walk' = [walk EXCEPT ![f] = NextEntry(@)]
       \/ AtLevelEnd(walk[f]) /\ walk' = [walk EXCEPT ![f] = NextLevel(@)]
    /\ UNCHANGED <<disk, world, pc, job, request, sent, result>>

(* HttpClient::Get; a destination that it refuses at once fails like one   *)
(* the first hop refuses.                                                  *)
WalkAsk(f) ==
    /\ walk[f].stage = "ask"
    /\ pc[f] = "idle"
    /\ Ask(f, "GET", Asked(walk[f]), "walk")
    /\ walk' = [walk EXCEPT ![f].tries = @ + 1]
    /\ UNCHANGED <<disk, world>>

(* ParseDownloadedCertificates: a certificate, or all those of a PKCS#7 or *)
(* PEM file that decode; anything else holds none.                         *)
ParseDownloadedCertificates(body) ==
    IF body.text.kind = "certs" THEN body.text.certs ELSE <<>>

WalkAnswered(f) ==
    /\ pc[f] = "got"
    /\ job[f].use = "walk"
    /\ walk' = [walk EXCEPT ![f] =
                   Answered(@, result[f].succeeded, ParseDownloadedCertificates(result[f].body))]
    /\ Forget(f)
    /\ UNCHANGED <<disk, world>>

(* A new certificate is written to the store and taken into the walk,      *)
(* whether or not the write succeeds.                                      *)
WalkKeep(f) ==
    /\ walk[f].stage = "save"
    /\ walk[f].downloaded # <<>>
    /\ LET c == Head(walk[f].downloaded)
       IN  /\ ~IsDuplicate(walk[f], Whole(c))
           /\ BeginWrite(f, c, c)
           /\ walk' = [walk EXCEPT ![f] = Keep(@, Whole(c))]
    /\ UNCHANGED <<world, pc, job, request, sent, result>>

WalkSkip(f) ==
    /\ walk[f].stage = "save"
    /\ writing[f].stage = "none"
    /\ \/ /\ walk[f].downloaded # <<>>
          /\ IsDuplicate(walk[f], Whole(Head(walk[f].downloaded)))
          /\ walk' = [walk EXCEPT ![f] = Drop(@)]
       \/ /\ walk[f].downloaded = <<>>
          /\ walk' = [walk EXCEPT ![f] = Saved(@)]
    /\ UNCHANGED <<disk, world, pc, job, request, sent, result>>

(* The certificates found go to the caller, after the embedded ones.       *)
EndWalk(f) ==
    /\ walk[f].stage = "done"
    /\ walk' = [walk EXCEPT ![f] = NoWalk]
    /\ UNCHANGED <<disk, world, pc, job, request, sent, result>>

(* WriteBytesAtomic goes on.                                               *)
WriteOn(f) ==
    /\ \/ OpenTemp(f)
       \/ OpenFails(f)
       \/ WriteTemp(f)
       \/ WriteFails(f)
       \/ Replace(f)
    /\ Cardinality(orphans') <= MaxOrphans
    /\ UNCHANGED <<world, pc, job, request, sent, result, walk>>

(* The process of a fetcher ends and another takes its place.              *)
Crash(f) ==
    /\ ~IsIdle(f)
    /\ \/ Killed(f)
       \/ writing[f].stage = "none" /\ UNCHANGED disk
    /\ Cardinality(orphans') <= MaxOrphans
    /\ Forget(f)
    /\ walk' = [walk EXCEPT ![f] = NoWalk]
    /\ UNCHANGED world

(* The clock matters to nothing but the freshness of a CRL.                *)
Tick ==
    /\ "CRLs" \in UNION {needs[f] : f \in Fetchers}
    /\ now < MaxTime
    /\ now' = now + 1
    /\ UNCHANGED <<disk, needs, pc, job, request, sent, result, walk>>

Work(f) ==
    \/ HopDenied(f)
    \/ HopAnswered(f)
    \/ HopRefused(f)
    \/ HopFollowed(f)
    \/ Cache(f)
    \/ HandOver(f)
    \/ WalkOn(f)
    \/ WalkAsk(f)
    \/ WalkAnswered(f)
    \/ WalkKeep(f)
    \/ WalkSkip(f)
    \/ EndWalk(f)
    \/ WriteOn(f)

Next ==
    \/ \E f \in Fetchers :
          \/ \E url \in CrlUrls : FetchCrl(f, url)
          \/ \E url \in PostUrls : FetchAnswer(f, url)
          \/ \E certs \in Presented : BeginWalk(f, certs)
          \/ Work(f)
          \/ Crash(f)
    \/ Tick

Spec == Init /\ [][Next]_vars
FairSpec == Spec /\ \A f \in Fetchers : WF_vars(Work(f))
-----------------------------------------------------------------------------
(* What is cached is a well-formed CRL, complete, and came from a public   *)
(* peer, whoever wrote it last and whoever was killed while writing        *)
(* (DownloadAndCacheCrlsForCert, WriteBytesAtomic).                        *)
CacheIsSound ==
    \A p \in CrlUrls :
        \/ file[p] = Absent
        \/ /\ file[p].bytes = "whole"
           /\ IsValidCrlDer(file[p].of)
           /\ file[p].of.from = "public"

(* An answer HttpClient calls a success is the whole body of a 2xx reply   *)
(* of a public peer, through however many redirects and whatever the name  *)
(* resolved to in between (WinHttpRequest, WinHttpPeerAddressIsPublic).    *)
AnswersAreWhole ==
    \A f \in Fetchers :
        pc[f] = "got" /\ result[f].succeeded =>
            /\ result[f].status = "ok"
            /\ result[f].body.from = "public"
            /\ ~result[f].body.cut

(* What was asked for over HTTPS is never asked for over HTTP, however far *)
(* the redirects lead (initial_https in WinHttpRequest).                   *)
NeverDowngraded ==
    \A f \in Fetchers :
        pc[f] = "hop" /\ IsHttps(job[f].url) => IsHttps(request[f].url)

(* One call sends at most kMaxHttpRedirects + 1 requests (the loop bound   *)
(* of WinHttpRequest).                                                     *)
RequestsBounded == \A f \in Fetchers : sent[f] <= MaxRedirects + 1

(* The body of a POST, a time-stamp or OCSP request, never travels with a  *)
(* GET, and a POST that stays one keeps it (the 301, 302 and 303 rules of  *)
(* WinHttpRequest).                                                        *)
BodyGoesWithPost ==
    \A f \in Fetchers :
        pc[f] = "hop" => (request[f].carries <=> request[f].method = "POST")

(* The CRLs LoadMatchingCrlsFromWorkDir finds are complete, although the   *)
(* directory also holds temporary files, half written by live writers or   *)
(* left by dead ones.                                                      *)
LoadedCrlsAreSound ==
    \A c \in LoadMatchingCrlsFromWorkDir :
        c.bytes = "whole" /\ c.of.from = "public" /\ ~c.of.cut

(* Only whole answers of public peers are used: handed to a caller, cached *)
(* or loaded from the cache; and the redirects on the way to them keep to  *)
(* the loop bound, to HTTPS and to the rules for the body.                 *)
WholeAnswersOnly ==
    /\ AnswersAreWhole
    /\ CacheIsSound
    /\ LoadedCrlsAreSound
    /\ NeverDowngraded
    /\ RequestsBounded
    /\ BodyGoesWithPost

(* The search for issuers, as every walk leaves it: it keeps to its        *)
(* budgets, returns only certificates that are new and whole, ends short   *)
(* of its budgets only when no address is left, and asks the signer's own  *)
(* addresses before the budget can be spent on others; and a file of the   *)
(* store holds the certificate it is named for, whole, whoever was killed  *)
(* while writing (FetchMissingIssuers, WriteBinaryFileAtomic).             *)
IssuersAreFound ==
    /\ \A f \in Fetchers :
          walk[f].stage # "none" =>
            /\ WithinBudgets(walk[f])
            /\ ReturnsNew(walk[f])
            /\ LeavesNothing(walk[f])
            /\ SignerFirst(walk[f])
    /\ \A c \in Certs : file[c] \in {Absent, Whole(c)}

(* A fetch ends, whatever the servers answer: a step ends by its timeout   *)
(* and the redirects are counted.                                          *)
EveryFetchEnds == \A f \in Fetchers : ~IsIdle(f) ~> IsIdle(f)
=============================================================================
