------------------------ MODULE EvidenceFetchProofs ------------------------
(***************************************************************************)
(* Fetching for any number of validations, URLs, certificates and          *)
(* redirects: only whole answers of public peers are used, and the search  *)
(* for missing issuers finds, within its budgets, what it can.             *)
(***************************************************************************)
EXTENDS EvidenceFetch, FiniteSetTheorems, TLAPS

\* Zenon is the backend of every step that names no other.
USE Zenon

\* A body that may be cached: all of a CRL, from a public peer.
SoundCrl(body) == IsValidCrlDer(body) /\ body.from = "public"

IsRequest(r) ==
    r = [method |-> r.method, url |-> r.url, https |-> r.https,
         redirect |-> r.redirect, carries |-> r.carries]

\* The request on its way: how far it got, what it still is of its job.
RequestInv(f) ==
    /\ IsRequest(request[f])
    /\ sent[f] \in 0 .. (MaxRedirects + 1)
    /\ pc[f] = "hop" =>
          /\ sent[f] = request[f].redirect /\ request[f].redirect <= MaxRedirects
          /\ request[f].https = IsHttps(job[f].url)
          /\ IsHttps(job[f].url) => IsHttps(request[f].url)
          /\ request[f].carries = (request[f].method = "POST")

\* What HttpClient calls a success is whole and of a public peer.
AnswerInv(f) ==
    /\ result[f] \in Results
    /\ result[f].succeeded =>
          /\ result[f].status = "ok"
          /\ result[f].body \in Bodies
          /\ result[f].body.from = "public" /\ ~result[f].body.cut

JobInv(f) == job[f].use = "cache" => job[f].url \in CrlUrls

\* What may be at path p of the two directories, or on its way there.
MayHold(p, data) ==
    /\ p \in CrlUrls \cup Certs
    /\ data \in Bodies \cup Certs
    /\ p \in CrlUrls => SoundCrl(data)
    /\ p \in Certs => data = p

WriteInv(f) ==
    writing[f].stage # "none" =>
        /\ writing[f].stage \in Stages
        /\ writing[f] = Call(writing[f].stage, writing[f].path, writing[f].data)
        /\ MayHold(writing[f].path, writing[f].data)

\* What a walk has downloaded are certificates.
IsWalk(w) == "downloaded" \in DOMAIN w /\ w.downloaded \in Seq(Certs)

WalkInv(f) == IsWalk(walk[f])

FetcherInv(f) == RequestInv(f) /\ AnswerInv(f) /\ JobInv(f) /\ WriteInv(f) /\ WalkInv(f)

\* The files and the temporary files that no call owns any more.
DiskInv ==
    /\ DOMAIN file = CrlUrls \cup Certs
    /\ \A p \in CrlUrls \cup Certs :
          file[p] = Absent \/ (file[p] = Whole(file[p].of) /\ MayHold(p, file[p].of))
    /\ \A o \in orphans :
          /\ o = <<o[1], o[2]>>
          /\ o[2] \in {Part(o[2].of), Whole(o[2].of)}
          /\ MayHold(o[1], o[2].of)

Domains ==
    /\ DOMAIN pc = Fetchers /\ DOMAIN job = Fetchers /\ DOMAIN request = Fetchers
    /\ DOMAIN sent = Fetchers /\ DOMAIN result = Fetchers
    /\ DOMAIN writing = Fetchers /\ DOMAIN walk = Fetchers

FetchInv == Domains /\ DiskInv /\ \A f \in Fetchers : FetcherInv(f)

\* A step of f: the others stay as they are, and f and the disk keep the
\* invariant.
Elsewhere(f) ==
    \A g \in Fetchers \ {f} :
        /\ pc'[g] = pc[g] /\ job'[g] = job[g] /\ request'[g] = request[g]
        /\ sent'[g] = sent[g] /\ result'[g] = result[g]
        /\ writing'[g] = writing[g] /\ walk'[g] = walk[g]

Keeps(f) == Domains' /\ Elsewhere(f) /\ FetcherInv(f)' /\ DiskInv'

\* The invariant of all from that of one.
LEMMA Gather ==
    ASSUME FetchInv, NEW f \in Fetchers, Keeps(f)
    PROVE  FetchInv'
<1>1. ASSUME NEW g \in Fetchers \ {f} PROVE FetcherInv(g)'
  BY <1>1, SMT DEF Keeps, Elsewhere, FetchInv, FetcherInv, RequestInv, AnswerInv, JobInv,
              WriteInv, WalkInv
<1> QED
  BY <1>1 DEF Keeps, FetchInv

\* The temporary file of a call.
LEMMA TempFile ==
    ASSUME NEW f
    PROVE  /\ writing[f].stage = "opened" => TempOf(f) = {Part(writing[f].data)}
           /\ writing[f].stage = "written" => TempOf(f) = {Whole(writing[f].data)}
           /\ writing[f].stage \notin {"opened", "written"} => TempOf(f) = {}
BY DEF TempOf

\* A step keeps the invariant as far as requests and answers go.
HttpKept(f) ==
    /\ DOMAIN pc' = Fetchers /\ DOMAIN job' = Fetchers /\ DOMAIN request' = Fetchers
    /\ DOMAIN sent' = Fetchers /\ DOMAIN result' = Fetchers
    /\ \A g \in Fetchers \ {f} :
          /\ pc'[g] = pc[g] /\ job'[g] = job[g] /\ request'[g] = request[g]
          /\ sent'[g] = sent[g] /\ result'[g] = result[g]
    /\ RequestInv(f)' /\ AnswerInv(f)' /\ JobInv(f)'

\* HttpClient begins.
LEMMA AskKeeps ==
    ASSUME FetchInv, NEW f \in Fetchers, NEW method \in {"GET", "POST"}, NEW url, NEW use,
           use = "cache" => url \in CrlUrls, Ask(f, method, url, use)
    PROVE  HttpKept(f)
<1>1. /\ pc'[f] = "hop" /\ job'[f] = [url |-> url, use |-> use]
      /\ request'[f] = FirstRequest(method, url) /\ sent'[f] = 0 /\ result'[f] = Failure
  BY DEF FetchInv, Domains, Ask
<1>2. RequestInv(f)'
  BY <1>1, TransferAssumption, SMT DEF RequestInv, IsRequest, FirstRequest
<1>3. AnswerInv(f)' /\ JobInv(f)'
  BY <1>1, SMT DEF AnswerInv, JobInv, Failure, Result, Results
<1> QED
  BY <1>2, <1>3 DEF HttpKept, FetchInv, Domains, Ask

\* A job is forgotten.
LEMMA ForgetKeeps ==
    ASSUME FetchInv, NEW f \in Fetchers, Forget(f)
    PROVE  HttpKept(f)
<1>1. /\ pc'[f] = "idle" /\ job'[f] = NoJob
      /\ request'[f] = NoRequest /\ sent'[f] = 0 /\ result'[f] = Failure
  BY DEF FetchInv, Domains, Forget
<1>2. RequestInv(f)'
  BY <1>1, TransferAssumption, SMT DEF RequestInv, IsRequest, FirstRequest, NoRequest
<1>3. AnswerInv(f)' /\ JobInv(f)'
  BY <1>1, SMT DEF AnswerInv, JobInv, Failure, Result, Results, NoJob
<1> QED
  BY <1>2, <1>3 DEF HttpKept, FetchInv, Domains, Forget

\* No request is made and none is answered.
LEMMA HttpStays ==
    ASSUME FetchInv, NEW f \in Fetchers, UNCHANGED <<pc, job, request, sent, result>>
    PROVE  HttpKept(f)
<1>1. RequestInv(f)' /\ AnswerInv(f)' /\ JobInv(f)'
  BY DEF FetchInv, FetcherInv, RequestInv, AnswerInv, JobInv
<1> QED
  BY <1>1 DEF HttpKept, FetchInv, Domains

\* The same as far as the two directories and their writers go.
DiskKept(f) ==
    /\ DOMAIN writing' = Fetchers
    /\ \A g \in Fetchers \ {f} : writing'[g] = writing[g]
    /\ WriteInv(f)' /\ DiskInv'

\* Nothing is written.
LEMMA DiskStays ==
    ASSUME FetchInv, NEW f \in Fetchers, UNCHANGED disk
    PROVE  DiskKept(f)
<1>1. UNCHANGED <<file, writing, orphans>>
  BY DEF disk
<1>2. WriteInv(f)' /\ DiskInv'
  BY <1>1 DEF FetchInv, FetcherInv, WriteInv, DiskInv
<1> QED
  BY <1>1, <1>2 DEF DiskKept, FetchInv, Domains

\* A write begins.
LEMMA BeginKeeps ==
    ASSUME FetchInv, NEW f \in Fetchers, NEW p, NEW data, MayHold(p, data),
           BeginWrite(f, p, data)
    PROVE  DiskKept(f)
<1>1. /\ writing[f].stage = "none" /\ writing'[f] = Call("called", p, data)
      /\ DOMAIN writing' = Fetchers /\ \A g \in Fetchers \ {f} : writing'[g] = writing[g]
      /\ UNCHANGED <<file, orphans>>
  BY DEF FetchInv, Domains, BeginWrite
<1>2. WriteInv(f)'
  BY <1>1, SMT DEF WriteInv, Call, Stages
<1>3. DiskInv'
  BY <1>1 DEF FetchInv, DiskInv
<1> QED
  BY <1>1, <1>2, <1>3 DEF DiskKept

\* A write goes on, ends, fails or is cut short by the end of its process.
LEMMA WritingKeeps ==
    ASSUME FetchInv, NEW f \in Fetchers,
           OpenTemp(f) \/ OpenFails(f) \/ WriteTemp(f) \/ WriteFails(f) \/ Replace(f) \/ Killed(f)
    PROVE  DiskKept(f)
<1> DEFINE p == writing[f].path
           data == writing[f].data
<1>1. /\ writing[f].stage \in Stages
      /\ writing[f] = Call(writing[f].stage, p, data)
      /\ MayHold(p, data)
  BY DEF OpenTemp, OpenFails, WriteTemp, WriteFails, Replace, Killed, FetchInv, FetcherInv,
         WriteInv
<1>2. /\ DOMAIN writing' = Fetchers /\ \A g \in Fetchers \ {f} : writing'[g] = writing[g]
      /\ writing'[f] \in {NotWriting, Call("opened", p, data), Call("written", p, data)}
  BY DEF FetchInv, Domains, OpenTemp, OpenFails, WriteTemp, WriteFails, Replace, Killed
<1>3. WriteInv(f)'
  BY <1>1, <1>2, SMT DEF WriteInv, Call, NotWriting, Stages
<1>4. DiskInv'
  <2>1. CASE OpenTemp(f) \/ OpenFails(f) \/ WriteTemp(f)
    <3>1. UNCHANGED <<file, orphans>>
      BY <2>1 DEF OpenTemp, OpenFails, WriteTemp
    <3> QED
      BY <3>1 DEF FetchInv, DiskInv
  <2>2. CASE Replace(f)
    <3>1. orphans' = orphans /\ file' = [file EXCEPT ![p] = Whole(data)]
      BY <2>2 DEF Replace
    <3>2. p \in DOMAIN file
      BY <1>1 DEF FetchInv, DiskInv, MayHold
    <3>3. /\ DOMAIN file' = CrlUrls \cup Certs
          /\ \A q \in CrlUrls \cup Certs :
                file'[q] = file[q] \/ (q = p /\ file'[q] = Whole(data))
      BY <3>1, <3>2 DEF FetchInv, DiskInv
    <3>4. Whole(data).of = data
      BY DEF Whole
    <3>5. \A q \in CrlUrls \cup Certs :
             file'[q] = Absent \/ (file'[q] = Whole(file'[q].of) /\ MayHold(q, file'[q].of))
      BY <1>1, <3>3, <3>4 DEF FetchInv, DiskInv
    <3> QED
      BY <3>1, <3>3, <3>5 DEF FetchInv, DiskInv
  <2>3. CASE WriteFails(f) \/ Killed(f)
    <3>1. file' = file /\ \E left \in SUBSET TempOf(f) : orphans' = orphans \cup ({p} \X left)
      BY <2>3 DEF WriteFails, Killed
    <3>2. TempOf(f) \subseteq {Part(data), Whole(data)}
      BY <1>1, TempFile DEF Stages
    <3>3. \A o \in orphans' : o \in orphans \/ o \in {p} \X {Part(data), Whole(data)}
      BY <3>1, <3>2
    <3>4. \A o \in {p} \X {Part(data), Whole(data)} :
             /\ o = <<o[1], o[2]>> /\ o[1] = p
             /\ o[2] \in {Part(o[2].of), Whole(o[2].of)} /\ o[2].of = data
      BY SMT DEF Part, Whole
    <3> QED
      BY <1>1, <3>1, <3>3, <3>4 DEF FetchInv, DiskInv
  <2> QED
    BY <2>1, <2>2, <2>3
<1> QED
  BY <1>2, <1>3, <1>4 DEF DiskKept

\* The request loop: whatever the reply, a success is whole and public.
LEMMA RepliesAreWhole ==
    ASSUME NEW url, NEW r \in WinHttpRequestOnce(url)
    PROVE  /\ r \in Results
           /\ r.succeeded => /\ r.status = "ok" /\ r.body \in Bodies
                             /\ r.body.from = "public" /\ ~r.body.cut
<1> DEFINE Public == {p \in PeersOf(url) : IsAllowedPublicAddress(p)}
<1>1. \/ r = Failure
      \/ \E s \in Statuses : r = Result(FALSE, s, NoBody)
      \/ \E b \in [text : Texts, from : Public, cut : {FALSE}] : r = Result(TRUE, "ok", b)
  BY DEF WinHttpRequestOnce, Replies
<1>2. CASE r = Failure
  BY <1>2 DEF Failure, Result, Results
<1>3. CASE \E s \in Statuses : r = Result(FALSE, s, NoBody)
  BY <1>3, SMT DEF Result, Results
<1>4. CASE \E b \in [text : Texts, from : Public, cut : {FALSE}] : r = Result(TRUE, "ok", b)
  <2>1. PICK b \in [text : Texts, from : Public, cut : {FALSE}] : r = Result(TRUE, "ok", b)
    BY <1>4
  <2>2. b \in Bodies /\ b.from = "public" /\ b.cut = FALSE
    BY DEF Bodies, Peers, Addresses, IsAllowedPublicAddress
  <2>3. r = [succeeded |-> TRUE, status |-> "ok", body |-> b]
    BY <2>1 DEF Result
  <2> QED
    BY <2>2, <2>3 DEF Results, Statuses
<1> QED
  BY <1>1, <1>2, <1>3, <1>4

\* The loop of HttpClient ends with the result r.
LEMMA ReturnKeeps ==
    ASSUME FetchInv, NEW f \in Fetchers, NEW r \in Results,
           r.succeeded => /\ r.status = "ok" /\ r.body \in Bodies
                          /\ r.body.from = "public" /\ ~r.body.cut,
           Return(f, r), job' = job, DOMAIN sent' = Fetchers,
           \A g \in Fetchers \ {f} : sent'[g] = sent[g],
           sent'[f] \in 0 .. (MaxRedirects + 1)
    PROVE  HttpKept(f)
<1>1. pc'[f] = "got" /\ request'[f] = NoRequest /\ result'[f] = r
  BY DEF FetchInv, Domains, Return
<1>2. RequestInv(f)'
  BY <1>1 DEF RequestInv, IsRequest, FirstRequest, NoRequest
<1>3. AnswerInv(f)' /\ JobInv(f)'
  BY <1>1 DEF AnswerInv, JobInv, FetchInv, FetcherInv
<1> QED
  BY <1>2, <1>3 DEF HttpKept, FetchInv, Domains, Return

\* One turn of the loop, when the request is sent.
LEMMA SentOnce ==
    ASSUME FetchInv, NEW f \in Fetchers, Sendable(f)
    PROVE  /\ pc[f] = "hop" /\ job' = job /\ DOMAIN sent' = Fetchers
           /\ \A g \in Fetchers \ {f} : sent'[g] = sent[g]
           /\ sent'[f] = sent[f] + 1 /\ sent'[f] \in 0 .. (MaxRedirects + 1)
           /\ UNCHANGED disk /\ walk' = walk
<1>1. /\ pc[f] = "hop" /\ job' = job /\ sent' = [sent EXCEPT ![f] = @ + 1]
      /\ UNCHANGED disk /\ walk' = walk
  BY DEF Sendable
<1>2. sent[f] \in 0 .. (MaxRedirects + 1) /\ sent[f] <= MaxRedirects
  BY <1>1 DEF FetchInv, FetcherInv, RequestInv
<1> QED
  BY <1>1, <1>2, TransferAssumption, SMT DEF FetchInv, Domains

\* A redirect that is followed.
LEMMA FollowedKeeps ==
    ASSUME FetchInv, NEW f \in Fetchers, HopFollowed(f)
    PROVE  HttpKept(f)
<1>0. /\ Sendable(f) /\ UNCHANGED <<pc, result>>
  BY DEF HopFollowed
<1> DEFINE Named == {ResolveHttpRedirectUrl(request[f].url, l) : l \in Locations}
           Followable == {n \in Named : \E a \in SUBSET Addresses : MayFollow(request[f], n, a)}
<1>a. PICK next \in Followable, status \in Statuses :
         request' = [request EXCEPT ![f] = Followed(@, next, status)]
  BY DEF HopFollowed
<1>b. next \in Named /\ \E a \in SUBSET Addresses : MayFollow(request[f], next, a)
  BY SMT
<1>c. PICK addresses \in SUBSET Addresses : MayFollow(request[f], next, addresses)
  BY <1>b
<1>1. /\ next \in Named
      /\ MayFollow(request[f], next, addresses)
      /\ request' = [request EXCEPT ![f] = Followed(@, next, status)]
  BY <1>a, <1>b, <1>c
<1>2. /\ request[f].redirect < MaxRedirects /\ Parsed(next)
      /\ request[f].https => next.scheme = "https"
  BY <1>1 DEF MayFollow
<1> DEFINE r == request[f]
           g == Followed(r, next, status)
<1>3. /\ sent[f] \in Nat /\ sent[f] = r.redirect
      /\ r.https = IsHttps(job[f].url)
      /\ r.carries = (r.method = "POST")
  BY <1>0, SentOnce, SMT DEF FetchInv, FetcherInv, RequestInv
<1>4. request'[f] = g /\ DOMAIN request' = Fetchers
      /\ \A h \in Fetchers \ {f} : request'[h] = request[h]
  BY <1>1 DEF FetchInv, Domains
<1>5. /\ IsRequest(g) /\ g.redirect = r.redirect + 1 /\ g.url = next /\ g.https = r.https
      /\ g.method = IF BecomesGet(r, status) THEN "GET" ELSE r.method
      /\ g.carries = (~BecomesGet(r, status) /\ r.carries)
  <2> HIDE DEF r
  <2> QED
    BY DEF IsRequest, Followed
<1> HIDE DEF g
<1>6. g.carries = (g.method = "POST")
  <2>1. CASE BecomesGet(r, status)
    <3>1. g.method = "GET" /\ g.carries = FALSE
      BY <1>5, <2>1
    <3> QED
      BY <3>1
  <2>2. CASE ~BecomesGet(r, status)
    <3>1. g.method = r.method /\ g.carries = r.carries
      BY <1>3, <1>5, <2>2
    <3> QED
      BY <1>3, <3>1
  <2> QED
    BY <2>1, <2>2
<1>7. RequestInv(f)'
  <2>1. IsHttps(job[f].url) => IsHttps(g.url)
    BY <1>2, <1>3, <1>5 DEF IsHttps
  <2>2. sent'[f] = g.redirect /\ g.redirect <= MaxRedirects /\ sent'[f] \in 0 .. (MaxRedirects + 1)
    BY <1>0, <1>2, <1>3, <1>5, SentOnce, TransferAssumption, SMT
  <2>3. g.https = IsHttps(job[f].url)
    BY <1>3, <1>5
  <2>4. job' = job
    BY <1>0, SentOnce
  <2> QED
    BY <1>4, <1>5, <1>6, <2>1, <2>2, <2>3, <2>4 DEF RequestInv
<1>8. AnswerInv(f)' /\ JobInv(f)'
  BY <1>0, SentOnce DEF AnswerInv, JobInv, FetchInv, FetcherInv
<1> QED
  BY <1>0, <1>4, <1>7, <1>8, SentOnce DEF HttpKept, FetchInv, Domains

\* The same as far as the search for issuers goes.
WalkKept(f) ==
    /\ DOMAIN walk' = Fetchers
    /\ \A g \in Fetchers \ {f} : walk'[g] = walk[g]
    /\ WalkInv(f)'

\* The walk of f becomes w.
LEMMA WalkBecomes ==
    ASSUME FetchInv, NEW f \in Fetchers, NEW w, IsWalk(w), walk' = [walk EXCEPT ![f] = w]
    PROVE  WalkKept(f)
BY DEF WalkKept, WalkInv, FetchInv, Domains

\* No walk takes a step.
LEMMA WalkStays ==
    ASSUME FetchInv, NEW f \in Fetchers, walk' = walk
    PROVE  WalkKept(f)
BY DEF WalkKept, WalkInv, FetchInv, FetcherInv, Domains

\* The turns of FetchMissingIssuers keep certificates in what was downloaded.
LEMMA WalkTurns ==
    ASSUME NEW w, IsWalk(w)
    PROVE  /\ IsWalk(TryUrl(w)) /\ IsWalk(NextEntry(w)) /\ IsWalk(NextLevel(w))
           /\ IsWalk(Saved(w)) /\ IsWalk([w EXCEPT !.tries = @ + 1])
           /\ w.downloaded # <<>> => IsWalk(Drop(w)) /\ \A held : IsWalk(Keep(w, held))
<1>1. IsWalk(TryUrl(w)) /\ IsWalk(NextEntry(w)) /\ IsWalk(NextLevel(w))
  BY DEF IsWalk, TryUrl, NextEntry, NextLevel
<1>2. IsWalk(Saved(w)) /\ IsWalk([w EXCEPT !.tries = @ + 1])
  BY DEF IsWalk, Saved
<1>3. ASSUME w.downloaded # <<>>
      PROVE  IsWalk(Drop(w)) /\ \A held : IsWalk(Keep(w, held))
  <2>1. IsWalk(Drop(w))
    BY <1>3, SMT DEF IsWalk, Drop
  <2>2. ASSUME NEW held PROVE IsWalk(Keep(w, held))
    BY <2>1 DEF IsWalk, Keep
  <2> QED
    BY <2>1, <2>2
<1> QED
  BY <1>1, <1>2, <1>3

\* The walks that begin and end hold nothing downloaded.
LEMMA WalkBegins ==
    ASSUME NEW seeds, NEW legible
    PROVE  IsWalk(NoWalk) /\ IsWalk(FirstWalk(seeds, legible))
BY SMT DEF IsWalk, NoWalk, FirstWalk

\* A body holds certificates, or none.
LEMMA ParsedAreCertificates ==
    ASSUME NEW body \in Bodies
    PROVE  ParseDownloadedCertificates(body) \in Seq(Certs)
<1>1. body.text \in Texts
  BY DEF Bodies
<1>2. ASSUME body.text.kind = "certs" PROVE body.text.certs \in Bundles
  BY <1>1, <1>2, SMT DEF Texts
<1> QED
  BY <1>2, StoresAssumption, SMT DEF ParseDownloadedCertificates

\* What an answer makes of a walk.
LEMMA AnsweredWalk ==
    ASSUME NEW w, IsWalk(w), NEW ok \in BOOLEAN, NEW certs, ok => certs \in Seq(Certs)
    PROVE  IsWalk(Answered(w, ok, certs))
BY SMT DEF IsWalk, Answered

\* A step of f keeps the invariant when it does so part by part.
LEMMA PartByPart ==
    ASSUME FetchInv, NEW f \in Fetchers, HttpKept(f), DiskKept(f), WalkKept(f)
    PROVE  FetchInv'
<1>1. Keeps(f)
  BY DEF Keeps, HttpKept, DiskKept, WalkKept, Domains, Elsewhere, FetcherInv
<1> QED
  BY <1>1, Gather DEF DiskKept

\* Asking: a CRL for the cache, an answer for the caller, issuers for a walk.
LEMMA AskingStep ==
    ASSUME FetchInv, NEW f \in Fetchers,
           \/ \E url \in CrlUrls : FetchCrl(f, url)
           \/ \E url \in PostUrls : FetchAnswer(f, url)
           \/ WalkAsk(f)
    PROVE  FetchInv'
<1>1. CASE \E url \in CrlUrls : FetchCrl(f, url)
  <2>1. PICK url \in CrlUrls : FetchCrl(f, url)
    BY <1>1
  <2>2. Ask(f, "GET", url, "cache") /\ UNCHANGED disk /\ walk' = walk
    BY <2>1 DEF FetchCrl
  <2> QED
    BY <2>2, AskKeeps, DiskStays, WalkStays, PartByPart
<1>2. CASE \E url \in PostUrls : FetchAnswer(f, url)
  <2>1. PICK url \in PostUrls : FetchAnswer(f, url)
    BY <1>2
  <2>2. Ask(f, "POST", url, "caller") /\ UNCHANGED disk /\ walk' = walk
    BY <2>1 DEF FetchAnswer
  <2>3. HttpKept(f)
    BY <2>2, AskKeeps
  <2> QED
    BY <2>2, <2>3, DiskStays, WalkStays, PartByPart
<1>3. CASE WalkAsk(f)
  <2>1. /\ Ask(f, "GET", Asked(walk[f]), "walk") /\ UNCHANGED disk
        /\ walk' = [walk EXCEPT ![f] = [walk[f] EXCEPT !.tries = @ + 1]]
    BY <1>3 DEF WalkAsk
  <2>2. HttpKept(f)
    BY <2>1, AskKeeps
  <2>3. IsWalk([walk[f] EXCEPT !.tries = @ + 1])
    BY WalkTurns DEF FetchInv, FetcherInv, WalkInv
  <2> QED
    BY <2>1, <2>2, <2>3, WalkBecomes, DiskStays, PartByPart
<1> QED
  BY <1>1, <1>2, <1>3

\* One turn of the request loop.
LEMMA HopStep ==
    ASSUME FetchInv, NEW f \in Fetchers,
           HopDenied(f) \/ HopAnswered(f) \/ HopRefused(f) \/ HopFollowed(f)
    PROVE  FetchInv'
<1>1. CASE HopDenied(f)
  <2>1. Return(f, Failure) /\ UNCHANGED <<job, sent, walk>> /\ UNCHANGED disk
    BY <1>1 DEF HopDenied
  <2>2. Failure \in Results /\ Failure.succeeded = FALSE
    BY DEF Failure, Result, Results
  <2>3. DOMAIN sent' = Fetchers /\ sent'[f] \in 0 .. (MaxRedirects + 1)
        /\ \A g \in Fetchers \ {f} : sent'[g] = sent[g]
    BY <2>1 DEF FetchInv, Domains, FetcherInv, RequestInv
  <2>4. HttpKept(f)
    BY <2>1, <2>2, <2>3, ReturnKeeps
  <2> QED
    BY <2>1, <2>4, DiskStays, WalkStays, PartByPart
<1>2. CASE HopAnswered(f)
  <2>1. Sendable(f)
    BY <1>2 DEF HopAnswered
  <2>2. PICK r \in WinHttpRequestOnce(request[f].url) : Return(f, r)
    BY <1>2 DEF HopAnswered
  <2>3. HttpKept(f)
    BY <2>1, <2>2, SentOnce, RepliesAreWhole, ReturnKeeps
  <2> QED
    BY <2>1, <2>3, SentOnce, DiskStays, WalkStays, PartByPart
<1>3. CASE HopRefused(f)
  <2>1. Sendable(f)
    BY <1>3 DEF HopRefused
  <2>2. PICK r \in WinHttpRequestOnce(request[f].url) : Return(f, Refused(r))
    BY <1>3 DEF HopRefused
  <2>3. Refused(r) \in Results /\ Refused(r).succeeded = FALSE
    <3>1. r \in Results
      BY RepliesAreWhole
    <3> QED
      BY <3>1 DEF Refused, Results
  <2>4. HttpKept(f)
    BY <2>1, <2>2, <2>3, SentOnce, ReturnKeeps
  <2> QED
    BY <2>1, <2>4, SentOnce, DiskStays, WalkStays, PartByPart
<1>4. CASE HopFollowed(f)
  <2>1. Sendable(f)
    BY <1>4 DEF HopFollowed
  <2> QED
    BY <1>4, <2>1, FollowedKeeps, SentOnce, DiskStays, WalkStays, PartByPart
<1> QED
  BY <1>1, <1>2, <1>3, <1>4

\* A result is cached or handed to the caller.
LEMMA UseStep ==
    ASSUME FetchInv, NEW f \in Fetchers, Cache(f) \/ HandOver(f)
    PROVE  FetchInv'
<1>1. Forget(f) /\ walk' = walk
  BY DEF Cache, HandOver
<1>2. CASE Cache(f)
  <2>1. job[f].use = "cache" /\ Cacheable(result[f])
        /\ BeginWrite(f, job[f].url, result[f].body)
    BY <1>2 DEF Cache
  <2>2. job[f].url \in CrlUrls /\ AnswerInv(f)
    BY <2>1 DEF FetchInv, FetcherInv, JobInv
  <2>3. MayHold(job[f].url, result[f].body)
    BY <2>1, <2>2, StoresAssumption DEF AnswerInv, Cacheable, MayHold, SoundCrl
  <2> QED
    BY <1>1, <2>1, <2>3, ForgetKeeps, BeginKeeps, WalkStays, PartByPart
<1>3. CASE HandOver(f)
  <2>1. UNCHANGED disk
    BY <1>3 DEF HandOver
  <2> QED
    BY <1>1, <2>1, ForgetKeeps, DiskStays, WalkStays, PartByPart
<1> QED
  BY <1>2, <1>3

\* A step of a walk that is no request.
LEMMA WalkStep ==
    ASSUME FetchInv, NEW f \in Fetchers,
           \/ \E certs \in Presented : BeginWalk(f, certs)
           \/ WalkOn(f) \/ WalkAnswered(f) \/ WalkKeep(f) \/ WalkSkip(f) \/ EndWalk(f)
    PROVE  FetchInv'
<1> DEFINE w == walk[f]
<1>0. IsWalk(w)
  BY DEF FetchInv, FetcherInv, WalkInv
<1> HIDE DEF w
<1>1. CASE \E certs \in Presented : BeginWalk(f, certs)
  <2>1. /\ UNCHANGED disk /\ UNCHANGED <<pc, job, request, sent, result>>
        /\ \E seeds, legible : walk' = [walk EXCEPT ![f] = FirstWalk(seeds, legible)]
    BY <1>1 DEF BeginWalk
  <2>2. WalkKept(f)
    BY <2>1, WalkBegins, WalkBecomes
  <2> QED
    BY <2>1, <2>2, HttpStays, DiskStays, PartByPart
<1>2. CASE WalkOn(f)
  <2>1. /\ UNCHANGED disk /\ UNCHANGED <<pc, job, request, sent, result>>
        /\ \E v \in {TryUrl(w), NextEntry(w), NextLevel(w)} : walk' = [walk EXCEPT ![f] = v]
    BY <1>2 DEF WalkOn, w
  <2>2. WalkKept(f)
    BY <1>0, <2>1, WalkTurns, WalkBecomes
  <2> QED
    BY <2>1, <2>2, HttpStays, DiskStays, PartByPart
<1>3. CASE WalkAnswered(f)
  <2> DEFINE certs == ParseDownloadedCertificates(result[f].body)
  <2>1. /\ UNCHANGED disk /\ Forget(f)
        /\ walk' = [walk EXCEPT ![f] = Answered(w, result[f].succeeded, certs)]
    BY <1>3 DEF WalkAnswered, w
  <2>2. /\ result[f].succeeded \in BOOLEAN
        /\ result[f].succeeded => result[f].body \in Bodies
    BY DEF FetchInv, FetcherInv, AnswerInv, Results
  <2>3. IsWalk(Answered(w, result[f].succeeded, certs))
    BY <1>0, <2>2, ParsedAreCertificates, AnsweredWalk
  <2>4. WalkKept(f)
    BY <2>1, <2>3, WalkBecomes
  <2> QED
    BY <2>1, <2>4, ForgetKeeps, DiskStays, PartByPart
<1>4. CASE WalkKeep(f)
  <2> DEFINE c == Head(w.downloaded)
  <2>1. /\ w.downloaded # <<>> /\ BeginWrite(f, c, c)
        /\ walk' = [walk EXCEPT ![f] = Keep(w, Whole(c))]
        /\ UNCHANGED <<pc, job, request, sent, result>>
    BY <1>4 DEF WalkKeep, w
  <2>2. c \in Certs
    BY <1>0, <2>1, SMT DEF IsWalk
  <2>3. MayHold(c, c)
    BY <2>2, StoresAssumption DEF MayHold
  <2>4. WalkKept(f)
    BY <1>0, <2>1, WalkTurns, WalkBecomes, ZenonT(60), SMT
  <2> QED
    BY <2>1, <2>3, <2>4, BeginKeeps, HttpStays, PartByPart
<1>5. CASE WalkSkip(f)
  <2>1. /\ UNCHANGED disk /\ UNCHANGED <<pc, job, request, sent, result>>
        /\ \/ w.downloaded # <<>> /\ walk' = [walk EXCEPT ![f] = Drop(w)]
           \/ walk' = [walk EXCEPT ![f] = Saved(w)]
    BY <1>5 DEF WalkSkip, w
  <2>2. WalkKept(f)
    BY <1>0, <2>1, WalkTurns, WalkBecomes
  <2> QED
    BY <2>1, <2>2, HttpStays, DiskStays, PartByPart
<1>6. CASE EndWalk(f)
  <2>1. /\ UNCHANGED disk /\ UNCHANGED <<pc, job, request, sent, result>>
        /\ walk' = [walk EXCEPT ![f] = NoWalk]
    BY <1>6 DEF EndWalk
  <2>2. WalkKept(f)
    BY <2>1, WalkBegins, WalkBecomes
  <2> QED
    BY <2>1, <2>2, HttpStays, DiskStays, PartByPart
<1> QED
  BY <1>1, <1>2, <1>3, <1>4, <1>5, <1>6

\* A write goes on, or the process of the fetcher ends.
LEMMA WriteStep ==
    ASSUME FetchInv, NEW f \in Fetchers, WriteOn(f) \/ Crash(f)
    PROVE  FetchInv'
<1>1. CASE WriteOn(f)
  <2>1. /\ OpenTemp(f) \/ OpenFails(f) \/ WriteTemp(f) \/ WriteFails(f) \/ Replace(f)
        /\ UNCHANGED <<pc, job, request, sent, result>> /\ walk' = walk
    BY <1>1 DEF WriteOn
  <2> QED
    BY <2>1, WritingKeeps, HttpStays, WalkStays, PartByPart
<1>2. CASE Crash(f)
  <2>1. /\ Killed(f) \/ UNCHANGED disk
        /\ Forget(f) /\ walk' = [walk EXCEPT ![f] = NoWalk]
    BY <1>2 DEF Crash
  <2>2. DiskKept(f)
    BY <2>1, WritingKeeps, DiskStays
  <2>3. WalkKept(f)
    BY <2>1, WalkBegins, WalkBecomes
  <2> QED
    BY <2>1, <2>2, <2>3, ForgetKeeps, PartByPart
<1> QED
  BY <1>1, <1>2

\* Every step keeps the invariant.
LEMMA StepKeeps ==
    ASSUME FetchInv, [Next]_vars
    PROVE  FetchInv'
<1>1. ASSUME UNCHANGED <<file, writing, orphans, pc, job, request, sent, result, walk>>
      PROVE  FetchInv'
  BY <1>1, SMT DEF FetchInv, Domains, DiskInv, FetcherInv, RequestInv, AnswerInv, JobInv, WriteInv,
              WalkInv
<1>2. CASE UNCHANGED vars
  BY <1>1, <1>2 DEF vars
<1>3. CASE Tick
  BY <1>1, <1>3 DEF Tick, disk
<1>4. ASSUME NEW f \in Fetchers,
             \/ \E url \in CrlUrls : FetchCrl(f, url)
             \/ \E url \in PostUrls : FetchAnswer(f, url)
             \/ \E certs \in Presented : BeginWalk(f, certs)
             \/ Work(f)
             \/ Crash(f)
      PROVE  FetchInv'
  <2>1. CASE \/ \E url \in CrlUrls : FetchCrl(f, url)
             \/ \E url \in PostUrls : FetchAnswer(f, url)
             \/ WalkAsk(f)
    BY <2>1, AskingStep
  <2>2. CASE HopDenied(f) \/ HopAnswered(f) \/ HopRefused(f) \/ HopFollowed(f)
    BY <2>2, HopStep
  <2>3. CASE Cache(f) \/ HandOver(f)
    BY <2>3, UseStep
  <2>4. CASE \/ \E certs \in Presented : BeginWalk(f, certs)
             \/ WalkOn(f) \/ WalkAnswered(f) \/ WalkKeep(f) \/ WalkSkip(f) \/ EndWalk(f)
    BY <2>4, WalkStep
  <2>5. CASE WriteOn(f) \/ Crash(f)
    BY <2>5, WriteStep
  <2> QED
    BY <1>4, <2>1, <2>2, <2>3, <2>4, <2>5 DEF Work
<1> QED
  BY <1>2, <1>3, <1>4, ZenonT(60), SMT DEF Next

\* The two directories are empty and nothing is asked at first.
LEMMA InitKeeps == Init => FetchInv
<1> SUFFICES ASSUME Init PROVE FetchInv
  OBVIOUS
<1>1. FileInit
  BY DEF Init
<1>2. Domains
  BY DEF Init, FileInit, Domains
<1>3. DiskInv
  BY DEF Init, FileInit, DiskInv
<1>4. ASSUME NEW f \in Fetchers PROVE FetcherInv(f)
  <2>1. /\ pc[f] = "idle" /\ job[f] = NoJob /\ request[f] = NoRequest /\ sent[f] = 0
        /\ result[f] = Failure /\ writing[f] = NotWriting /\ walk[f] = NoWalk
    BY <1>4 DEF Init, FileInit
  <2>2. RequestInv(f)
    BY <2>1, TransferAssumption, SMT DEF RequestInv, IsRequest, FirstRequest, NoRequest
  <2>3. AnswerInv(f) /\ JobInv(f)
    BY <2>1, SMT DEF AnswerInv, JobInv, Failure, Result, Results, NoJob
  <2>4. WriteInv(f) /\ WalkInv(f)
    BY <2>1, WalkBegins, SMT DEF WriteInv, NotWriting, WalkInv
  <2> QED
    BY <2>2, <2>3, <2>4 DEF FetcherInv
<1> QED
  BY <1>1, <1>2, <1>3, <1>4 DEF FetchInv

\* What the CRL directory holds, temporary files included, is of sound CRLs.
LEMMA DirectoryIsSound ==
    ASSUME FetchInv, NEW c \in LoadCrlsFromWorkDir
    PROVE  SoundCrl(c.of)
<1>1. \/ \E p \in CrlUrls : file[p] # Absent /\ c = file[p]
      \/ \E o \in orphans : o[1] \in CrlUrls /\ c = o[2]
      \/ \E f \in Fetchers : /\ writing[f].stage # "none" /\ writing[f].path \in CrlUrls
                              /\ c \in TempOf(f)
  BY DEF LoadCrlsFromWorkDir, Directory
<1>2. CASE \E p \in CrlUrls : file[p] # Absent /\ c = file[p]
  BY <1>2 DEF FetchInv, DiskInv, MayHold
<1>3. CASE \E o \in orphans : o[1] \in CrlUrls /\ c = o[2]
  BY <1>3 DEF FetchInv, DiskInv, MayHold
<1>4. CASE \E f \in Fetchers : /\ writing[f].stage # "none" /\ writing[f].path \in CrlUrls
                               /\ c \in TempOf(f)
  <2>1. PICK f \in Fetchers : /\ writing[f].stage # "none" /\ writing[f].path \in CrlUrls
                              /\ c \in TempOf(f)
    BY <1>4
  <2>2. SoundCrl(writing[f].data)
    BY <2>1 DEF FetchInv, FetcherInv, WriteInv, MayHold
  <2>3. c.of = writing[f].data
    BY <2>1, TempFile, SMT DEF Part, Whole
  <2> QED
    BY <2>2, <2>3
<1> QED
  BY <1>1, <1>2, <1>3, <1>4

\* The invariant says what WholeAnswersOnly says.
LEMMA InvariantIsEnough == FetchInv => WholeAnswersOnly
<1> SUFFICES ASSUME FetchInv PROVE WholeAnswersOnly
  OBVIOUS
<1>1. AnswersAreWhole
  BY DEF AnswersAreWhole, FetchInv, FetcherInv, AnswerInv
<1>2. CacheIsSound
  <2>1. ASSUME NEW p \in CrlUrls, file[p] # Absent
        PROVE  file[p] = Whole(file[p].of) /\ SoundCrl(file[p].of)
    BY <2>1 DEF FetchInv, DiskInv, MayHold
  <2>2. \A x : Whole(x).bytes = "whole"
    BY DEF Whole
  <2> QED
    BY <2>1, <2>2 DEF CacheIsSound, SoundCrl
<1>3. LoadedCrlsAreSound
  BY DirectoryIsSound DEF LoadedCrlsAreSound, LoadMatchingCrlsFromWorkDir, SoundCrl,
                                 IsValidCrlDer
<1>4. NeverDowngraded /\ BodyGoesWithPost
  BY DEF NeverDowngraded, BodyGoesWithPost, FetchInv, FetcherInv, RequestInv
<1>5. RequestsBounded
  BY TransferAssumption, SMT DEF RequestsBounded, FetchInv, FetcherInv, RequestInv
<1> QED
  BY <1>1, <1>2, <1>3, <1>4, <1>5 DEF WholeAnswersOnly

\* Whatever the servers answer and whoever is killed while writing, only whole
\* answers of public peers are handed out, cached and loaded, within the rules
\* of the redirect loop (WinHttpRequest, DownloadAndCacheCrlsForCert,
\* LoadMatchingCrlsFromWorkDir), for any number of validations and redirects.
THEOREM OnlyWholeAnswers == Spec => []WholeAnswersOnly
<1>1. Init => FetchInv
  BY InitKeeps
<1>2. FetchInv /\ [Next]_vars => FetchInv'
  BY StepKeeps
<1>3. FetchInv => WholeAnswersOnly
  BY InvariantIsEnough
<1> QED
  BY <1>1, <1>2, <1>3, PTL DEF Spec

-----------------------------------------------------------------------------
(* The search for issuers. *)

\* What the queue of a walk holds: certificates, or part of their bytes.
Held == {Whole(c) : c \in Certs} \cup {Part(c) : c \in Certs}

WalkFields ==
    {"stage", "queue", "seen", "attempted", "processed", "levelEnd", "depth", "url", "tries",
     "downloaded", "found", "legible"}

\* The queue and how far its entries have been dealt with.
QueueInv(w) ==
    /\ w.queue \in Seq(Held) /\ w.queue # <<>> /\ w.queue[1].bytes = "whole"
    /\ w.processed \in Nat /\ w.levelEnd \in Nat \ {0} /\ w.url \in Nat \ {0}
    /\ w.processed <= w.levelEnd /\ w.levelEnd <= Len(w.queue)
    /\ w.stage \in {"ask", "save"} => w.processed < w.levelEnd

BudgetInv(w) ==
    /\ IsFiniteSet(w.attempted) /\ Cardinality(w.attempted) <= MaxUrls
    /\ w.depth \in Nat /\ w.depth <= MaxDepth
    /\ w.stage # "done" => w.depth < MaxDepth
    /\ w.tries \in Nat /\ w.tries <= MaxAttempts

\* Every entry of the queue is remembered, and what was found is its end.
FoundInv(w) ==
    /\ w.found \in Seq(Held) /\ w.downloaded \in Seq(Certs)
    /\ Len(w.found) <= Len(w.queue)
    /\ \A i \in DOMAIN w.queue : w.queue[i] \in w.seen
    /\ ReturnsNew(w)

\* The addresses of entry i before position n have been asked.
AskedBefore(w, i, n) ==
    \A u \in DOMAIN ExtractCaIssuersUrls(w, w.queue[i]) :
        u < n => ExtractCaIssuersUrls(w, w.queue[i])[u] \in w.attempted

\* As long as the budget lasts no address behind the position was passed over.
AskedInv(w) ==
    ~BudgetSpent(w) =>
        /\ \A i \in 1 .. w.processed :
              \A u \in DOMAIN ExtractCaIssuersUrls(w, w.queue[i]) :
                  ExtractCaIssuersUrls(w, w.queue[i])[u] \in w.attempted
        /\ w.processed < Len(w.queue) => AskedBefore(w, w.processed + 1, w.url)
        /\ w.stage = "done" /\ w.depth < MaxDepth => w.processed = Len(w.queue)

\* The budget cannot be spent while the signer's certificate is being dealt with
\* and has addresses left, when it names no more than the budget.
SignerInv(w) ==
    LET own == CaIssuers[w.queue[1].of]
    IN  /\ w.processed = 0 => Cardinality(w.attempted) < w.url
        /\ Len(own) <= MaxUrls =>
              \A u \in DOMAIN own : w.processed > 0 \/ u < w.url => own[u] \in w.attempted
        /\ w.stage = "done" => w.processed > 0

SearchOK(w) ==
    /\ DOMAIN w = WalkFields
    /\ QueueInv(w) /\ BudgetInv(w) /\ FoundInv(w) /\ AskedInv(w) /\ SignerInv(w)

\* A walk waits for an answer exactly while a request of its own is on its way.
WaitInv(f) ==
    /\ pc[f] # "idle" =>
          walk[f].stage = IF job[f].use = "walk" THEN "ask" ELSE "none"
    /\ pc[f] = "idle" /\ walk[f].stage = "ask" => walk[f].tries < MaxAttempts

SearchInv(f) == WaitInv(f) /\ (walk[f].stage # "none" => SearchOK(walk[f]))

SearchesInv == \A f \in Fetchers : SearchInv(f)

\* An entry names addresses in an order, or none.
LEMMA EntryAddresses ==
    ASSUME NEW w, NEW x \in Held
    PROVE  /\ ExtractCaIssuersUrls(w, x) \in Seq(UrlSet)
           /\ x.of \in Certs
           /\ x.bytes = "whole" => ExtractCaIssuersUrls(w, x) = CaIssuers[x.of]
<1>1. PICK c \in Certs : x = Whole(c) \/ x = Part(c)
  BY DEF Held
<1>2. x.of = c
  BY <1>1, SMT DEF Whole, Part
<1>3. CaIssuers[c] \in Seq(UrlSet)
  BY StoresAssumption
<1>4. <<>> \in Seq(UrlSet)
  BY SMT
<1> QED
  BY <1>2, <1>3, <1>4 DEF ExtractCaIssuersUrls, AppendAiaUrlsFromCertificate

\* v differs from w in its stage, its attempts and what it downloaded alone.
Kin(w, v) ==
    /\ DOMAIN v = WalkFields
    /\ v.queue = w.queue /\ v.seen = w.seen /\ v.attempted = w.attempted
    /\ v.processed = w.processed /\ v.levelEnd = w.levelEnd /\ v.depth = w.depth
    /\ v.url = w.url /\ v.found = w.found /\ v.legible = w.legible

\* A request, its answer and a certificate that is no news.
LEMMA KinKeeps ==
    ASSUME NEW w, SearchOK(w), NEW v, Kin(w, v), w.stage # "done", v.stage # "done",
           v.stage \in {"ask", "save"} => w.stage \in {"ask", "save"},
           v.tries \in Nat, v.tries <= MaxAttempts, v.downloaded \in Seq(Certs)
    PROVE  SearchOK(v)
<1>1. QueueInv(v)
  BY DEF SearchOK, QueueInv, Kin
<1>2. BudgetInv(v)
  BY DEF SearchOK, BudgetInv, Kin
<1>3. FoundInv(v)
  BY DEF SearchOK, FoundInv, ReturnsNew, Kin
<1>4. \A x : ExtractCaIssuersUrls(v, x) = ExtractCaIssuersUrls(w, x)
  BY DEF ExtractCaIssuersUrls, Kin
<1>5. AskedInv(v)
  BY <1>4 DEF SearchOK, AskedInv, AskedBefore, BudgetSpent, Kin
<1>6. SignerInv(v)
  BY DEF SearchOK, SignerInv, Kin
<1> QED
  BY <1>1, <1>2, <1>3, <1>5, <1>6 DEF SearchOK, Kin

\* What one more address makes of a walk: it is asked, or passed over.
Tried(w, v) ==
    /\ DOMAIN v = WalkFields
    /\ v.queue = w.queue /\ v.seen = w.seen /\ v.processed = w.processed
    /\ v.levelEnd = w.levelEnd /\ v.depth = w.depth /\ v.found = w.found
    /\ v.legible = w.legible /\ v.downloaded = w.downloaded /\ v.url = w.url + 1
    /\ v.stage \in {"level", "ask"} /\ (v.stage = "ask" => v.tries = 0)
    /\ v.tries \in Nat /\ v.tries <= MaxAttempts
    /\ w.attempted \subseteq v.attempted /\ IsFiniteSet(v.attempted)
    /\ Cardinality(v.attempted) <= MaxUrls
    /\ Cardinality(v.attempted) <= Cardinality(w.attempted) + 1
    /\ BudgetSpent(w) => BudgetSpent(v)
    /\ ~BudgetSpent(w) => Current(w)[w.url] \in v.attempted

\* The next address of an entry.
LEMMA TryUrlTries ==
    ASSUME NEW w, SearchOK(w), AtUrl(w)
    PROVE  Tried(w, TryUrl(w))
<1> DEFINE a == Current(w)[w.url]
           m == Cardinality(w.attempted)
<1>1. /\ DOMAIN w = WalkFields /\ w.stage = "level" /\ w.url \in Nat
      /\ w.tries \in Nat /\ w.tries <= MaxAttempts
      /\ IsFiniteSet(w.attempted) /\ m <= MaxUrls
  BY DEF SearchOK, QueueInv, BudgetInv, AtUrl, InLevel
<1>2. m \in Nat
  BY <1>1, FS_CardinalityType
<1>3. CASE BudgetSpent(w) \/ a \in w.attempted
  <2>1. PICK v : v = [w EXCEPT !.url = @ + 1]
    OBVIOUS
  <2>2. TryUrl(w) = v
    BY <1>3, <2>1 DEF TryUrl
  <2>3. /\ DOMAIN v = WalkFields
        /\ v.queue = w.queue /\ v.seen = w.seen /\ v.processed = w.processed
        /\ v.levelEnd = w.levelEnd /\ v.depth = w.depth /\ v.found = w.found
        /\ v.legible = w.legible /\ v.downloaded = w.downloaded /\ v.url = w.url + 1
        /\ v.stage = w.stage /\ v.tries = w.tries /\ v.attempted = w.attempted
    BY <1>1, <2>1 DEF WalkFields
  <2>4. BudgetSpent(w) => BudgetSpent(v)
    BY <2>3 DEF BudgetSpent
  <2>5. m <= m + 1
    BY <1>2, SMT
  <2> QED
    BY <1>1, <1>3, <2>2, <2>3, <2>4, <2>5 DEF Tried
<1>4. CASE ~(BudgetSpent(w) \/ a \in w.attempted)
  <2>1. PICK v : v = [w EXCEPT !.url = @ + 1, !.stage = "ask", !.tries = 0,
                               !.attempted = @ \cup {a}]
    OBVIOUS
  <2>2. TryUrl(w) = v
    BY <1>4, <2>1 DEF TryUrl
  <2>3. /\ DOMAIN v = WalkFields
        /\ v.queue = w.queue /\ v.seen = w.seen /\ v.processed = w.processed
        /\ v.levelEnd = w.levelEnd /\ v.depth = w.depth /\ v.found = w.found
        /\ v.legible = w.legible /\ v.downloaded = w.downloaded /\ v.url = w.url + 1
        /\ v.stage = "ask" /\ v.tries = 0 /\ v.attempted = w.attempted \cup {a}
    BY <1>1, <2>1 DEF WalkFields
  <2>4. IsFiniteSet(v.attempted) /\ Cardinality(v.attempted) = m + 1
    <3>1. /\ IsFiniteSet(w.attempted \cup {a})
          /\ Cardinality(w.attempted \cup {a}) = IF a \in w.attempted THEN m ELSE m + 1
      BY <1>1, FS_AddElement
    <3> QED
      BY <1>4, <2>3, <3>1
  <2>5. ~(m >= MaxUrls)
    BY <1>4 DEF BudgetSpent
  <2>6. m + 1 <= MaxUrls /\ m + 1 <= m + 1 /\ 0 \in Nat /\ 0 <= MaxAttempts
    BY <1>2, <2>5, WalkAssumption, SMT
  <2> QED
    BY <1>4, <2>2, <2>3, <2>4, <2>6 DEF Tried
<1> QED
  BY <1>3, <1>4

\* A walk that has looked at an address, or found none left, is as good.
LEMMA TriedKeeps ==
    ASSUME NEW w, SearchOK(w), AtUrl(w), NEW v, Tried(w, v)
    PROVE  SearchOK(v)
<1>1. /\ w.stage = "level" /\ w.processed < w.levelEnd /\ w.url <= Len(Current(w))
      /\ DOMAIN v = WalkFields
  BY DEF AtUrl, InLevel, Tried
<1>2. QueueInv(v)
  BY <1>1, SMT DEF SearchOK, QueueInv, Tried
<1>3. BudgetInv(v)
  BY <1>1 DEF SearchOK, BudgetInv, Tried
<1>4. FoundInv(v)
  BY DEF SearchOK, FoundInv, ReturnsNew, Tried
<1>5. \A x : ExtractCaIssuersUrls(v, x) = ExtractCaIssuersUrls(w, x)
  BY DEF ExtractCaIssuersUrls, Tried
<1>6. PICK e : e = Current(w)
  OBVIOUS
<1>7. /\ w.queue \in Seq(Held) /\ w.processed \in Nat /\ w.processed < Len(w.queue)
      /\ w.processed + 1 \in 1 .. Len(w.queue)
  BY <1>1, SMT DEF SearchOK, QueueInv
<1>8. w.queue[w.processed + 1] \in Held
  BY <1>7, SMT
<1>9. e \in Seq(UrlSet) /\ w.url \in Nat /\ w.url <= Len(e)
  BY <1>1, <1>6, <1>8, EntryAddresses DEF Current, SearchOK, QueueInv
<1>10. AskedInv(v)
  <2>1. SUFFICES ASSUME ~BudgetSpent(v) PROVE AskedInv(v)
    BY DEF AskedInv
  <2>2. ~BudgetSpent(w) /\ e[w.url] \in v.attempted /\ w.attempted \subseteq v.attempted
    BY <1>6, <2>1 DEF Tried
  <2>3. \A u \in DOMAIN e : u < w.url => e[u] \in w.attempted
    BY <1>6, <1>7, <2>2 DEF SearchOK, AskedInv, AskedBefore, Current
  <2>4. \A u \in DOMAIN e : u < w.url + 1 => u < w.url \/ u = w.url
    BY <1>9, SMT
  <2>5. \A u \in DOMAIN e : u < w.url + 1 => e[u] \in v.attempted
    BY <2>2, <2>3, <2>4
  <2>6. AskedBefore(v, v.processed + 1, v.url)
    BY <1>5, <1>6, <2>5 DEF AskedBefore, Current, Tried
  <2>7. \A i \in 1 .. w.processed :
           \A u \in DOMAIN ExtractCaIssuersUrls(w, w.queue[i]) :
               ExtractCaIssuersUrls(w, w.queue[i])[u] \in w.attempted
    BY <2>2 DEF SearchOK, AskedInv
  <2>8. v.stage # "done" /\ v.processed = w.processed /\ v.queue = w.queue
    BY DEF Tried
  <2> QED
    BY <1>5, <2>2, <2>6, <2>7, <2>8 DEF AskedInv
<1>11. SignerInv(v)
  <2> DEFINE own == CaIssuers[w.queue[1].of]
  <2>1. v.stage # "done" /\ v.processed = w.processed /\ v.queue = w.queue
        /\ w.attempted \subseteq v.attempted
    BY DEF Tried
  <2>2. ASSUME w.processed = 0 PROVE Cardinality(v.attempted) < v.url
    <3>1. Cardinality(w.attempted) < w.url /\ IsFiniteSet(w.attempted) /\ IsFiniteSet(v.attempted)
      BY <2>2 DEF SearchOK, SignerInv, BudgetInv, Tried
    <3>2. Cardinality(w.attempted) \in Nat /\ Cardinality(v.attempted) \in Nat
      BY <3>1, FS_CardinalityType
    <3> QED
      BY <1>9, <3>1, <3>2, SMT DEF Tried
  <2>3. ASSUME Len(own) <= MaxUrls, NEW u \in DOMAIN own, w.processed > 0 \/ u < v.url
        PROVE  own[u] \in v.attempted
    <3>1. CASE w.processed > 0 \/ u < w.url
      BY <2>1, <2>3, <3>1 DEF SearchOK, SignerInv
    <3>2. CASE w.processed = 0 /\ ~(u < w.url)
      <4>1. w.queue[1] \in Held /\ w.queue[1].bytes = "whole" /\ w.processed = 0
        BY <1>7, <3>2, SMT DEF SearchOK, QueueInv
      <4>2. e = own
        BY <1>6, <4>1, EntryAddresses, SMT DEF Current
      <4>3. u = w.url
        <5>1. ~(w.processed > 0)
          BY <4>1, SMT
        <5>2. u \in DOMAIN e /\ ~(u < w.url) /\ u < w.url + 1
          BY <2>3, <3>2, <4>2, <5>1 DEF Tried
        <5> QED
          BY <1>9, <5>2, SMT
      <4>4. Cardinality(w.attempted) < w.url /\ IsFiniteSet(w.attempted)
        BY <4>1 DEF SearchOK, SignerInv, BudgetInv
      <4>5. Cardinality(w.attempted) \in Nat
        BY <4>4, FS_CardinalityType
      <4>6. ~BudgetSpent(w)
        BY <1>9, <2>3, <4>2, <4>4, <4>5, WalkAssumption, SMT DEF BudgetSpent
      <4> QED
        BY <1>6, <4>2, <4>3, <4>6 DEF Tried
    <3>3. w.processed > 0 \/ w.processed = 0
      BY <1>7, SMT
    <3> QED
      BY <3>1, <3>2, <3>3
  <2> QED
    BY <2>1, <2>2, <2>3 DEF SignerInv
<1> QED
  BY <1>1, <1>2, <1>3, <1>4, <1>10, <1>11 DEF SearchOK

\* The next entry of a level.
LEMMA NextEntryKeeps ==
    ASSUME NEW w, SearchOK(w), AtEntryEnd(w)
    PROVE  SearchOK(NextEntry(w)) /\ NextEntry(w).stage = "level"
<1>1. PICK v : v = NextEntry(w)
  OBVIOUS
<1>2. DOMAIN w = WalkFields
  BY DEF SearchOK
<1>3. /\ DOMAIN v = WalkFields
      /\ v.queue = w.queue /\ v.seen = w.seen /\ v.attempted = w.attempted
      /\ v.processed = w.processed + 1 /\ v.levelEnd = w.levelEnd /\ v.depth = w.depth
      /\ v.url = 1 /\ v.found = w.found /\ v.legible = w.legible /\ v.tries = w.tries
      /\ v.downloaded = w.downloaded /\ v.stage = w.stage
  BY <1>1, <1>2 DEF NextEntry, WalkFields
<1>4. w.stage = "level" /\ w.processed < w.levelEnd /\ w.url > Len(Current(w))
  BY DEF AtEntryEnd, InLevel
<1>5. QueueInv(v)
  BY <1>3, <1>4, SMT DEF SearchOK, QueueInv
<1>6. BudgetInv(v)
  BY <1>3 DEF SearchOK, BudgetInv
<1>7. FoundInv(v)
  BY <1>3 DEF SearchOK, FoundInv, ReturnsNew
<1>8. \A x : ExtractCaIssuersUrls(v, x) = ExtractCaIssuersUrls(w, x)
  BY <1>3 DEF ExtractCaIssuersUrls
<1>9. PICK e : e = Current(w)
  OBVIOUS
<1>10. /\ w.queue \in Seq(Held) /\ w.processed \in Nat /\ w.processed < Len(w.queue)
       /\ w.processed + 1 \in 1 .. Len(w.queue)
  BY <1>4, SMT DEF SearchOK, QueueInv
<1>11. w.queue[w.processed + 1] \in Held
  BY <1>10, SMT
<1>12. e \in Seq(UrlSet) /\ w.url \in Nat /\ w.url > Len(e)
  BY <1>4, <1>9, <1>11, EntryAddresses DEF Current, SearchOK, QueueInv
<1>13. \A u \in DOMAIN e : u < w.url
  BY <1>12, SMT
<1>14. AskedInv(v)
  <2>1. SUFFICES ASSUME ~BudgetSpent(v) PROVE AskedInv(v)
    BY DEF AskedInv
  <2>2. ~BudgetSpent(w)
    BY <1>3, <2>1 DEF BudgetSpent
  <2>3. \A u \in DOMAIN e : e[u] \in w.attempted
    BY <1>9, <1>10, <1>13, <2>2 DEF SearchOK, AskedInv, AskedBefore, Current
  <2>4. \A i \in 1 .. w.processed :
           \A u \in DOMAIN ExtractCaIssuersUrls(w, w.queue[i]) :
               ExtractCaIssuersUrls(w, w.queue[i])[u] \in w.attempted
    BY <2>2 DEF SearchOK, AskedInv
  <2>5. \A i \in 1 .. w.processed + 1 : i \in 1 .. w.processed \/ i = w.processed + 1
    BY <1>10, SMT
  <2>6. \A i \in 1 .. w.processed + 1 :
           \A u \in DOMAIN ExtractCaIssuersUrls(w, w.queue[i]) :
               ExtractCaIssuersUrls(w, w.queue[i])[u] \in w.attempted
    BY <1>9, <2>3, <2>4, <2>5 DEF Current
  <2>7. ASSUME v.processed < Len(v.queue) PROVE AskedBefore(v, v.processed + 1, v.url)
    <3>1. w.queue[v.processed + 1] \in Held
      BY <1>3, <1>10, <2>7, SMT
    <3>2. ASSUME NEW u \in DOMAIN ExtractCaIssuersUrls(w, w.queue[v.processed + 1])
          PROVE  ~(u < 1)
      BY <3>1, EntryAddresses, SMT
    <3> QED
      BY <1>3, <1>8, <3>2 DEF AskedBefore
  <2> QED
    BY <1>3, <1>4, <1>8, <2>6, <2>7 DEF AskedInv
<1>15. SignerInv(v)
  <2> DEFINE own == CaIssuers[w.queue[1].of]
  <2>1. ASSUME Len(own) <= MaxUrls, NEW u \in DOMAIN own PROVE own[u] \in w.attempted
    <3>1. CASE w.processed > 0
      BY <2>1, <3>1 DEF SearchOK, SignerInv
    <3>2. CASE w.processed = 0
      <4>1. w.queue[1] \in Held /\ w.queue[1].bytes = "whole"
        BY <1>10, <3>2, SMT DEF SearchOK, QueueInv
      <4>2. e = own
        BY <1>9, <3>2, <4>1, EntryAddresses, SMT DEF Current
      <4> QED
        BY <1>13, <2>1, <4>2 DEF SearchOK, SignerInv
    <3> QED
      BY <1>10, <3>1, <3>2, SMT
  <2>2. v.processed > 0 /\ ~(v.processed = 0)
    BY <1>3, <1>10, SMT
  <2> QED
    BY <1>3, <2>1, <2>2 DEF SignerInv
<1> QED
  BY <1>1, <1>3, <1>4, <1>5, <1>6, <1>7, <1>14, <1>15 DEF SearchOK

\* The next level, or the end of the walk.
LEMMA NextLevelKeeps ==
    ASSUME NEW w, SearchOK(w), AtLevelEnd(w)
    PROVE  SearchOK(NextLevel(w)) /\ NextLevel(w).stage \in {"level", "done"}
<1>1. PICK v : v = NextLevel(w)
  OBVIOUS
<1>2. DOMAIN w = WalkFields /\ w.stage = "level"
  BY DEF SearchOK, AtLevelEnd
<1>3. /\ DOMAIN v = WalkFields
      /\ v.queue = w.queue /\ v.seen = w.seen /\ v.attempted = w.attempted
      /\ v.processed = w.processed /\ v.levelEnd = Len(w.queue) /\ v.depth = w.depth + 1
      /\ v.url = w.url /\ v.found = w.found /\ v.legible = w.legible /\ v.tries = w.tries
      /\ v.downloaded = w.downloaded
      /\ v.stage = IF LevelsLeft(w) THEN "level" ELSE "done"
  BY <1>1, <1>2 DEF NextLevel, WalkFields
<1>4. v.stage \in {"level", "done"} /\ (v.stage = "done" <=> ~LevelsLeft(w))
  BY <1>3
<1>5. QueueInv(v)
  <2>1. w.queue \in Seq(Held) /\ w.queue # <<>>
    BY DEF SearchOK, QueueInv
  <2>2. Len(w.queue) \in Nat \ {0} /\ Len(w.queue) <= Len(w.queue)
    BY <2>1, SMT
  <2>3. w.processed <= Len(w.queue)
    BY <2>2, SMT DEF SearchOK, QueueInv
  <2> QED
    BY <1>3, <1>4, <2>2, <2>3 DEF SearchOK, QueueInv
<1>6. BudgetInv(v)
  <2>1. w.depth \in Nat /\ w.depth < MaxDepth
    BY <1>2 DEF SearchOK, BudgetInv
  <2>2. w.depth + 1 \in Nat /\ w.depth + 1 <= MaxDepth
    BY <2>1, WalkAssumption, SMT
  <2>3. v.stage # "done" => w.depth + 1 < MaxDepth
    BY <1>4 DEF LevelsLeft
  <2> QED
    BY <1>3, <2>2, <2>3 DEF SearchOK, BudgetInv
<1>7. FoundInv(v)
  BY <1>3 DEF SearchOK, FoundInv, ReturnsNew
<1>8. \A x : ExtractCaIssuersUrls(v, x) = ExtractCaIssuersUrls(w, x)
  BY <1>3 DEF ExtractCaIssuersUrls
<1>9. BudgetSpent(v) <=> BudgetSpent(w)
  BY <1>3 DEF BudgetSpent
<1>10. ASSUME v.stage = "done", v.depth < MaxDepth, ~BudgetSpent(v)
       PROVE  w.processed = Len(w.queue)
  <2>1. ~(w.processed < Len(w.queue))
    BY <1>3, <1>4, <1>9, <1>10 DEF LevelsLeft
  <2>2. w.processed <= Len(w.queue) /\ w.processed \in Nat /\ Len(w.queue) \in Nat
    BY <1>3, <1>5 DEF QueueInv
  <2> QED
    BY <2>1, <2>2, SMT
<1>11. AskedInv(v)
  BY <1>3, <1>8, <1>9, <1>10 DEF SearchOK, AskedInv, AskedBefore
<1>12. w.processed > 0
  <2>1. CASE w.processed < w.levelEnd
    <3>1. ~(w.url > 1) /\ BudgetSpent(w)
      BY <1>2, <2>1 DEF AtLevelEnd, InLevel
    <3>2. w.processed = 0 => Cardinality(w.attempted) < w.url
      BY DEF SearchOK, SignerInv
    <3>3. Cardinality(w.attempted) \in Nat
      BY FS_CardinalityType DEF SearchOK, BudgetInv
    <3> QED
      BY <3>1, <3>2, <3>3, WalkAssumption, SMT DEF SearchOK, QueueInv, BudgetSpent
  <2>2. CASE ~(w.processed < w.levelEnd)
    BY <2>2, SMT DEF SearchOK, QueueInv
  <2> QED
    BY <2>1, <2>2
<1>13. SignerInv(v)
  BY <1>3, <1>12 DEF SearchOK, SignerInv
<1> QED
  BY <1>1, <1>3, <1>4, <1>5, <1>6, <1>7, <1>11, <1>13 DEF SearchOK

\* The list q of length n with x after it.
Extended(S, q, n, x, r) ==
    /\ r \in Seq(S) /\ r # <<>> /\ Len(r) = n + 1 /\ r[n + 1] = x
    /\ \A i \in 1 .. n : r[i] = q[i]
    /\ DOMAIN q = 1 .. n /\ DOMAIN r = 1 .. n + 1

\* What a new certificate makes of the lists of a walk.
LEMMA AppendExtends ==
    ASSUME NEW S, NEW q \in Seq(S), NEW x \in S
    PROVE  Extended(S, q, Len(q), x, Append(q, x))
BY SMT DEF Extended

\* The entries before the i-th that was found stay the same.
LEMMA EntriesBefore ==
    ASSUME NEW n \in Nat, NEW m \in Nat, m <= n, NEW i \in 1 .. m,
           NEW j \in 1 .. ((n + 1) - (m + 1) + i - 1)
    PROVE  j \in 1 .. n /\ j \in 1 .. (n - m + i - 1)
BY SMT

\* A certificate that is new.
LEMMA KeepKeeps ==
    ASSUME NEW w, SearchOK(w), w.stage = "save", NEW held \in Held, held.bytes = "whole",
           held \notin w.seen, w.downloaded # <<>>
    PROVE  SearchOK(Keep(w, held)) /\ Keep(w, held).stage = "save"
<1>1. PICK v : v = Keep(w, held)
  OBVIOUS
<1>2. DOMAIN w = WalkFields
  BY DEF SearchOK
<1>3. /\ DOMAIN v = WalkFields
      /\ v.queue = Append(w.queue, held) /\ v.seen = w.seen \cup {held}
      /\ v.attempted = w.attempted /\ v.processed = w.processed /\ v.levelEnd = w.levelEnd
      /\ v.depth = w.depth /\ v.url = w.url /\ v.found = Append(w.found, held)
      /\ v.legible = w.legible /\ v.tries = w.tries
      /\ v.downloaded = Tail(w.downloaded) /\ v.stage = w.stage
  BY <1>1, <1>2 DEF Keep, Drop, WalkFields
<1>4. PICK q, n, p, m :
         /\ q = w.queue /\ n = Len(q) /\ q \in Seq(Held) /\ n \in Nat /\ n >= 1
         /\ p = w.found /\ m = Len(p) /\ p \in Seq(Held) /\ m \in Nat /\ m <= n
  BY SMT DEF SearchOK, QueueInv, FoundInv
<1>5. Extended(Held, q, n, held, v.queue) /\ Extended(Held, p, m, held, v.found)
  <2>1. /\ Extended(Held, q, Len(q), held, Append(q, held))
        /\ Extended(Held, p, Len(p), held, Append(p, held))
    BY <1>4, AppendExtends
  <2>2. v.queue = Append(q, held) /\ v.found = Append(p, held) /\ n = Len(q) /\ m = Len(p)
    BY <1>3, <1>4
  <2> QED
    BY <2>1, <2>2, SMT
<1>6. /\ v.queue \in Seq(Held) /\ v.queue # <<>> /\ Len(v.queue) = n + 1
      /\ v.queue[n + 1] = held /\ \A i \in 1 .. n : v.queue[i] = q[i]
      /\ DOMAIN q = 1 .. n /\ DOMAIN v.queue = 1 .. n + 1
  BY <1>5 DEF Extended
<1>7. /\ v.found \in Seq(Held) /\ Len(v.found) = m + 1 /\ v.found[m + 1] = held
      /\ \A i \in 1 .. m : v.found[i] = p[i]
      /\ DOMAIN p = 1 .. m /\ DOMAIN v.found = 1 .. m + 1
  BY <1>5 DEF Extended
<1>8. v.queue[1] = w.queue[1]
  BY <1>4, <1>6, SMT
<1>9. w.processed < w.levelEnd /\ w.processed \in Nat /\ w.levelEnd \in Nat /\ w.levelEnd <= n
  BY <1>4 DEF SearchOK, QueueInv
<1>10. QueueInv(v)
  <2>1. w.levelEnd <= n + 1
    BY <1>4, <1>9, SMT
  <2> QED
    BY <1>3, <1>6, <1>8, <1>9, <2>1 DEF SearchOK, QueueInv
<1>11. BudgetInv(v)
  BY <1>3 DEF SearchOK, BudgetInv
<1>12. FoundInv(v)
  <2>1. \A i \in 1 .. n + 1 : i \in 1 .. n \/ i = n + 1
    BY <1>4, SMT
  <2>2. \A i \in 1 .. m + 1 : i \in 1 .. m \/ i = m + 1
    BY <1>4, SMT
  <2>3. \A i \in 1 .. n : q[i] \in w.seen
    BY <1>4, <1>6 DEF SearchOK, FoundInv
  <2>4. \A i \in DOMAIN v.queue : v.queue[i] \in v.seen
    BY <1>3, <1>6, <2>1, <2>3
  <2>5. \A i \in 1 .. m : /\ p[i].bytes = "whole"
                          /\ \A j \in 1 .. (n - m + i - 1) : q[j] # p[i]
    BY <1>4, <1>7 DEF SearchOK, FoundInv, ReturnsNew
  <2>6. ASSUME NEW i \in 1 .. m + 1
        PROVE  /\ v.found[i].bytes = "whole"
               /\ \A j \in 1 .. ((n + 1) - (m + 1) + i - 1) : v.queue[j] # v.found[i]
    <3>1. CASE i \in 1 .. m
      <4>1. \A j \in 1 .. ((n + 1) - (m + 1) + i - 1) : j \in 1 .. n /\ j \in 1 .. (n - m + i - 1)
        BY <1>4, <3>1, EntriesBefore
      <4> QED
        BY <1>6, <1>7, <2>5, <3>1, <4>1
    <3>2. CASE i = m + 1
      <4>1. \A j \in 1 .. ((n + 1) - (m + 1) + i - 1) : j \in 1 .. n
        BY <1>4, <3>2, SMT
      <4> QED
        BY <1>6, <1>7, <2>3, <3>2, <4>1
    <3> QED
      BY <2>2, <3>1, <3>2
  <2>7. ReturnsNew(v)
    BY <1>6, <1>7, <2>6 DEF ReturnsNew
  <2>8. m + 1 <= n + 1
    BY <1>4, SMT
  <2>9. w.downloaded \in Seq(Certs)
    BY DEF SearchOK, FoundInv
  <2>10. v.downloaded \in Seq(Certs)
    BY <1>3, <2>9, SMT
  <2> QED
    BY <1>6, <1>7, <2>4, <2>7, <2>8, <2>10 DEF FoundInv
<1>13. \A x : ExtractCaIssuersUrls(v, x) = ExtractCaIssuersUrls(w, x)
  BY <1>3 DEF ExtractCaIssuersUrls
<1>14. AskedInv(v)
  <2>1. /\ w.processed + 1 \in 1 .. n /\ w.processed < n
        /\ \A i \in 1 .. w.processed : i \in 1 .. n
    BY <1>4, <1>9, SMT
  <2>2. BudgetSpent(v) <=> BudgetSpent(w)
    BY <1>3 DEF BudgetSpent
  <2>3. SUFFICES ASSUME ~BudgetSpent(w) PROVE AskedInv(v)
    BY <2>2 DEF AskedInv
  <2>4. /\ \A i \in 1 .. w.processed :
              \A u \in DOMAIN ExtractCaIssuersUrls(w, q[i]) :
                  ExtractCaIssuersUrls(w, q[i])[u] \in w.attempted
        /\ AskedBefore(w, w.processed + 1, w.url)
    BY <1>4, <2>1, <2>3 DEF SearchOK, AskedInv
  <2>5. /\ \A i \in 1 .. w.processed : v.queue[i] = q[i]
        /\ v.queue[w.processed + 1] = w.queue[w.processed + 1]
    BY <1>4, <1>6, <2>1
  <2>6. v.processed = w.processed /\ v.url = w.url /\ v.attempted = w.attempted
    BY <1>3
  <2>7. AskedBefore(v, v.processed + 1, v.url)
    <3>1. PICK e : e = ExtractCaIssuersUrls(w, w.queue[w.processed + 1])
      OBVIOUS
    <3>2. ExtractCaIssuersUrls(v, v.queue[v.processed + 1]) = e
      BY <1>13, <2>5, <2>6, <3>1
    <3>3. \A u \in DOMAIN e : u < w.url => e[u] \in w.attempted
      BY <2>4, <3>1 DEF AskedBefore
    <3> QED
      BY <2>6, <3>2, <3>3 DEF AskedBefore
  <2>8. \A i \in 1 .. v.processed :
           \A u \in DOMAIN ExtractCaIssuersUrls(v, v.queue[i]) :
               ExtractCaIssuersUrls(v, v.queue[i])[u] \in v.attempted
    BY <1>13, <2>4, <2>5, <2>6
  <2>9. v.stage # "done"
    BY <1>3
  <2> QED
    BY <2>7, <2>8, <2>9 DEF AskedInv
<1>15. SignerInv(v)
  BY <1>3, <1>8 DEF SearchOK, SignerInv
<1> QED
  BY <1>1, <1>3, <1>10, <1>11, <1>12, <1>14, <1>15 DEF SearchOK

\* The first level: a signer's certificate and whatever else is at hand.
LEMMA FirstWalkOK ==
    ASSUME NEW seeds \in Seq(Held), seeds # <<>>, seeds[1].bytes = "whole", NEW legible
    PROVE  SearchOK(FirstWalk(seeds, legible)) /\ FirstWalk(seeds, legible).stage = "level"
<1>1. PICK v : v = FirstWalk(seeds, legible)
  OBVIOUS
<1>2. PICK s : s = {seeds[i] : i \in DOMAIN seeds}
  OBVIOUS
<1>3. PICK n : n = Len(seeds)
  OBVIOUS
<1>4. /\ DOMAIN v = WalkFields
      /\ v.queue = seeds /\ v.seen = s /\ v.attempted = {} /\ v.processed = 0
      /\ v.levelEnd = n /\ v.depth = 0 /\ v.url = 1 /\ v.found = <<>>
      /\ v.tries = 0 /\ v.downloaded = <<>> /\ v.stage = "level"
  BY <1>1, <1>2, <1>3, SMT DEF FirstWalk, NoWalk, WalkFields
<1>5. n \in Nat \ {0} /\ DOMAIN seeds = 1 .. n /\ n <= n /\ 0 <= n
  BY <1>3, SMT
<1>6. QueueInv(v)
  <2>1. 0 \in Nat /\ 1 \in Nat \ {0}
    BY SMT
  <2> QED
    BY <1>3, <1>4, <1>5, <2>1 DEF QueueInv
<1>7. IsFiniteSet({}) /\ Cardinality({}) = 0
  BY FS_EmptySet
<1>8. BudgetInv(v)
  BY <1>4, <1>7, WalkAssumption, SMT DEF BudgetInv
<1>9. FoundInv(v)
  <2>1. <<>> \in Seq(Held) /\ <<>> \in Seq(Certs) /\ Len(<<>>) = 0 /\ DOMAIN <<>> = {}
    BY SMT
  <2>2. ReturnsNew(v)
    BY <1>4, <2>1 DEF ReturnsNew
  <2>3. \A i \in DOMAIN seeds : seeds[i] \in s
    BY <1>2
  <2> QED
    BY <1>3, <1>4, <1>5, <2>1, <2>2, <2>3 DEF FoundInv
<1>10. seeds[1] \in Held
  BY <1>3, <1>5, SMT
<1>11. ExtractCaIssuersUrls(v, seeds[1]) \in Seq(UrlSet) /\ CaIssuers[seeds[1].of] \in Seq(UrlSet)
  BY <1>10, EntryAddresses
<1>12. AskedInv(v)
  BY <1>4, <1>11, SMT DEF AskedInv, AskedBefore
<1>13. SignerInv(v)
  BY <1>4, <1>7, <1>11, SMT DEF SignerInv
<1> QED
  BY <1>1, <1>4, <1>6, <1>8, <1>9, <1>12, <1>13 DEF SearchOK

\* The intermediate store holds certificates, or part of their bytes, and not
\* more of them than there are.
LEMMA StoreHolds ==
    ASSUME FetchInv
    PROVE  /\ CollectIntermediateCertificates \subseteq Held
           /\ IsFiniteSet(CollectIntermediateCertificates)
<1>1. ASSUME NEW c \in CollectIntermediateCertificates PROVE c \in Held
  <2>1. \/ \E p \in Certs : file[p] # Absent /\ c = file[p]
        \/ \E o \in orphans : o[1] \in Certs /\ c = o[2]
        \/ \E f \in Fetchers : /\ writing[f].stage # "none" /\ writing[f].path \in Certs
                                /\ c \in TempOf(f)
    BY DEF CollectIntermediateCertificates, Directory
  <2>2. CASE \E p \in Certs : file[p] # Absent /\ c = file[p]
    <3>1. PICK p \in Certs : file[p] # Absent /\ c = file[p]
      BY <2>2
    <3>2. file[p] = Whole(file[p].of) /\ file[p].of = p
      BY <3>1 DEF FetchInv, DiskInv, MayHold
    <3>3. c = Whole(p)
      BY <3>1, <3>2, SMT
    <3> QED
      BY <3>3 DEF Held
  <2>3. CASE \E o \in orphans : o[1] \in Certs /\ c = o[2]
    BY <2>3 DEF FetchInv, DiskInv, MayHold, Held
  <2>4. CASE \E f \in Fetchers : /\ writing[f].stage # "none" /\ writing[f].path \in Certs
                                 /\ c \in TempOf(f)
    <3>1. PICK f \in Fetchers : /\ writing[f].stage # "none" /\ writing[f].path \in Certs
                                /\ c \in TempOf(f)
      BY <2>4
    <3>2. writing[f].data \in Certs
      BY <3>1 DEF FetchInv, FetcherInv, WriteInv, MayHold
    <3>3. c = Part(writing[f].data) \/ c = Whole(writing[f].data)
      BY <3>1, TempFile
    <3> QED
      BY <3>2, <3>3 DEF Held
  <2> QED
    BY <2>1, <2>2, <2>3, <2>4
<1>2. IsFiniteSet(Held)
  <2> DEFINE W == {Whole(c) : c \in Certs}
             P == {Part(c) : c \in Certs}
  <2>1. [c \in Certs |-> Whole(c)] \in Surjection(Certs, W)
    BY DEF Surjection
  <2>2. [c \in Certs |-> Part(c)] \in Surjection(Certs, P)
    BY DEF Surjection
  <2>3. IsFiniteSet(W) /\ IsFiniteSet(P)
    BY <2>1, <2>2, FS_Surjection, StoresAssumption
  <2> QED
    BY <2>3, FS_Union DEF Held
<1> QED
  BY <1>1, <1>2, FS_Subset

\* No walk.
LEMMA NoWalkIsNone == NoWalk.stage = "none"
BY DEF NoWalk

\* The walk of a step's fetcher, when the others go on as they were.
SearchKept(f) ==
    /\ \A g \in Fetchers \ {f} : pc'[g] = pc[g] /\ job'[g] = job[g] /\ walk'[g] = walk[g]
    /\ SearchInv(f)'

\* What holds of the fetcher that moved and of the others holds of all.
LEMMA SearchGather ==
    ASSUME SearchesInv, NEW f \in Fetchers, SearchKept(f)
    PROVE  SearchesInv'
<1>1. ASSUME NEW g \in Fetchers \ {f} PROVE SearchInv(g)'
  BY <1>1 DEF SearchKept, SearchesInv, SearchInv, WaitInv
<1> QED
  BY <1>1 DEF SearchKept, SearchesInv

\* A walk is not asking while it takes other turns.
LEMMA WalkAlone ==
    ASSUME SearchesInv, NEW f \in Fetchers, walk[f].stage \notin {"none", "ask"}
    PROVE  pc[f] = "idle" /\ SearchOK(walk[f])
BY DEF SearchesInv, SearchInv, WaitInv

\* The walk of f becomes w while no request of it is on its way.
LEMMA WalkTurned ==
    ASSUME FetchInv, NEW f \in Fetchers, NEW w, walk' = [walk EXCEPT ![f] = w],
           pc'[f] = "idle", \A g \in Fetchers \ {f} : pc'[g] = pc[g] /\ job'[g] = job[g],
           w.stage # "none" => SearchOK(w), w.stage = "ask" => w.tries < MaxAttempts
    PROVE  SearchKept(f)
<1>1. walk'[f] = w /\ \A g \in Fetchers \ {f} : walk'[g] = walk[g]
  BY DEF FetchInv, Domains
<1> QED
  BY <1>1 DEF SearchKept, SearchInv, WaitInv

\* The turns between requests.
LEMMA WalkOnKeeps ==
    ASSUME FetchInv, SearchesInv, NEW f \in Fetchers, WalkOn(f)
    PROVE  SearchKept(f)
<1>1. PICK w : w = walk[f]
  OBVIOUS
<1>2. w.stage = "level" /\ UNCHANGED <<pc, job>>
  BY <1>1 DEF WalkOn, AtUrl, AtEntryEnd, AtLevelEnd, InLevel
<1>3. pc[f] = "idle" /\ SearchOK(w)
  BY <1>1, <1>2, WalkAlone
<1>4. CASE AtUrl(w) /\ walk' = [walk EXCEPT ![f] = TryUrl(w)]
  <2>1. PICK v : v = TryUrl(w)
    OBVIOUS
  <2>2. Tried(w, v) /\ SearchOK(v)
    BY <1>3, <1>4, <2>1, TryUrlTries, TriedKeeps
  <2>3. v.stage = "ask" => v.tries < MaxAttempts
    BY <2>2, WalkAssumption, SMT DEF Tried
  <2> QED
    BY <1>2, <1>3, <1>4, <2>1, <2>2, <2>3, WalkTurned
<1>5. CASE AtEntryEnd(w) /\ walk' = [walk EXCEPT ![f] = NextEntry(w)]
  BY <1>2, <1>3, <1>5, NextEntryKeeps, WalkTurned
<1>6. CASE AtLevelEnd(w) /\ walk' = [walk EXCEPT ![f] = NextLevel(w)]
  BY <1>2, <1>3, <1>6, NextLevelKeeps, WalkTurned
<1> QED
  BY <1>1, <1>4, <1>5, <1>6 DEF WalkOn

\* A walk begins with the signer's certificate, the embedded ones and the store.
LEMMA BeginWalkKeeps ==
    ASSUME FetchInv, SearchesInv, NEW f \in Fetchers, NEW certs \in Presented, BeginWalk(f, certs)
    PROVE  SearchKept(f)
<1> DEFINE C == CollectIntermediateCertificates
<1>1. PICK stored \in Injection(1 .. Cardinality(C), C),
           legible \in SUBSET {h \in C : h.bytes = "part"} :
         walk' = [walk EXCEPT ![f] =
                    FirstWalk([i \in DOMAIN certs |-> Whole(certs[i])] \o stored, legible)]
  BY DEF BeginWalk
<1>2. Cardinality(C) \in Nat /\ C \subseteq Held
  BY StoreHolds, FS_CardinalityType
<1>3. stored \in [1 .. Cardinality(C) -> C]
  BY <1>1 DEF Injection
<1>4. stored \in [1 .. Cardinality(C) -> Held]
  BY <1>2, <1>3
<1>5. stored \in Seq(Held)
  BY <1>2, <1>4, SMT
<1>6. certs \in Seq(Certs) /\ certs # <<>>
  BY StoresAssumption
<1>7. PICK own : own = [i \in DOMAIN certs |-> Whole(certs[i])]
  OBVIOUS
<1>8. \A c \in Certs : Whole(c) \in Held /\ Whole(c).bytes = "whole"
  BY DEF Held, Whole
<1>9. own \in Seq(Held) /\ own # <<>> /\ own[1].bytes = "whole"
  BY <1>6, <1>7, <1>8, SMT
<1>10. PICK seeds : seeds = own \o stored
  OBVIOUS
<1>11. seeds \in Seq(Held) /\ seeds # <<>> /\ seeds[1] = own[1]
  BY <1>5, <1>9, <1>10, SMT
<1>12. pc'[f] = "idle" /\ UNCHANGED <<pc, job>>
  BY DEF BeginWalk, IsIdle
<1>13. SearchOK(FirstWalk(seeds, legible)) /\ FirstWalk(seeds, legible).stage = "level"
  BY <1>9, <1>11, FirstWalkOK
<1> QED
  BY <1>1, <1>7, <1>10, <1>12, <1>13, WalkTurned

\* A request of a walk, and what its answer makes of the walk.
LEMMA WalkAskKeeps ==
    ASSUME FetchInv, SearchesInv, NEW f \in Fetchers, WalkAsk(f)
    PROVE  SearchKept(f)
<1>1. PICK w : w = walk[f]
  OBVIOUS
<1>2. PICK v : v = [w EXCEPT !.tries = @ + 1]
  OBVIOUS
<1>3. /\ w.stage = "ask" /\ pc[f] = "idle" /\ walk' = [walk EXCEPT ![f] = v]
      /\ Ask(f, "GET", Asked(w), "walk")
  BY <1>1, <1>2 DEF WalkAsk
<1>4. /\ pc'[f] = "hop" /\ job'[f].use = "walk" /\ walk'[f] = v
      /\ \A g \in Fetchers \ {f} : pc'[g] = pc[g] /\ job'[g] = job[g] /\ walk'[g] = walk[g]
  BY <1>3 DEF Ask, FetchInv, Domains
<1>5. SearchOK(w) /\ w.tries < MaxAttempts /\ DOMAIN w = WalkFields
  BY <1>1, <1>3 DEF SearchesInv, SearchInv, WaitInv, SearchOK
<1>6. Kin(w, v) /\ v.stage = "ask" /\ v.tries = w.tries + 1 /\ v.downloaded = w.downloaded
  BY <1>2, <1>3, <1>5 DEF Kin, WalkFields
<1>7. v.tries \in Nat /\ v.tries <= MaxAttempts
  BY <1>5, <1>6, WalkAssumption, SMT DEF SearchOK, BudgetInv
<1>8. SearchOK(v)
  BY <1>3, <1>5, <1>6, <1>7, KinKeeps DEF SearchOK, FoundInv
<1> QED
  BY <1>4, <1>6, <1>8 DEF SearchKept, SearchInv, WaitInv

\* The answer: certificates to look at, another try, or the next address.
LEMMA WalkAnsweredKeeps ==
    ASSUME FetchInv, SearchesInv, NEW f \in Fetchers, WalkAnswered(f)
    PROVE  SearchKept(f)
<1>1. PICK w : w = walk[f]
  OBVIOUS
<1>2. PICK ok, certs : ok = result[f].succeeded /\ certs = ParseDownloadedCertificates(result[f].body)
  OBVIOUS
<1>3. PICK v : v = Answered(w, ok, certs)
  OBVIOUS
<1>4. pc[f] = "got" /\ job[f].use = "walk" /\ walk' = [walk EXCEPT ![f] = v] /\ Forget(f)
  BY <1>1, <1>2, <1>3 DEF WalkAnswered
<1>5. w.stage = "ask" /\ SearchOK(w) /\ DOMAIN w = WalkFields
  BY <1>1, <1>4 DEF SearchesInv, SearchInv, WaitInv, SearchOK
<1>6. ok => certs \in Seq(Certs)
  BY <1>2, ParsedAreCertificates DEF FetchInv, FetcherInv, AnswerInv
<1>7. w.downloaded \in Seq(Certs) /\ w.tries \in Nat /\ w.tries <= MaxAttempts
  BY <1>5 DEF SearchOK, FoundInv, BudgetInv
<1>8. /\ Kin(w, v) /\ v.stage \in {"ask", "save", "level"} /\ v.tries = w.tries
      /\ v.downloaded \in Seq(Certs) /\ (v.stage = "ask" => v.tries < MaxAttempts)
  <2>1. CASE ok
    <3>1. v = [w EXCEPT !.stage = "save", !.downloaded = certs]
      BY <1>3, <2>1 DEF Answered
    <3> QED
      BY <1>5, <1>6, <2>1, <3>1 DEF Kin, WalkFields
  <2>2. CASE ~ok /\ w.tries < MaxAttempts
    <3>1. v = w
      BY <1>3, <2>2 DEF Answered
    <3> QED
      BY <1>5, <1>7, <2>2, <3>1 DEF Kin
  <2>3. CASE ~ok /\ ~(w.tries < MaxAttempts)
    <3>1. v = [w EXCEPT !.stage = "level"]
      BY <1>3, <2>3 DEF Answered
    <3> QED
      BY <1>5, <1>7, <3>1 DEF Kin, WalkFields
  <2> QED
    BY <2>1, <2>2, <2>3
<1>9. SearchOK(v)
  BY <1>5, <1>7, <1>8, KinKeeps
<1>10. pc'[f] = "idle" /\ \A g \in Fetchers \ {f} : pc'[g] = pc[g] /\ job'[g] = job[g]
  BY <1>4 DEF Forget, FetchInv, Domains
<1> QED
  BY <1>4, <1>8, <1>9, <1>10, WalkTurned

\* The certificates of an answer, one by one, and the end of the walk.
LEMMA WalkSavesKeeps ==
    ASSUME FetchInv, SearchesInv, NEW f \in Fetchers, WalkKeep(f) \/ WalkSkip(f) \/ EndWalk(f)
    PROVE  SearchKept(f)
<1>1. PICK w : w = walk[f]
  OBVIOUS
<1>2. UNCHANGED <<pc, job>> /\ w.stage \in {"save", "done"}
  BY <1>1 DEF WalkKeep, WalkSkip, EndWalk
<1>3. pc[f] = "idle" /\ SearchOK(w) /\ DOMAIN w = WalkFields
  BY <1>1, <1>2, WalkAlone DEF SearchOK
<1>4. w.downloaded \in Seq(Certs) /\ w.tries \in Nat /\ w.tries <= MaxAttempts
  BY <1>3 DEF SearchOK, FoundInv, BudgetInv
<1>5. CASE WalkKeep(f)
  <2>1. PICK c : c = Head(w.downloaded)
    OBVIOUS
  <2>2. /\ w.stage = "save" /\ w.downloaded # <<>> /\ Whole(c) \notin w.seen
        /\ walk' = [walk EXCEPT ![f] = Keep(w, Whole(c))]
    BY <1>1, <1>5, <2>1 DEF WalkKeep, IsDuplicate
  <2>3. c \in Certs
    BY <1>4, <2>1, <2>2, SMT
  <2>4. Whole(c) \in Held /\ Whole(c).bytes = "whole"
    BY <2>3 DEF Held, Whole
  <2>5. SearchOK(Keep(w, Whole(c))) /\ Keep(w, Whole(c)).stage = "save"
    BY <1>3, <2>2, <2>4, KeepKeeps
  <2> QED
    BY <1>2, <1>3, <2>2, <2>5, WalkTurned
<1>6. CASE WalkSkip(f)
  <2>1. w.stage = "save"
    BY <1>1, <1>6 DEF WalkSkip
  <2>2. CASE w.downloaded # <<>> /\ walk' = [walk EXCEPT ![f] = Drop(w)]
    <3>1. PICK v : v = Drop(w)
      OBVIOUS
    <3>2. Kin(w, v) /\ v.stage = "save" /\ v.tries = w.tries /\ v.downloaded = Tail(w.downloaded)
      BY <1>3, <2>1, <3>1 DEF Drop, Kin, WalkFields
    <3>3. v.downloaded \in Seq(Certs)
      BY <1>4, <2>2, <3>2, SMT
    <3>4. SearchOK(v)
      BY <1>3, <1>4, <2>1, <3>2, <3>3, KinKeeps
    <3> QED
      BY <1>2, <1>3, <2>2, <3>1, <3>2, <3>4, WalkTurned
  <2>3. CASE walk' = [walk EXCEPT ![f] = Saved(w)]
    <3>1. PICK v : v = Saved(w)
      OBVIOUS
    <3>2. Kin(w, v) /\ v.stage = "level" /\ v.tries = w.tries /\ v.downloaded = w.downloaded
      BY <1>3, <3>1 DEF Saved, Kin, WalkFields
    <3>3. SearchOK(v)
      BY <1>3, <1>4, <2>1, <3>2, KinKeeps
    <3> QED
      BY <1>2, <1>3, <2>3, <3>1, <3>2, <3>3, WalkTurned
  <2> QED
    BY <1>1, <1>6, <2>2, <2>3 DEF WalkSkip
<1>7. CASE EndWalk(f)
  <2>1. walk' = [walk EXCEPT ![f] = NoWalk]
    BY <1>7 DEF EndWalk
  <2> QED
    BY <1>2, <1>3, <2>1, NoWalkIsNone, WalkTurned
<1> QED
  BY <1>5, <1>6, <1>7

\* The requests: of a walk or not, a walk waits for its own alone.
LEMMA RequestKeeps ==
    ASSUME FetchInv, SearchesInv, NEW f \in Fetchers,
           \/ \E url \in CrlUrls : FetchCrl(f, url)
           \/ \E url \in PostUrls : FetchAnswer(f, url)
           \/ HopDenied(f) \/ HopAnswered(f) \/ HopRefused(f) \/ HopFollowed(f)
           \/ Cache(f) \/ HandOver(f)
    PROVE  SearchKept(f)
<1>1. walk' = walk
  BY DEF FetchCrl, FetchAnswer, HopDenied, HopAnswered, HopRefused, HopFollowed, Sendable,
               Cache, HandOver
<1>2. CASE (\E url \in CrlUrls : FetchCrl(f, url)) \/ (\E url \in PostUrls : FetchAnswer(f, url))
  <2>1. PICK method, url, use : /\ Ask(f, method, url, use) /\ use \in {"cache", "caller"}
                                /\ walk[f].stage = "none"
    BY <1>2 DEF FetchCrl, FetchAnswer, IsIdle
  <2>2. /\ pc'[f] = "hop" /\ job'[f].use = use
        /\ \A g \in Fetchers \ {f} : pc'[g] = pc[g] /\ job'[g] = job[g]
    BY <2>1 DEF Ask, FetchInv, Domains
  <2> QED
    BY <1>1, <2>1, <2>2 DEF SearchKept, SearchInv, WaitInv
<1>3. CASE HopDenied(f) \/ HopAnswered(f) \/ HopRefused(f) \/ HopFollowed(f)
  <2>1. /\ pc[f] = "hop" /\ job' = job /\ pc'[f] \in {"hop", "got"}
        /\ \A g \in Fetchers \ {f} : pc'[g] = pc[g]
    BY <1>3 DEF HopDenied, HopAnswered, HopRefused, HopFollowed, Sendable, Return, FetchInv,
                       Domains
  <2> QED
    BY <1>1, <2>1 DEF SearchKept, SearchesInv, SearchInv, WaitInv
<1>4. CASE Cache(f) \/ HandOver(f)
  <2>1. pc[f] = "got" /\ job[f].use # "walk" /\ Forget(f)
    BY <1>4 DEF Cache, HandOver
  <2>2. walk[f].stage = "none"
    BY <2>1 DEF SearchesInv, SearchInv, WaitInv
  <2>3. pc'[f] = "idle" /\ \A g \in Fetchers \ {f} : pc'[g] = pc[g] /\ job'[g] = job[g]
    BY <2>1 DEF Forget, FetchInv, Domains
  <2> QED
    BY <1>1, <2>2, <2>3 DEF SearchKept, SearchInv, WaitInv
<1> QED
  BY <1>2, <1>3, <1>4

\* Every step keeps the searches.
LEMMA SearchesKeep ==
    ASSUME FetchInv, SearchesInv, [Next]_vars
    PROVE  SearchesInv'
<1>1. ASSUME UNCHANGED <<pc, job, walk>> PROVE SearchesInv'
  BY <1>1 DEF SearchesInv, SearchInv, WaitInv
<1>2. CASE UNCHANGED vars
  BY <1>1, <1>2 DEF vars
<1>3. CASE Tick
  BY <1>1, <1>3 DEF Tick
<1>4. ASSUME NEW f \in Fetchers,
             \/ \E url \in CrlUrls : FetchCrl(f, url)
             \/ \E url \in PostUrls : FetchAnswer(f, url)
             \/ \E certs \in Presented : BeginWalk(f, certs)
             \/ Work(f)
             \/ Crash(f)
      PROVE  SearchesInv'
  <2>1. CASE WriteOn(f)
    BY <1>1, <2>1 DEF WriteOn
  <2>2. CASE Crash(f)
    <3>1. /\ pc'[f] = "idle" /\ walk' = [walk EXCEPT ![f] = NoWalk]
          /\ \A g \in Fetchers \ {f} : pc'[g] = pc[g] /\ job'[g] = job[g]
      BY <2>2 DEF Crash, Forget, FetchInv, Domains
    <3> QED
      BY <3>1, NoWalkIsNone, WalkTurned, SearchGather
  <2>3. CASE ~WriteOn(f) /\ ~Crash(f)
    <3>1. SearchKept(f)
      BY <1>4, <2>3, RequestKeeps, BeginWalkKeeps, WalkOnKeeps, WalkAskKeeps, WalkAnsweredKeeps,
         WalkSavesKeeps DEF Work
    <3> QED
      BY <3>1, SearchGather
  <2> QED
    BY <2>1, <2>2, <2>3
<1> QED
  BY <1>2, <1>3, <1>4, ZenonT(60), SMT DEF Next

\* No search is running at first.
LEMMA SearchesBegin == Init => SearchesInv
BY NoWalkIsNone DEF Init, SearchesInv, SearchInv, WaitInv

\* The invariants say what IssuersAreFound says.
LEMMA SearchIsEnough == FetchInv /\ SearchesInv => IssuersAreFound
<1> SUFFICES ASSUME FetchInv, SearchesInv PROVE IssuersAreFound
  OBVIOUS
<1>1. ASSUME NEW w, SearchOK(w)
      PROVE  WithinBudgets(w) /\ ReturnsNew(w) /\ LeavesNothing(w) /\ SignerFirst(w)
  <2>1. WithinBudgets(w) /\ ReturnsNew(w)
    BY <1>1 DEF SearchOK, BudgetInv, FoundInv, WithinBudgets
  <2>2. LeavesNothing(w)
    <3>1. DOMAIN w.queue = 1 .. Len(w.queue)
      BY <1>1, SMT DEF SearchOK, QueueInv
    <3> QED
      BY <1>1, <3>1 DEF SearchOK, AskedInv, LeavesNothing
  <2>3. SignerFirst(w)
    BY <1>1 DEF SearchOK, SignerInv, SignerFirst
  <2> QED
    BY <2>1, <2>2, <2>3
<1>2. ASSUME NEW f \in Fetchers, walk[f].stage # "none" PROVE SearchOK(walk[f])
  BY <1>2 DEF SearchesInv, SearchInv
<1>3. ASSUME NEW c \in Certs PROVE file[c] \in {Absent, Whole(c)}
  BY <1>3, SMT DEF FetchInv, DiskInv, MayHold
<1> QED
  BY <1>1, <1>2, <1>3 DEF IssuersAreFound

\* Whatever the servers answer and whoever is killed, every search for issuers
\* keeps to its budgets, returns what is new and whole, leaves no address out
\* that its budgets allow, and asks the signer's own first; and the store holds
\* whole certificates under their own names (FetchMissingIssuers,
\* WriteBinaryFileAtomic), for any budgets, certificates and validations.
THEOREM SearchesFindIssuers == Spec => []IssuersAreFound
<1>1. Init => FetchInv /\ SearchesInv
  BY InitKeeps, SearchesBegin
<1>2. FetchInv /\ SearchesInv /\ [Next]_vars => (FetchInv /\ SearchesInv)'
  BY StepKeeps, SearchesKeep
<1>3. FetchInv /\ SearchesInv => IssuersAreFound
  BY SearchIsEnough
<1> QED
  BY <1>1, <1>2, <1>3, PTL DEF Spec
=============================================================================
