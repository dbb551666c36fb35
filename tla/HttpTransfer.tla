---------------------------- MODULE HttpTransfer ----------------------------
(***************************************************************************)
(* One HTTP exchange as core/HttpClient makes it over WinHTTP, under the   *)
(* destination policy of core/net: where a request may go, what one        *)
(* round trip brings back, and what the redirect loop does with it.        *)
(*                                                                         *)
(* A URL is its scheme and a class of host.  Addresses are public or       *)
(* private; a name is resolved anew, and perhaps differently, each time it *)
(* is looked up.  A body is what the callers tell apart, together with     *)
(* where it came from and whether all of it arrived.                       *)
(***************************************************************************)
EXTENDS Naturals

CONSTANTS
    MaxRedirects,   \* kMaxHttpRedirects
    MaxTime,        \* bound: the last nextUpdate a CRL may state
    Bundles         \* sequences of certificates a body may hold

ASSUME TransferAssumption == MaxRedirects \in Nat

Schemes == {"http", "https"}

(* "name": a host name; "literal": a public address; "refused": a          *)
(* non-public address or a blocked name; "malformed": no usable URL.       *)
Hosts == {"name", "literal", "refused", "malformed"}
UrlSet == [scheme : Schemes, host : Hosts]

Addresses == {"public", "private"}
Peers == Addresses \cup {"unknown"}

(* Bodies a server may send.                                               *)
Texts ==
    [kind : {"crl"}, issuer : {"ours", "theirs"}, next : 1..MaxTime]
        \cup [kind : {"certs"}, certs : Bundles]
        \cup {[kind |-> "other"]}

Bodies == [text : Texts, from : Peers, cut : BOOLEAN]

(* ParseDestinationUrl: the scheme of an unusable URL is empty.            *)
Parsed(url) == url.host # "malformed"
IsHttps(url) == Parsed(url) /\ url.scheme = "https"

(* IsAllowedPublicAddress, the one predicate for the addresses of a name   *)
(* and for the address of the peer: what is not known to be public is not  *)
(* allowed.                                                                *)
IsAllowedPublicAddress(address) == address = "public"

(* CheckDestination, when the name has the given addresses.                *)
CheckDestination(url, addresses) ==
    /\ Parsed(url)
    /\ url.host # "refused"
    /\ url.host = "name" =>
          /\ addresses # {}
          /\ \A a \in addresses : IsAllowedPublicAddress(a)

(* The peers a connection may be made with: the backend resolves the name  *)
(* on its own.                                                             *)
PeersOf(url) == IF url.host = "name" THEN Peers ELSE {"public"}

Statuses == {"ok", "moved", "see other", "keep", "error"}
IsRedirectStatus(status) == status \in {"moved", "see other", "keep"}

NoBody == [text |-> [kind |-> "none"], from |-> "unknown", cut |-> FALSE]
Result(ok, status, body) == [succeeded |-> ok, status |-> status, body |-> body]
Failure == Result(FALSE, "none", NoBody)
Results == [succeeded : BOOLEAN, status : Statuses \cup {"none"},
            body : Bodies \cup {NoBody}]

(* WinHttpRequestOnce: opening, connecting, sending or receiving may fail. *)
(* The peer is judged before its reply is read, and the body counts only   *)
(* when the stream came to its end within kMaxHttpResponseSize.  The body  *)
(* of a reply that is no success is read too, but no caller uses it.       *)
Replies(peers, cuts) ==
    {Failure}
      \cup {Result(FALSE, s, NoBody) : s \in Statuses}
      \cup {Result(TRUE, "ok", b) : b \in [text : Texts, from : peers, cut : cuts]}

OnceCutShort(url) ==
    Replies({p \in PeersOf(url) : IsAllowedPublicAddress(p)}, BOOLEAN)

WinHttpRequestOnce(url) ==
    Replies({p \in PeersOf(url) : IsAllowedPublicAddress(p)}, {FALSE})

(* What a Location header may hold.                                        *)
Locations ==
    [form : {"absolute", "network path"}, url : UrlSet]
        \cup [form : {"relative", "empty"},
              url : {[scheme |-> "http", host |-> "malformed"]}]

(* ResolveHttpRedirectUrl                                                  *)
ResolveHttpRedirectUrl(base, location) ==
    CASE location.form = "absolute" -> location.url
      [] location.form = "network path" -> [location.url EXCEPT !.scheme = base.scheme]
      [] location.form = "relative" -> base
      [] location.form = "empty" -> [base EXCEPT !.host = "malformed"]

(* A request on its way through the redirect loop.                         *)
Requests == [method : {"GET", "POST"}, url : UrlSet, https : BOOLEAN,
             redirect : 0..MaxRedirects, carries : BOOLEAN]

FirstRequest(method, url) ==
    [method |-> method, url |-> url, https |-> IsHttps(url),
     redirect |-> 0, carries |-> method = "POST"]

(* A redirect that may be followed: the loop has room for it, HTTPS stays  *)
(* HTTPS, and the destination passes the check the first one passed.       *)
MayFollow(request, next, addresses) ==
    /\ request.redirect < MaxRedirects
    /\ Parsed(next)
    /\ request.https => next.scheme = "https"
    /\ CheckDestination(next, addresses)

(* The request for the next hop: 303, and 301 or 302 to a POST, ask with   *)
(* GET and drop the body.                                                  *)
BecomesGet(request, status) ==
    status = "see other" \/ (status = "moved" /\ request.method = "POST")

Followed(request, next, status) ==
    LET toGet == BecomesGet(request, status)
    IN  [method |-> IF toGet THEN "GET" ELSE request.method,
         url |-> next,
         https |-> request.https,
         redirect |-> request.redirect + 1,
         carries |-> ~toGet /\ request.carries]

(* What the caller gets of a redirect that is not followed.                *)
Refused(result) == [result EXCEPT !.succeeded = FALSE]
=============================================================================
