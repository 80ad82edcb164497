------------------------------ MODULE NetFetch ------------------------------
(***************************************************************************)
(* poid.net on the trusted side (crates/poid-connections/src/http.rs,      *)
(* crates/poid-broker/src/network.rs and net_fetch of the desktop shell).  *)
(*                                                                         *)
(* A window's application asks for a URL.  net_fetch reads the origins the *)
(* document declares, gathers the stored credentials for them, and from    *)
(* then on works on those copies: the user may replace or remove a         *)
(* credential at any of the awaits below.  brokered_fetch then takes one   *)
(* hop after the other: check the origin, resolve the name, judge every    *)
(* address, pin one, send, and follow a redirect by doing all of it again. *)
(*                                                                         *)
(* A URL is what the parser tells apart: scheme, host, whether the host is *)
(* written in upper case, port (NoPort when none is written) and what      *)
(* comes with it.  An address is its octets or its segments.               *)
(***************************************************************************)
EXTENDS Naturals, Sequences, SequencesExt

CONSTANTS
    Manifests,    \* allowlists a document may declare: sets of written origins
    Urls,         \* URLs an application or a redirect may name
    BadHosts,     \* hosts that are neither a name nor a literal
    Literals,     \* the hosts that are literals, with their address
    Answers,      \* what the resolver may say: sequences of addresses
    Records,      \* the Net connections in registry order: entries they cover
    Methods,      \* methods an application may use
    Statuses,     \* the redirect statuses a server may answer with
    MaxRedirects, \* FetchLimits::max_redirects
    MaxBody,      \* FetchLimits::max_body_bytes, in units of one chunk
    MaxSecrets    \* bound: credentials the user ever enters

V4 == [1..4 -> 0..255]     \* the octets of an Ipv4Addr
V6 == [1..8 -> {n \in Nat : n < 65536}]   \* the segments of an Ipv6Addr

\* The registry is a list, and what a name resolves to are addresses.
ASSUME NetFetchAssumption ==
    /\ DOMAIN Records \subseteq Nat
    /\ \A answer \in Answers : Range(answer) \subseteq V4 \cup V6
    /\ \A host \in DOMAIN Literals : Literals[host] \in V4 \cup V6

NoPort == 65536            \* larger ports stand for what is not a u16
NoAddress == << >>
NoSecret == 0
NotHttp == "brew"          \* a method that is not an HTTP token

VARIABLES
    manifest, \* the entries of permissions.network in the window's document
    keychain, \* connection -> its stored credential, or NoSecret
    drawn,    \* credentials entered so far
    pc,       \* where the window's fetch is
    req,      \* the request of this hop: url, method, body, headers
    hop,      \* hops taken
    creds,    \* OriginCredentials: what each connection put there, in order
    pinned,   \* the address this hop is connected to
    held,     \* history: what the keychain held when the fetch began
    asked,    \* history: origins whose name was looked up
    sent,     \* history: the requests sent, with the status each one got
    got       \* body units buffered so far

vars == << manifest, keychain, drawn, pc, req, hop, creds, pinned, held,
           asked, sent, got >>

fetch == << pc, req, hop, creds, pinned, held, asked, sent, got >>

-----------------------------------------------------------------------------
(* Origins.                                                                *)

Malformed == [scheme |-> "none", host |-> "none", port |-> NoPort]

DefaultPort(scheme) == IF scheme = "https" THEN 443 ELSE 80

(* Origin::parse: anything that is not exactly one origin is refused; the  *)
(* host is folded and the default port filled in.                          *)
OriginParse(u) ==
    IF \/ u.tail \in {"path", "query", "userinfo", "punctuation", "wildcard"}
       \/ u.scheme \notin {"http", "https"}
       \/ u.port > NoPort
       \/ u.host \in BadHosts
    THEN Malformed
    ELSE [scheme |-> u.scheme, host |-> u.host,
          port |-> IF u.port = NoPort THEN DefaultPort(u.scheme) ELSE u.port]

(* Origin::of_url: path and query are not part of the origin.              *)
OfUrl(u) ==
    OriginParse(IF u.tail \in {"path", "query"} THEN [u EXCEPT !.tail = "none"]
                ELSE u)

(* declared_origins: a malformed entry is dropped, the others stand.       *)
DeclaredOrigins == {OriginParse(e) : e \in manifest} \ {Malformed}

Covers(c, o) == \E e \in Records[c] : OriginParse(e) = o /\ o # Malformed

-----------------------------------------------------------------------------
(* Addresses.                                                              *)

TwoTo == << 1, 2, 4, 8, 16, 32, 64, 128, 256, 512, 1024, 2048, 4096, 8192,
            16384, 32768, 65536 >>   \* TwoTo[n + 1] is 2^n

(* The leading len bits of a and b agree; every digit has width bits.      *)
SamePrefix(a, b, len, width) ==
    \A i \in DOMAIN a :
        LET bits == IF len >= width * i THEN width
                    ELSE IF len > width * (i - 1) THEN len - width * (i - 1)
                    ELSE 0
            unit == TwoTo[1 + width - bits]
        IN  a[i] \div unit = b[i] \div unit

InNetNarrow(a, net, prefix) == SamePrefix(a, net, prefix + 1, 8)

InNet(a, net, prefix) == SamePrefix(a, net, prefix, 8)

(* classify_v4: a lies in a range that is not the public Internet.         *)
ClassifyV4(a) ==
    \/ InNet(a, <<0, 0, 0, 0>>, 8)
    \/ a[1] = 10
    \/ InNet(a, <<172, 16, 0, 0>>, 12)
    \/ a[1] = 192 /\ a[2] = 168
    \/ InNet(a, <<100, 64, 0, 0>>, 10)
    \/ a[1] = 127
    \/ InNet(a, <<169, 254, 0, 0>>, 16)
    \/ InNet(a, <<192, 0, 0, 0>>, 24)
    \/ \E net \in {<<192, 0, 2, 0>>, <<198, 51, 100, 0>>, <<203, 0, 113, 0>>} :
          InNet(a, net, 24)
    \/ InNet(a, <<192, 88, 99, 0>>, 24)
    \/ InNet(a, <<198, 18, 0, 0>>, 15)
    \/ a[1] \in 224..239
    \/ InNet(a, <<240, 0, 0, 0>>, 4)

FromPair(hi, lo) == <<hi \div 256, hi % 256, lo \div 256, lo % 256>>

Zero(s, positions) == \A i \in positions : s[i] = 0

(* embedded_v4: the IPv4 address inside s, or NoAddress.                   *)
EmbeddedV4(s) ==
    CASE Zero(s, 1..5) /\ s[6] = \hFFFF -> FromPair(s[7], s[8])
      [] Zero(s, 1..6) /\ ~(s[7] = 0 /\ s[8] <= 1) -> FromPair(s[7], s[8])
      [] s[1] = \h64 /\ s[2] = \hFF9B -> FromPair(s[7], s[8])
      [] s[1] = \h2002 -> FromPair(s[2], s[3])
      [] OTHER -> NoAddress

(* classify_v6; the ranges are the segments the code's masks select.       *)
ClassifyV6(s) ==
    IF EmbeddedV4(s) # NoAddress THEN ClassifyV4(EmbeddedV4(s))
    ELSE \/ Zero(s, 1..7) /\ s[8] <= 1
         \/ s[1] \in \hFC00..\hFDFF
         \/ s[1] \in \hFE80..\hFEBF
         \/ s[1] \in \hFF00..\hFFFF
         \/ s[1] = \h100 /\ Zero(s, 2..4)
         \/ s[1] = \h2001 /\ s[2] = \hDB8
         \/ s[1] = \h2001 /\ s[2] \in 0..\h1FF

(* classify: TRUE when there is a reason not to connect to a.              *)
Classify(a) == IF Len(a) = 4 THEN ClassifyV4(a) ELSE ClassifyV6(a)

(* usable_addresses, for a literal and for the resolver's answer: where in *)
(* it they are.  The desktop never allows private addresses.               *)
Usable(resolved) == {i \in DOMAIN resolved : ~Classify(resolved[i])}

-----------------------------------------------------------------------------
(* The user's keychain, between the awaits of a fetch.                     *)

Enter(c) ==
    /\ drawn < MaxSecrets
    /\ drawn' = drawn + 1
    /\ keychain' = [keychain EXCEPT ![c] = drawn + 1]
    /\ UNCHANGED << manifest, fetch >>

Forget(c) ==
    /\ keychain[c] # NoSecret
    /\ keychain' = [keychain EXCEPT ![c] = NoSecret]
    /\ UNCHANGED << manifest, drawn, fetch >>

-----------------------------------------------------------------------------
(* The fetch.                                                              *)

(* The credentials net_fetch gathers: in registry order, an entry for      *)
(* every declared origin a connection covers, if its secret is readable.   *)
Gathered ==
    [c \in DOMAIN Records |->
        [origins |-> {d \in DeclaredOrigins :
                        Covers(c, d) /\ keychain[c] # NoSecret},
         secret |-> keychain[c]]]

(* The credential of the first of the given entries.                       *)
First(entries) ==
    IF entries = {} THEN NoSecret
    ELSE creds[CHOOSE c \in entries : \A d \in entries : c <= d].secret

ForOriginHost(o) ==
    First({c \in DOMAIN creds : \E d \in creds[c].origins : d.host = o.host})

(* OriginCredentials::for_origin: the first entry of exactly this origin.  *)
ForOrigin(o) == First({c \in DOMAIN creds : o \in creds[c].origins})

NoRequest == [url |-> Malformed, method |-> "GET", body |-> FALSE]

(* The fetch is over, with a response or with an error for the user's log; *)
(* its copies are dropped.                                                 *)
Ended ==
    /\ pc' = "idle"
    /\ req' = NoRequest
    /\ hop' = 0
    /\ creds' = << >>
    /\ pinned' = NoAddress
    /\ held' = [c \in DOMAIN Records |-> NoSecret]
    /\ asked' = {}
    /\ sent' = << >>
    /\ got' = 0

(* net_fetch up to the first await: policy and credentials are copied.     *)
Fetch(u, method, body) ==
    /\ pc = "idle"
    /\ pc' = "hop"
    /\ req' = [url |-> u, method |-> method, body |-> body]
    /\ hop' = 0
    /\ creds' = Gathered
    /\ held' = keychain
    /\ asked' = {}
    /\ sent' = << >>
    /\ got' = 0
    /\ UNCHANGED << manifest, keychain, drawn, pinned >>

(* The request of this hop leaves for address a, with the credential of    *)
(* exactly this origin and never the application's own.                    *)
Send(a) ==
    LET o == OfUrl(req.url) IN
    /\ pc' = "sent"
    /\ pinned' = a
    /\ sent' = Append(sent, [origin |-> o, method |-> req.method,
                             body |-> req.body, auth |-> ForOrigin(o),
                             status |-> 0])

(* The first usable address is pinned and the request built; a method that *)
(* is not a token is only noticed here.                                    *)
Connect(resolved) ==
    IF Usable(resolved) = {} \/ req.method = NotHttp
    THEN Ended
    ELSE /\ \E i \in Usable(resolved) :
               (\A j \in Usable(resolved) : i <= j) /\ Send(resolved[i])
         /\ UNCHANGED << req, hop, creds, held, asked, got >>

TooMany == hop > MaxRedirects

(* Start of a hop: the origin is checked before any name is resolved, and  *)
(* a literal needs no resolution.                                          *)
Hop ==
    /\ pc = "hop"
    /\ LET o == OfUrl(req.url) IN
       IF TooMany \/ o = Malformed \/ o \notin DeclaredOrigins
       THEN Ended
       ELSE IF o.host \in DOMAIN Literals
       THEN Connect(<<Literals[o.host]>>)
       ELSE /\ pc' = "resolving"
            /\ asked' = asked \cup {o}
            /\ UNCHANGED << req, hop, creds, pinned, held, sent, got >>
    /\ UNCHANGED << manifest, keychain, drawn >>

(* The lookup returns, or fails (the empty answer).                        *)
Resolve(answer) ==
    /\ pc = "resolving"
    /\ Connect(answer)
    /\ UNCHANGED << manifest, keychain, drawn >>

(* resolve_redirect: an absolute destination is taken as it is (so is a    *)
(* relative one with a URL in its query, which then does not parse);       *)
(* anything else, a network-path reference too, stays on this origin.      *)
ResolveRedirect(to) ==
    CASE to.form = "absolute" -> to.url
      [] to.form = "embedded" -> [req.url EXCEPT !.scheme = "none"]
      [] to.form \in {"path", "network"} -> [req.url EXCEPT !.tail = "path"]

Locations ==
    [form : {"absolute"}, url : Urls]
        \cup [form : {"embedded", "path", "network", "missing"}]

BecomesGetMoved(status) == status \in {301, 302} /\ req.method # "GET"

(* 303, and 301 or 302 on anything but GET, drop the method and the body.  *)
BecomesGet(status) ==
    status = 303 \/ (status \in {301, 302} /\ req.method # "GET")

Answered(status) == [sent EXCEPT ![Len(sent)].status = status]

(* A redirect is followed by the next hop with everything checked again;   *)
(* one without a destination ends the fetch.                               *)
Redirect(status, to) ==
    /\ pc = "sent"
    /\ IF to.form = "missing"
       THEN Ended
       ELSE /\ pc' = "hop"
            /\ sent' = Answered(status)
            /\ pinned' = NoAddress
            /\ hop' = hop + 1
            /\ req' = [url |-> ResolveRedirect(to),
                       method |-> IF BecomesGet(status) THEN "GET"
                                  ELSE req.method,
                       body |-> req.body /\ ~BecomesGet(status)]
            /\ UNCHANGED << creds, held, asked, got >>
    /\ UNCHANGED << manifest, keychain, drawn >>

(* Any other status: the body is read.                                     *)
Respond ==
    /\ pc = "sent"
    /\ pc' = "reading"
    /\ sent' = Answered(200)
    /\ UNCHANGED << manifest, keychain, drawn, req, hop, creds, pinned, held,
                    asked, got >>

(* read_response takes a chunk of n; one past the cap ends the fetch.      *)
Chunk(n) ==
    /\ pc = "reading"
    /\ IF got + n > MaxBody
       THEN Ended
       ELSE /\ got' = got + n
            /\ UNCHANGED << pc, req, hop, creds, pinned, held, asked, sent >>
    /\ UNCHANGED << manifest, keychain, drawn >>

(* The body ends and the response is the window's.                         *)
Finish ==
    /\ pc = "reading"
    /\ Ended
    /\ UNCHANGED << manifest, keychain, drawn >>

FailConnecting ==
    /\ pc = "sent"
    /\ Ended
    /\ UNCHANGED << manifest, keychain, drawn >>

(* The transport fails, or the timeout of the hop passes: it covers the    *)
(* body as well as the headers.                                            *)
Fail ==
    /\ pc \in {"sent", "reading"}
    /\ Ended
    /\ UNCHANGED << manifest, keychain, drawn >>

-----------------------------------------------------------------------------
Init ==
    /\ manifest \in Manifests
    /\ keychain = [c \in DOMAIN Records |-> NoSecret]
    /\ drawn = 0
    /\ pc = "idle"
    /\ req = NoRequest
    /\ hop = 0
    /\ creds = << >>
    /\ pinned = NoAddress
    /\ held = [c \in DOMAIN Records |-> NoSecret]
    /\ asked = {}
    /\ sent = << >>
    /\ got = 0

Next ==
    \/ \E c \in DOMAIN Records : Enter(c) \/ Forget(c)
    \/ \E u \in Urls, m \in Methods, b \in BOOLEAN : Fetch(u, m, b)
    \/ Hop
    \/ \E answer \in Answers : Resolve(answer)
    \/ \E s \in Statuses, to \in Locations : Redirect(s, to)
    \/ Respond
    \/ \E n \in 1..2 : Chunk(n)
    \/ Finish
    \/ Fail

(* Every await of a fetch ends: the resolver answers or gives up, and      *)
(* reqwest's timeout passes if the server does not.                        *)
Fairness ==
    /\ WF_vars(Hop)
    /\ WF_vars(\E answer \in Answers : Resolve(answer))
    /\ WF_vars(Fail)

Spec == Init /\ [][Next]_vars /\ Fairness

-----------------------------------------------------------------------------
(* Properties.                                                             *)

(* The registries' special-purpose blocks, as prefixes, independently of   *)
(* how the code recognises them.                                           *)
ReservedV4 ==
    { <<<<0, 0, 0, 0>>, 8>>, <<<<10, 0, 0, 0>>, 8>>, <<<<100, 64, 0, 0>>, 10>>,
      <<<<127, 0, 0, 0>>, 8>>, <<<<169, 254, 0, 0>>, 16>>,
      <<<<172, 16, 0, 0>>, 12>>, <<<<192, 0, 0, 0>>, 24>>,
      <<<<192, 0, 2, 0>>, 24>>, <<<<192, 88, 99, 0>>, 24>>,
      <<<<192, 168, 0, 0>>, 16>>, <<<<198, 18, 0, 0>>, 15>>,
      <<<<198, 51, 100, 0>>, 24>>, <<<<203, 0, 113, 0>>, 24>>,
      <<<<224, 0, 0, 0>>, 3>> }

ReservedV6 ==
    { <<<<0, 0, 0, 0, 0, 0, 0, 0>>, 127>>,
      <<<<\h100, 0, 0, 0, 0, 0, 0, 0>>, 64>>,
      <<<<\h2001, 0, 0, 0, 0, 0, 0, 0>>, 23>>,
      <<<<\h2001, \hDB8, 0, 0, 0, 0, 0, 0>>, 32>>,
      <<<<\hFC00, 0, 0, 0, 0, 0, 0, 0>>, 7>>,
      <<<<\hFE80, 0, 0, 0, 0, 0, 0, 0>>, 10>>,
      <<<<\hFF00, 0, 0, 0, 0, 0, 0, 0>>, 8>> }

(* The prefixes that carry an IPv4 block, with the segment it begins at.   *)
Carriers ==
    { <<<<0, 0, 0, 0, 0, \hFFFF>>, 7>>, <<<<0, 0, 0, 0, 0, 0>>, 7>>,
      <<<<\h64, \hFF9B, 0, 0, 0, 0>>, 7>>, <<<<\h2002>>, 2>> }

Carried(carrier, block) ==
    LET at == carrier[2]
        n == block[1]
    IN  << [i \in 1..8 |-> CASE i < at -> carrier[1][i]
                              [] i = at -> n[1] * 256 + n[2]
                              [] i = at + 1 -> n[3] * 256 + n[4]
                              [] OTHER -> 0],
           16 * (at - 1) + block[2] >>

Reserved(a) ==
    IF Len(a) = 4
    THEN \E b \in ReservedV4 : SamePrefix(a, b[1], b[2], 8)
    ELSE \/ \E b \in ReservedV6 : SamePrefix(a, b[1], b[2], 16)
         \/ \E c \in Carriers, b \in ReservedV4 :
               SamePrefix(a, Carried(c, b)[1], Carried(c, b)[2], 16)

(* However names resolve and wherever redirects point, no connection is    *)
(* opened to a reserved address, and neither a request nor a lookup is     *)
(* made for an origin the manifest does not declare (http.rs:7-20).        *)
StaysWithinGrant ==
    /\ pinned # NoAddress => ~Reserved(pinned)
    /\ asked \cup {r.origin : r \in ToSet(sent)} \subseteq DeclaredOrigins

(* A request carries a credential only of a connection that covers exactly *)
(* its origin and that held it when the fetch began: over any chain of     *)
(* redirects no credential follows to another origin (http.rs:119-131).    *)
CredentialStaysHome ==
    \A r \in ToSet(sent) : r.auth # NoSecret =>
        \E c \in DOMAIN Records : held[c] = r.auth /\ Covers(c, r.origin)

(* The body of a request is never sent again after a 303, nor after a      *)
(* moved answer to a request that was not a GET, on any later hop; a 307   *)
(* or a 308 keeps method and body (http.rs:263-268).                       *)
BodyFollowsStatus ==
    \A i, j \in DOMAIN sent : i < j =>
        /\ \/ sent[i].status = 303
           \/ sent[i].status \in {301, 302} /\ sent[i].method # "GET"
           => ~sent[j].body /\ sent[j].method = "GET"
        /\ sent[i].status \in {307, 308} /\ j = i + 1 =>
              sent[j].body = sent[i].body /\ sent[j].method = sent[i].method

(* Every fetch ends, however the servers redirect.                         *)
FetchEnds == pc # "idle" ~> pc = "idle"
=============================================================================
