------------------------------ MODULE Outbound ------------------------------
(***************************************************************************)
(* Outbound HTTP requests (src/http_client.rs): options and credentials,   *)
(* signed posts and their metrics, the connection policy, proxy selection  *)
(* and the client built from them; and the screening of URLs, their        *)
(* normal form (src/url_normalizer.rs) and the rules for an anchor's       *)
(* domain (src/domain_validator.rs).  reqwest is external: it sends a      *)
(* request through the first of its proxies that intercepts the target.    *)
(***************************************************************************)
EXTENDS Integers, Sequences, SequencesExt, FiniteSets

CONSTANTS
    Targets,        \* URLs: scheme, host (labels, <<>> when there is none)
    RequestOptions, \* key, signing, credential: what each looks like, or None
    Statuses,       \* answers of a server
    ProxyConfigs,   \* proxy, http, https: URLs ("" when empty) or None; bypass; user
    Policies,       \* ConnectionPolicy: connect, total, redirects
    MaxRequests,
    Urls,           \* outer (blanks), scheme (or None), loud (in capitals), host (labels),
                    \* ports (numbers), path, query, forbidden (characters)
    LabelForms,     \* of a label's text: size, numeric, formed, and what it ends with
    TextSizes,      \* of paths and queries
    Filters,        \* UrlFilterPolicy: allow, block (sequences of pattern, exact)
    None

VARIABLES
    client,      \* the client built, or None; ghost: its configuration
    request,     \* the request that is under way, or None
    received,    \* ghost: the request a server was asked last, or None
    httpMetrics, \* http.requests, successes, error_responses, transport_errors
    screened     \* ghost: the URL screened last, the filter and the result

outboundVars == <<client, request, received, httpMetrics, screened>>

-----------------------------------------------------------------------------
(* Options *)

\* RequestCredentials::validate; what is wrong with a value is its kind.
ValidCredential(c) ==
    CASE c.kind = "bearer" -> c.value \notin {"blank", "control"}
      [] c.kind = "basic" -> c.name \notin {"", "colon", "control"} /\ c.value # "control"
      [] c.kind = "header" -> c.name \notin {"", "space", "protected"} /\ c.value # "control"


\* OutboundRequestOptions::validate; keys of white space are no keys.
ValidOptions(o) ==
    /\ o.signing \notin {"", "blank"}
    /\ o.credential # None => ValidCredential(o.credential)

\* build_headers, of options that validate.  A signature is abstracted to the key
\* and the body it is made of.
BuildHeaders(o, body) ==
    (IF o.key \in {None, ""} THEN {} ELSE {<<"Idempotency-Key", o.key>>, <<"X-Request-Id", o.key>>})
    \cup (IF o.signing = None THEN {} ELSE {<<"X-Anchor-Signature", <<o.signing, body>>>>})
    \cup (CASE o.credential = None -> {}
            [] o.credential # None /\ o.credential.kind = "header" ->
                 {<<o.credential.name, o.credential.value>>}
            [] OTHER -> {<<"Authorization", o.credential.value>>})

\* verify_outbound_signature, of a header of the right form.
VerifyOutboundSignature(body, signature, key) == signature = <<key, body>>

-----------------------------------------------------------------------------
(* Classification *)

ClassifyHttpStatusCode(status) ==
    CASE status \in 200..399 -> "Success"
      [] status \in {408, 429, 500, 502, 503, 504} -> "Retryable"
      [] OTHER -> "Permanent"

\* classify_transport_error and is_transport_error_retryable: the first word found.
TransportErrorKinds == <<"Timeout", "ConnectionRefused", "DnsFailure", "TlsError">>
ClassifyTransportError(mentioned) ==
    LET found == {i \in DOMAIN TransportErrorKinds : TransportErrorKinds[i] \in mentioned}
    IN  IF found = {} THEN "Other" ELSE TransportErrorKinds[CHOOSE i \in found : \A j \in found : i <= j]
IsTransportErrorRetryable(kind) == kind \in {"Timeout", "DnsFailure"}

-----------------------------------------------------------------------------
(* ProxyConfig *)

NonEmpty(url) == url \notin {None, ""}

\* An entry matches the host it names and its subdomains, with or without a dot.
HostBypassesProxy(cfg, target) ==
    /\ cfg.bypass # None /\ target.host # <<>>
    /\ \E e \in ToSet(cfg.bypass) : e = <<"*">> \/ IsSuffix(e, target.host)

\* A bug OutboundSound must catch: the catch-all proxy goes before the others.
CatchAllFirst(cfg, scheme) == IF NonEmpty(cfg.proxy) THEN cfg.proxy ELSE cfg[scheme]

SchemeProxy(cfg, scheme) == IF NonEmpty(cfg[scheme]) THEN cfg[scheme] ELSE cfg.proxy

SelectProxyUrl(cfg, target) ==
    LET chosen == IF target.scheme \in {"http", "https"} THEN SchemeProxy(cfg, target.scheme)
                  ELSE cfg.proxy
    IN  IF HostBypassesProxy(cfg, target) \/ ~NonEmpty(chosen) THEN None ELSE chosen

\* validate: "bad" stands for a URL without scheme or host, or with white space.
ValidProxyConfig(cfg) ==
    /\ "bad" \notin {cfg.proxy, cfg.http, cfg.https}
    /\ cfg.user = None \/ (cfg.user = "good" /\ \E f \in {"proxy", "http", "https"} : NonEmpty(cfg[f]))

\* apply_proxy_config: the proxies of a client, in the order reqwest asks them.
AppliedProxies(cfg) ==
    SelectSeq(<<[for |-> "http", url |-> cfg.http], [for |-> "https", url |-> cfg.https],
                [for |-> "all", url |-> cfg.proxy]>>, LAMBDA p : NonEmpty(p.url))

\* build_client and build_client_with_policy.
BuildClient(cfg, policy) ==
    /\ request = None
    /\ cfg # None => ValidProxyConfig(cfg)
    /\ client' = [cfg |-> cfg, proxies |-> IF cfg = None THEN <<>> ELSE AppliedProxies(cfg),
                  timeout |-> policy.total,
                  redirects |-> IF policy.follow THEN policy.redirects ELSE 0]
    /\ UNCHANGED <<request, received, httpMetrics, screened>>

\* External: the proxy a client sends a request through.
Intercepted(c, target) ==
    LET through == SelectSeq(c.proxies, LAMBDA p : p.for \in {target.scheme, "all"})
    IN  IF c.cfg = None \/ through = <<>> THEN None
        ELSE IF HostBypassesProxy(c.cfg, target) THEN None ELSE through[1].url

-----------------------------------------------------------------------------
(* post_with_options_metered; its transport is a closure over the client *)

Count(names) == httpMetrics' = [n \in DOMAIN httpMetrics |->
                                  httpMetrics[n] + (IF n \in names THEN 1 ELSE 0)]

\* A URL that is not https, or options that do not validate: the transport is not asked.
PostRejected(target, o) ==
    /\ request = None /\ httpMetrics.requests < MaxRequests
    /\ target.scheme # "https" \/ (o # None /\ ~ValidOptions(o))
    /\ Count({"requests", "transport_errors"})
    /\ UNCHANGED <<client, request, received, screened>>

Post(target, o, body) ==
    /\ client # None /\ request = None /\ httpMetrics.requests < MaxRequests
    /\ target.scheme = "https" /\ (o # None => ValidOptions(o))
    /\ request' = [target |-> target, first |-> target, options |-> o, hops |-> 0,
                   headers |-> IF o = None THEN {} ELSE BuildHeaders(o, body), body |-> body]
    /\ Count({"requests"})
    /\ UNCHANGED <<client, received, screened>>

\* External: reqwest follows a redirect to whatever location the answer names, as the
\* policy only counts them.  A 307 or 308 repeats the request, the others leave out the
\* body; the Authorization is left out when scheme or host change, and no other header.
Redirected(location, repeats) ==
    /\ request # None /\ request.hops < client.redirects
    /\ location.scheme \in {"http", "https"} /\ location.host # <<>>
    /\ request' = [request EXCEPT
         !.target = location, !.hops = @ + 1,
         !.body = IF repeats THEN @ ELSE None,
         !.headers = {h \in @ : location = request.target \/ h[1] # "Authorization"}]
    /\ received' = request
    /\ UNCHANGED <<client, httpMetrics, screened>>

\* An answer; with none of the client's redirects left, a redirect is one too.
Answered(status) ==
    /\ request # None
    /\ status \in 301..308 => client.redirects = 0
    /\ request' = None
    /\ received' = request
    /\ Count({IF status < 400 THEN "successes" ELSE "error_responses"})
    /\ UNCHANGED <<client, screened>>

\* No answer: it may or may not have arrived (a timeout, if the client has one).
TransportFails(arrived) ==
    /\ request # None
    /\ request' = None
    /\ received' = IF arrived THEN request ELSE received
    /\ Count({"transport_errors"})
    /\ UNCHANGED <<client, screened>>

OutboundNext ==
    \/ \E cfg \in ProxyConfigs \cup {None}, policy \in Policies : BuildClient(cfg, policy)
    \/ \E t \in Targets, o \in RequestOptions \cup {None} :
          \/ PostRejected(t, o)
          \/ \E body \in {"a", "b"} : Post(t, o, body)
    \/ \E location \in Targets, repeats \in BOOLEAN : Redirected(location, repeats)
    \/ \E status \in Statuses : Answered(status)
    \/ \E arrived \in BOOLEAN : TransportFails(arrived)

-----------------------------------------------------------------------------
(* URLs.  A label has a text, may be in capitals, and may follow userinfo.      *)

Lower(labels) == [i \in DOMAIN labels |-> [labels[i] EXCEPT !.upper = FALSE]]

NotANumber == -1
EmptyPort == -2
DefaultPort(scheme) == CASE scheme = "https" -> 443 [] scheme = "http" -> 80 [] OTHER -> None

NormalPorts(u) ==
    IF u.ports # <<>> /\ u.scheme \in {"http", "https"} /\ Last(u.ports) = DefaultPort(u.scheme)
    THEN Front(u.ports) ELSE u.ports

\* normalize_url; None for a URL without "://".
NormalizeUrl(u) ==
    IF u.scheme = None THEN None
    ELSE [u EXCEPT !.outer = FALSE, !.loud = FALSE, !.host = Lower(@), !.ports = NormalPorts(u),
                   !.path = IF u.path = "/" /\ u.query = "" THEN "" ELSE @]

\* extract_hostname: what looks like a port is cut off, an empty one too.
ExtractHostname(u) ==
    [labels |-> Lower(u.host),
     ports |-> IF u.ports # <<>> /\ Last(u.ports) # NotANumber THEN Front(u.ports) ELSE u.ports]

\* ends_with: whole labels, but for the first of them.
EndsWith(labels, pattern) ==
    LET k == Len(labels) - Len(pattern)
    IN  /\ k >= 0
        /\ pattern[1].text \in LabelForms[labels[k + 1].text].ends
        /\ SubSeq(labels, k + 2, Len(labels)) = Tail(pattern)

\* A bug OutboundSound must catch: a label that ends with the pattern will do.
MatchesEnding(e, h) ==
    /\ h.ports = <<>>
    /\ h.labels = e.pattern \/ (~e.exact /\ EndsWith(h.labels, e.pattern))

\* UrlFilterEntry::matches; the pattern is not empty.
Matches(e, h) ==
    /\ h.ports = <<>>
    /\ \/ h.labels = e.pattern
       \/ /\ ~e.exact
          /\ EndsWith(h.labels, e.pattern)
          /\ Len(h.labels) > Len(e.pattern)
          /\ h.labels[Len(h.labels) - Len(e.pattern) + 1].text = e.pattern[1].text
          /\ ~h.labels[Len(h.labels) - Len(e.pattern) + 1].user

\* UrlFilterPolicy::check
FilterCheck(f, u) ==
    LET n == NormalizeUrl(u)
        h == ExtractHostname(n)
    IN  /\ n # None /\ n.host # <<>>
        /\ \A e \in ToSet(f.block) : ~Matches(e, h)
        /\ f.allow # <<>> => \E e \in ToSet(f.allow) : Matches(e, h)

Digits(n) == Cardinality({k \in 0..5 : k = 0 \/ n >= 10^k})
HostSize(host) ==
    FoldLeft(LAMBDA size, label : size + LabelForms[label.text].size, 0, host) + Len(host) - 1
UrlSize(u) ==
    8 + HostSize(u.host) + TextSizes[u.path] + TextSizes[u.query]
      + FoldLeft(LAMBDA size, port : size + 1 + (IF port < 0 THEN 0 ELSE Digits(port)), 0, u.ports)

ValidateHost(u) ==
    /\ ToSet(u.ports) \subseteq 1..65535
    /\ Len(u.host) >= 2 /\ HostSize(u.host) <= 253
    /\ \E label \in ToSet(u.host) : ~LabelForms[label.text].numeric
    /\ \A label \in ToSet(u.host) :
          LabelForms[label.text].size \in 1..63 /\ LabelForms[label.text].formed

\* "https://a.b" is one byte too short.
ValidateAnchorDomain(u) ==
    /\ ~u.outer /\ u.scheme = "https" /\ ~u.loud
    /\ UrlSize(u) \in 12..2048
    /\ ~u.forbidden
    /\ \A label \in ToSet(u.host) : ~label.user
    /\ Len(u.ports) <= 1
    /\ u.path \in {"", "/"}
    /\ ValidateHost(u)

\* DomainPolicy::permits; the first rule that matches decides.
Permits(policy, labels) ==
    LET matching == SelectSeq(policy.rules, LAMBDA r : r.pattern # <<>> /\ IsSuffix(Lower(r.pattern), Lower(labels)))
    IN  IF matching = <<>> THEN ~policy.defaultDeny ELSE matching[1].action = "Allow"

ValidateAnchorDomainWithPolicy(u, policy) == ValidateAnchorDomain(u) /\ Permits(policy, u.host)

NormalizeAndValidate(u, f) ==
    LET n == NormalizeUrl(u)
    IN  IF n # None /\ ValidateAnchorDomain(n) /\ FilterCheck(f, n) THEN n ELSE None

Screen(u, f) ==
    /\ screened = None
    /\ screened' = [url |-> u, filter |-> f, result |-> NormalizeAndValidate(u, f)]
    /\ UNCHANGED <<client, request, received, httpMetrics>>

ScreenNext == \E u \in Urls, f \in Filters : Screen(u, f)

OutboundInit ==
    /\ client = None /\ request = None /\ received = None /\ screened = None
    /\ httpMetrics = [requests |-> 0, successes |-> 0, error_responses |-> 0, transport_errors |-> 0]
-----------------------------------------------------------------------------
(* Properties *)

\* The proxy select_proxy_url names is the one the client built from the same
\* configuration uses, for every target it can post to or fetch from.
ProxiesAgree ==
    client # None /\ client.cfg # None =>
        \A t \in Targets : Intercepted(client, t) = SelectProxyUrl(client.cfg, t)

\* What a server is asked before any redirect is asked over https, and whatever it is
\* asked, with usable credentials.  Redirects may lead anywhere, over http too, and take the
\* other headers along; but an Authorization reaches only the target the caller named,
\* whatever hops came between, and the signature verifies with the caller's key for the
\* body that arrives and with no other key or body, unless a redirect dropped the body.
RequestsSound ==
    received # None =>
        LET r == received IN
        /\ r.first.scheme = "https" /\ (r.hops = 0 => r.target = r.first)
        /\ \A h \in r.headers :
              /\ h[1] # "X-Anchor-Signature" => h[2] \notin {"", "blank", "control"}
              /\ h[1] = "Authorization" => r.target = r.first
        /\ \A h \in r.headers : h[1] = "X-Anchor-Signature" =>
              /\ r.options.signing \notin {"", "blank"}
              /\ r.body # None =>
                   \A body \in {"a", "b"}, key \in {"", "blank", "k1", "k2"} :
                      VerifyOutboundSignature(body, h[2], key) <=>
                        body = r.body /\ key = r.options.signing

\* Every request is counted once, and has one outcome unless it is under way.
RequestsCounted ==
    httpMetrics.requests = httpMetrics.successes + httpMetrics.error_responses
                           + httpMetrics.transport_errors + (IF request = None THEN 0 ELSE 1)

\* A status that is counted a success is never retried, and of the failures with a
\* status only those; the order of the error words decides.
ClassesAgree ==
    /\ \A s \in Statuses : (s < 400) <=> (ClassifyHttpStatusCode(s) = "Success")
    /\ \A words \in SUBSET ToSet(TransportErrorKinds) :
          IsTransportErrorRetryable(ClassifyTransportError(words)) <=>
            "Timeout" \in words \/ ("DnsFailure" \in words /\ "ConnectionRefused" \notin words)

SameUrl(u, v) ==
    LET port(x) == IF x.ports = <<>> THEN DefaultPort(x.scheme) ELSE x.ports[1]
        path(x) == IF x.query = "" /\ x.path = "" THEN "/" ELSE x.path
    IN  /\ Len(u.ports) <= 1 /\ Len(v.ports) <= 1 /\ None \notin {u.scheme, v.scheme}
        /\ u.scheme = v.scheme /\ u.query = v.query /\ u.forbidden = v.forbidden
        /\ port(u) = port(v) /\ path(u) = path(v) /\ Lower(u.host) = Lower(v.host)

\* The same rules, for the other of the two policies.
AsDomainPolicy(f) ==
    LET rules(entries, action) ==
          [i \in DOMAIN entries |-> [action |-> action, pattern |-> entries[i].pattern]]
    IN  [rules |-> rules(f.block, "Deny") \o rules(f.allow, "Allow"), defaultDeny |-> f.allow # <<>>]

\* Two spellings of one URL have the same fate and the same normal form, which is one of
\* them and its own normal form; and the filter and the domain policy decide alike, whether they
\* are asked about the URL or about its normal form (unless that is too short).
UrlsScreened ==
    screened # None =>
        LET u == screened.url
            f == screened.filter
            r == screened.result
        IN  /\ \A v \in Urls : SameUrl(u, v) => NormalizeAndValidate(v, f) = r
            /\ r # None /\ Len(u.ports) <= 1 => SameUrl(u, r) /\ NormalizeUrl(r) = r
            /\ (\A e \in ToSet(f.block) \cup ToSet(f.allow) : ~e.exact) /\ NormalizeUrl(u) # None =>
                  (r # None <=> ValidateAnchorDomainWithPolicy(NormalizeUrl(u), AsDomainPolicy(f)))
            /\ ValidateAnchorDomain(u) /\ UrlSize(NormalizeUrl(u)) >= 12 =>
                  (r # None <=> FilterCheck(f, u))

\* Outbound requests are routed, signed, counted and classified consistently.
OutboundSound == ProxiesAgree /\ RequestsSound /\ RequestsCounted /\ ClassesAgree /\ UrlsScreened
=============================================================================
