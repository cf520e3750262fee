------------------------------- MODULE MCHost -------------------------------
(***************************************************************************)
(* The host library, one part of it at a time: what a part does not touch  *)
(* keeps its initial value.                                                *)
(***************************************************************************)
EXTENDS Retry, WebhookDelivery, HostStores, Monitoring, Telemetry, Outbound

CONSTANTS p1, p2

VARIABLE part

wireVars == <<telemetryVars, outboundVars>>
hostVars == <<part, retryVars, deliveryVars, hostStoreVars, monitorVars, alertVars, wireVars>>

MCRetryConfig(attempts, strategy, jitter) ==
    [attempts |-> attempts, base |-> 4, max |-> 11, mult |-> 2, strategy |-> strategy,
     jitter |-> jitter]
MCRetryConfigs ==
    {MCRetryConfig(4, s, j) : s \in {"Exponential", "Linear", "Constant", "NoRetry"},
                              j \in {"Full", "Equal", "None"}}
    \cup {MCRetryConfig(0, "Linear", "Full"), MCRetryConfig(1, "Exponential", "Equal")}

MCReceivers ==
    {[age |-> 2, size |-> 2, skew |-> 0, rejects |-> {}],
     [age |-> 2, size |-> 1, skew |-> 1, rejects |-> {}],
     [age |-> 0, size |-> 2, skew |-> -1, rejects |-> {p2}]}

MCRecordPolicies ==
    {[records |-> 0, age |-> 0, onWrite |-> FALSE], [records |-> 2, age |-> 0, onWrite |-> TRUE],
     [records |-> 3, age |-> 1, onWrite |-> TRUE]}

MCBackpressure == [max : {0, 2}, updates : BOOLEAN, polls : BOOLEAN]

MCRule(severity, scope, routes) == [severity |-> severity, scope |-> scope, routes |-> routes]
MCRouterConfigs ==
    {[rules |-> <<MCRule("critical", NoScope, <<"page", "log">>),
                  MCRule("critical", "kyc", <<"mail", "page">>), MCRule("warning", "kyc", <<>>)>>,
      defaults |-> <<"log", "mail", "log">>],
     [rules |-> <<>>, defaults |-> <<>>]}

MCBaggageKeys == {<<"k">>, <<"m">>}
MCBaggageValues == {<<>>, <<"a", "=", "b">>}
MCLogConfigs == [capacity : {0, 1, 2}, level : {1, 2}]

MCTargets ==
    {[scheme |-> s, host |-> h] : s \in {"https", "http"}, h \in {<<"api", "corp">>, <<"org">>}}
    \cup {[scheme |-> "ftp", host |-> <<"org">>], [scheme |-> "http", host |-> <<>>]}
MCCredential(kind, name, value) == [kind |-> kind, name |-> name, value |-> value]
MCOptions(key, signing, credential) == [key |-> key, signing |-> signing, credential |-> credential]
MCRequestOptions ==
    {MCOptions(None, None, MCCredential("bearer", "", v)) : v \in {"token", "blank", "control"}}
    \cup {MCOptions("key", None, MCCredential("basic", n, "secret")) : n \in {"user", "colon"}}
    \cup {MCOptions(None, None, MCCredential("header", n, "secret")) : n \in {"X-Api", "protected"}}
    \cup {MCOptions("", k, None) : k \in {"k1", "blank"}}
MCProxies(all, http, https, bypass, user) ==
    [proxy |-> all, http |-> http, https |-> https, bypass |-> bypass, user |-> user]
MCProxyConfigs ==
    {MCProxies("p", "", "s", <<<<"corp">>>>, "good"), MCProxies("p", "h", None, None, None),
     MCProxies(None, "h", None, <<<<"*">>>>, None), MCProxies(None, "bad", None, None, None),
     MCProxies(None, None, None, None, "good"), MCProxies("p", None, None, <<>>, "colon")}
MCPolicies == {[total |-> 30, follow |-> TRUE, redirects |-> 2],
               [total |-> 0, follow |-> FALSE, redirects |-> 5]}

MCForm(size, numeric, formed, ends) == [size |-> size, numeric |-> numeric, formed |-> formed, ends |-> ends]
MCLabelForms ==
    [good |-> MCForm(4, FALSE, TRUE, {"good"}), nogood |-> MCForm(6, FALSE, TRUE, {"nogood", "good"}),
     org |-> MCForm(3, FALSE, TRUE, {"org"}), a |-> MCForm(1, FALSE, TRUE, {"a"}),
     seven |-> MCForm(1, TRUE, TRUE, {"seven"}), empty |-> MCForm(0, TRUE, FALSE, {"empty"}),
     dash |-> MCForm(2, FALSE, FALSE, {"dash"}), full |-> MCForm(63, FALSE, TRUE, {"full"}),
     over |-> MCForm(64, FALSE, TRUE, {"over"})]
MCTextSizes == [t \in {"", "/", "/p", "?q", "?long"} |->
                  CASE t = "" -> 0 [] t = "/" -> 1 [] t \in {"/p", "?q"} -> 2 [] OTHER -> 2048]
MCLabel(text) == [text |-> text, upper |-> FALSE, user |-> FALSE]
MCName(texts) == [i \in DOMAIN texts |-> MCLabel(texts[i])]
MCUrl(outer, scheme, host, ports, path, query, forbidden) ==
    [outer |-> outer, scheme |-> scheme, loud |-> outer, host |-> host, ports |-> ports,
     path |-> path, query |-> query, forbidden |-> forbidden]
MCCapitals == <<[text |-> "good", upper |-> TRUE, user |-> FALSE], MCLabel("org")>>
MCWithUser == <<[text |-> "good", upper |-> FALSE, user |-> TRUE], MCLabel("org")>>
MCUrls ==
    {MCUrl(x, s, h, p, w, q, FALSE) :
        x \in BOOLEAN, s \in {"https", "http"},
        h \in {MCName(<<"good", "org">>), MCName(<<"a", "good", "org">>), MCName(<<"nogood", "org">>), MCCapitals},
        p \in {<<>>, <<443>>, <<80>>, <<65536>>, <<443, 443>>}, w \in {"", "/", "/p"}, q \in {"", "?q"}}
    \cup {MCUrl(FALSE, "https", h, p, w, "", FALSE) :
        h \in {MCWithUser} \cup
              {MCName(n) : n \in {<<"org">>, <<"a", "a">>, <<"seven", "seven">>, <<"dash", "org">>,
                                  <<"good", "empty", "org">>, <<"full", "org">>, <<"over", "org">>,
                                  <<"full", "full", "full", "full">>}},
        p \in {<<>>, <<0>>, <<NotANumber>>, <<EmptyPort>>}, w \in {"", "/"}}
    \cup {MCUrl(FALSE, s, MCName(<<"good", "org">>), <<>>, "", q, b) :
        s \in {"https", None}, q \in {"", "?long"}, b \in BOOLEAN}
MCEntry(texts, exact) == [pattern |-> MCName(texts), exact |-> exact]
MCFilters ==
    {[allow |-> a, block |-> b] :
        a \in {<<>>, <<MCEntry(<<"good", "org">>, FALSE)>>},
        b \in {<<>>, <<MCEntry(<<"a", "good", "org">>, FALSE)>>, <<MCEntry(<<"good", "org">>, TRUE)>>}}

\* Only the part that runs starts in every initial configuration.
First(S) == CHOOSE x \in S : TRUE

HostInit ==
    /\ part \in {"retry", "budget", "delivery", "letters", "dedup", "guard", "records", "monitor",
                 "alerts", "journey", "log", "metrics", "outbound", "urls"}
    /\ RetryInit
    /\ part # "retry" => retry.cfg = First(RetryConfigs)
    /\ part # "budget" => budget.max = Max(BudgetSizes)
    /\ DeliveryInit
    /\ part # "delivery" => receiver = First(Receivers)
    /\ HostStoreInit
    /\ part # "dedup" => dedup.size = 0
    /\ part # "guard" => guard.window = 0
    /\ part # "records" => store.policy = First(RecordPolicies)
    /\ MonitorInit
    /\ part # "monitor" => monitor.cfg = First(Backpressure)
    /\ AlertInit
    /\ part # "alerts" => fired.window = 0 /\ router = First(RouterConfigs)
    /\ TelemetryInit
    /\ part # "log" => logger.cfg = First(LogConfigs)
    /\ OutboundInit

RetryPart ==
    /\ \/ part = "retry" /\ RetryNext
       \/ part = "budget" /\ BudgetNext
    /\ UNCHANGED <<part, deliveryVars, hostStoreVars, monitorVars, alertVars, wireVars>>

SendPart ==
    /\ part \in {"delivery", "letters"} /\ SenderNext
    /\ UNCHANGED <<part, retryVars, hostStoreVars, monitorVars, alertVars, wireVars>>

DeliveryPart ==
    /\ \/ part \in {"delivery", "letters"} /\ DeliveryTick
       \/ part \in {"delivery", "letters"} /\ \E p \in Payloads : Deliver(p) \/ Refuse(p)
       \/ part = "delivery" /\ ReceiverNext
       \/ part = "letters" /\ LettersNext
    /\ UNCHANGED <<part, retryVars, hostStoreVars, monitorVars, alertVars, wireVars>>

StorePart ==
    /\ \/ part \in {"dedup", "guard", "records"} /\ HostTick
       \/ part = "dedup" /\ DedupNext
       \/ part = "guard" /\ GuardNext
       \/ part = "records" /\ RecordNext
    /\ UNCHANGED <<part, retryVars, deliveryVars, monitorVars, alertVars, wireVars>>

MonitorPart ==
    /\ \/ part = "monitor" /\ MonitorNext
       \/ part = "alerts" /\ AlertNext
    /\ UNCHANGED <<part, retryVars, deliveryVars, hostStoreVars, wireVars>>

WirePart ==
    /\ \/ part = "journey" /\ JourneyNext /\ UNCHANGED outboundVars
       \/ part = "log" /\ LogNext /\ UNCHANGED outboundVars
       \/ part = "metrics" /\ MetricsNext /\ UNCHANGED outboundVars
       \/ part = "outbound" /\ OutboundNext /\ UNCHANGED telemetryVars
       \/ part = "urls" /\ ScreenNext /\ UNCHANGED telemetryVars
    /\ UNCHANGED <<part, retryVars, deliveryVars, hostStoreVars, monitorVars, alertVars>>

HostNext == RetryPart \/ SendPart \/ DeliveryPart \/ StorePart \/ MonitorPart \/ WirePart

\* The loop of deliver_webhook runs on until it returns.
HostSpec == HostInit /\ [][HostNext]_hostVars /\ WF_hostVars(SendPart)

-----------------------------------------------------------------------------
(* Properties *)

=============================================================================
