---------------------------- MODULE MCOffChain ----------------------------
(***************************************************************************)
(* The anchor-facing services of the host library and the operator's       *)
(* tools, one part at a time: what a part does not touch keeps its initial *)
(* value.                                                                  *)
(***************************************************************************)
EXTENDS Archive, FirmQuotes, AnchorTransfers, OperatorTools, BuildRecords

CONSTANTS xlm, usd, blankAsset, badAsset

VARIABLE part

offChainVars == <<part, archiveVars, firmQuoteVars, transferVars, operatorVars,
                  buildVars>>

MCTxIds == {<<>>, <<"a">>, <<"b">>, <<"a", "b">>}
MCTxRecords == [ts : {0, 2, 5, 7}, status : {"completed", "pending", "error"}, amount : {2}]
               \cup [ts : {4}, status : {"completed"}, amount : {0, 5}]

MCRaw(id, expires, price, buyAsset) ==
    [id |-> id, expires |-> expires, price |-> price, sell |-> 1, buy |-> 1,
     sellAsset |-> xlm, buyAsset |-> buyAsset]
MCRawQuotes ==
    {MCRaw(1, 3, 10, usd), MCRaw(2, 3, 10, usd), MCRaw(2, 5, 12, usd), MCRaw(3, 4, 30, usd),
     MCRaw(1, 9, 10, usd), MCRaw(0, 4, 10, usd), MCRaw(1, 0, 10, usd), MCRaw(1, 4, 0, usd),
     MCRaw(1, 4, 10, xlm), MCRaw(1, 4, 10, blankAsset), MCRaw(1, 4, 10, badAsset)}
MCReconciliation == [near |-> 2, drift |-> 50, interval |-> 1]

MCHosts == <<"primary", "invalid", "fallback">>
MCPollConfigs == [interval : {2, 3}, max : {0, 5, 6}]
MCTomlLines ==
    {[key |-> k, value |-> "empty"] : k \in {"[CURRENCIES]", "[OTHER]", "issuer"}}
    \cup [key : {"code"}, value : {"A", "B", "empty"}]
    \cup [key : {"TRANSFER_SERVER"}, value : {"home", "away", "bad"}]

MCContents ==
    LET good == [registry |-> <<"a", "b">>, templates |-> <<[id |-> "t", attestor |-> "b"]>>,
                 limits |-> {[attestor |-> "a", minute |-> 1, hour |-> 1]},
                 multisig |-> {[required |-> 1, signers |-> {"a"}]}]
    IN  {good, [good EXCEPT !.registry = <<"b", "a", "c">>], [good EXCEPT !.registry = <<"a">>],
         [good EXCEPT !.limits = {[attestor |-> "a", minute |-> 0, hour |-> 1]}],
         [good EXCEPT !.multisig = {[required |-> 1, signers |-> {"d"}]}]}

MCAdmins == {[text |-> "A", norm |-> "A"], [text |-> "a ", norm |-> "A"], [text |-> "B", norm |-> "B"]}

MCFingerprints ==
    [rustc : {Absent, "r1"}, wasm : {TRUE}, version : {"v1"},
     features : {<<1, 2>>, <<2, 1>>, <<1>>, <<1, 1>>},
     files : UNION {[S -> {"h1", "h2"}] : S \in {{}, {"a"}, {"b"}}}]

MCHashedData == {<<>>, <<0>>, <<0, 0>>, <<1, 4>>}
MCHashedFields ==
    [kind : {"Bytes", "Some"}, bytes : {<<>>, <<0>>}]
    \cup [kind : {"U64", "U32"}, word : {0}] \cup [kind : {"Bool"}, flag : BOOLEAN]
    \cup {[kind |-> "None"]} \cup [kind : {"List"}, items : {<<>>, <<<<>>>>, <<<<>>, <<0>>>>}]
MCHashedSubjects == {<<0, 0, 0>>, <<0, 0, 1>>, <<1, 0>>}

\* Only the part that runs starts in every initial configuration.
OffChainInit ==
    /\ part \in {"archive", "compaction", "quotes", "fees", "polling", "discovery", "statuses",
                 "toml", "amounts", "config", "credentials", "deployments", "networks",
                 "drift", "fingerprints", "provenance", "calendar", "policy", "hashing"}
    /\ ArchiveInit /\ FirmQuoteInit
    /\ TransferInit
    /\ part # "polling" => poll.cfg = CHOOSE c \in PollConfigs : TRUE
    /\ OperatorInit
    /\ part # "config" => file.content = CHOOSE c \in Contents : ValidConfig(c)
    /\ BuildInit
    /\ prints.current = CHOOSE p \in Fingerprints : TRUE
    /\ part # "calendar" => calendar.day = Min(FirstDays)
    /\ part # "policy" => engine = <<>> /\ ~subject.requireKyc /\ ~subject.requireCompliance

ArchivePart ==
    /\ \/ part = "archive" /\ ArchiveNext
       \/ part = "compaction" /\ CompactionNext
    /\ UNCHANGED <<part, firmQuoteVars, transferVars, operatorVars, buildVars>>

QuotePart ==
    /\ \/ part \in {"quotes", "fees"} /\ QuoteTick
       \/ part = "quotes" /\ QuoteCacheNext
       \/ part = "fees" /\ FeeNext
    /\ UNCHANGED <<part, archiveVars, transferVars, operatorVars, buildVars>>

TransferPart ==
    /\ \/ part = "polling" /\ PollStep
       \/ part = "discovery" /\ DiscoveryStep
       \/ part = "statuses" /\ VendorNext
       \/ part = "toml" /\ TomlNext
       \/ part = "amounts" /\ AmountNext
    /\ UNCHANGED <<part, archiveVars, firmQuoteVars, operatorVars, buildVars>>

OperatorPart ==
    /\ \/ part = "config" /\ ConfigNext
       \/ part = "credentials" /\ CredentialsNext
       \/ part = "deployments" /\ DeployNext
       \/ part = "networks" /\ NetworkNext
       \/ CommandFault
    /\ UNCHANGED <<part, archiveVars, firmQuoteVars, transferVars, buildVars>>

BuildPart ==
    /\ \/ part = "drift" /\ DriftNext
       \/ part = "fingerprints" /\ FingerprintNext
       \/ part = "provenance" /\ ProvenanceNext
       \/ part = "calendar" /\ TurnCalendar
       \/ part = "policy" /\ PolicyNext
       \/ part = "hashing" /\ HashNext
    /\ UNCHANGED <<part, archiveVars, firmQuoteVars, transferVars, operatorVars>>

OffChainNext == ArchivePart \/ QuotePart \/ TransferPart \/ OperatorPart \/ BuildPart

OffChainSpec == OffChainInit /\ [][OffChainNext]_offChainVars

-----------------------------------------------------------------------------
(* Properties *)

\* The books kept off chain: compaction counts every transaction once or gives no
\* summary, no expired quote is served as live, and a fee report names every fee of its
\* period that none stamped far enough ahead has pushed out.
BooksSound == CompactionCountsAll /\ QuotesServedLive /\ FeeReportsComplete
=============================================================================
