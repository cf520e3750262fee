---------------------------- MODULE BuildRecords ----------------------------
(***************************************************************************)
(* What is recorded and compared of builds and deployments: drift of a     *)
(* deployment from its specification (src/deployment_drift.rs), the        *)
(* fingerprint of an environment and its date (src/env_fingerprint.rs),    *)
(* the provenance of artifacts (src/artifact_provenance.rs), the           *)
(* compliance policy engine (src/compliance_policy.rs), and the inputs of  *)
(* the contract's hashes (src/deterministic_hash.rs).                      *)
(***************************************************************************)
EXTENDS Integers, Sequences, SequencesExt, FiniteSets, FiniteSetsExt

CONSTANTS
    Admins,          \* addresses: text as written, and what it normalises to
    ConfigKeys, ConfigValues,
    Fingerprints,    \* rustc, wasm, version, features (sequences), files (hash by path)
    Artifacts, Hashes, Revisions, Repositories, Builds,
    MaxProvenance,
    FirstDays,       \* days since 1970 from which dates are followed
    MaxDays,         \* for how many days
    Scores,
    MaxRules,
    HashedFields,    \* CanonicalField values: kind; bytes, word, flag or items
    HashedSubjects,  \* addresses, each as the bytes of its XDR
    HashedData,      \* payload data
    MaxPayloadSize,
    MaxFields,
    Absent

VARIABLES
    spec,        \* DeploymentSpec
    snapshot,    \* DeploymentSnapshot of the deployment as it is now
    provenance,  \* ProvenanceStore; ghosts: what each record was entered as and told
    prints,      \* fingerprint of the environment now, and the baseline
    calendar,    \* a day, and the date a calendar that is turned daily shows
    engine,      \* rules of a PolicyEngine
    subject,     \* PolicyContext
    hashed       \* two values that are hashed: the function, and its arguments

buildVars == <<spec, snapshot, provenance, prints, calendar, engine, subject, hashed>>

-----------------------------------------------------------------------------
(* detect_drift *)

Severities3 == <<"Low", "Medium", "Critical">>
Rank(severity) == CHOOSE i \in DOMAIN Severities3 : Severities3[i] = severity
Drift(field, severity) == [field |-> field, severity |-> severity]

\* Vec::iter().find by key; entries of a configuration may repeat a key.
FirstEntry(entries, key) == entries[Min({i \in DOMAIN entries : entries[i].key = key})]
KeysOf(entries) == {e.key : e \in ToSet(entries)}

\* Addresses are compared trimmed and in capitals.
AdminDrift(expected, observed) ==
    CASE expected # Absent /\ observed # Absent ->
           IF expected.norm # observed.norm THEN <<Drift("admin", "Critical")>> ELSE <<>>
      [] expected # Absent /\ observed = Absent -> <<Drift("admin", "Critical")>>
      [] expected = Absent /\ observed # Absent -> <<Drift("admin", "Medium")>>
      [] OTHER -> <<>>

\* A bug RecordsTell must catch: keys that only the deployment has are not looked for.
ConfigDriftOfSpec(expected, observed) ==
    LET missing(e) == \/ e.key \notin KeysOf(observed)
                      \/ FirstEntry(observed, e.key).value # e.value
    IN  [i \in DOMAIN SelectSeq(expected, missing) |-> Drift(SelectSeq(expected, missing)[i].key, "Medium")]

ConfigDrift(expected, observed) ==
    LET missing(e) == \/ e.key \notin KeysOf(observed)
                      \/ FirstEntry(observed, e.key).value # e.value
        extra(e) == e.key \notin KeysOf(expected)
        items(es, severity) == [i \in DOMAIN es |-> Drift(es[i].key, severity)]
    IN  items(SelectSeq(expected, missing), "Medium") \o items(SelectSeq(observed, extra), "Low")

\* The report's items; sort_by is stable and puts the critical ones first.
DetectDrift(s, o) ==
    LET items == (IF s.version # o.version THEN <<Drift("version", "Critical")>> ELSE <<>>)
                 \o (IF s.network # o.network THEN <<Drift("network", "Critical")>> ELSE <<>>)
                 \o AdminDrift(s.admin, o.admin) \o ConfigDrift(s.config, o.config)
        of(severity) == SelectSeq(items, LAMBDA i : i.severity = severity)
    IN  of("Critical") \o of("Medium") \o of("Low")

ItemsAtOrAbove(items, severity) == SelectSeq(items, LAMBDA i : Rank(i.severity) >= Rank(severity))

\* Somebody changes the deployment, or the specification follows it.
Upgrade(v) == snapshot' = [snapshot EXCEPT !.version = v] /\ UNCHANGED spec
MoveNetwork(n) == snapshot' = [snapshot EXCEPT !.network = n] /\ UNCHANGED spec
ChangeAdmin(a) == snapshot' = [snapshot EXCEPT !.admin = a] /\ UNCHANGED spec
ExpectAdmin(a) == spec' = [spec EXCEPT !.admin = a] /\ UNCHANGED snapshot
SetConfig(k, v) ==
    /\ Len(snapshot.config) < 2
    /\ snapshot' = [snapshot EXCEPT !.config = Append(@, [key |-> k, value |-> v])]
    /\ UNCHANGED spec
ExpectConfig(k, v) ==
    /\ Len(spec.config) < 2
    /\ spec' = [spec EXCEPT !.config = Append(@, [key |-> k, value |-> v])]
    /\ UNCHANGED snapshot

DriftNext ==
    /\ \/ \E v \in {"v1", "v2"} : Upgrade(v)
       \/ \E n \in {"main", "test"} : MoveNetwork(n)
       \/ \E a \in Admins \cup {Absent} : ChangeAdmin(a) \/ ExpectAdmin(a)
       \/ \E k \in ConfigKeys, v \in ConfigValues : SetConfig(k, v) \/ ExpectConfig(k, v)
    /\ UNCHANGED <<provenance, prints, calendar, engine, subject, hashed>>

-----------------------------------------------------------------------------
(* EnvironmentFingerprint::diff: fields, features in any order, file hashes *)

FingerprintDiff(current, baseline) ==
    {f \in {"rustc", "wasm", "version"} : current[f] # baseline[f]}
    \cup {f \in {"features"} : SortSeq(current[f], <) # SortSeq(baseline[f], <)}
    \cup {p \in DOMAIN baseline.files \cup DOMAIN current.files :
            \/ p \notin DOMAIN current.files \/ p \notin DOMAIN baseline.files
            \/ current.files[p] # baseline.files[p]}

\* collect: tools that are not found are Absent, features come in any order, and a
\* directory that cannot be read leaves no file.
Collect(p) ==
    /\ prints' = [prints EXCEPT !.current = p]
    /\ UNCHANGED <<spec, snapshot, provenance, calendar, engine, subject, hashed>>

\* to_json, and from_json later: the fingerprint is the baseline.
SaveBaseline ==
    /\ prints' = [prints EXCEPT !.baseline = prints.current]
    /\ UNCHANGED <<spec, snapshot, provenance, calendar, engine, subject, hashed>>

FingerprintNext == (\E p \in Fingerprints : Collect(p)) \/ SaveBaseline

-----------------------------------------------------------------------------
(* days_to_ymd *)

IsLeap(y) == (y % 4 = 0 /\ y % 100 # 0) \/ y % 400 = 0
MonthDays(y) == <<31, IF IsLeap(y) THEN 29 ELSE 28, 31, 30, 31, 30, 31, 31, 30, 31, 30, 31>>

DaysOfYear(y) == IF IsLeap(y) THEN 366 ELSE 365

\* Whole years, of which some have one day more, then whole months are taken off the days.
LastYear == 2200
DaysBefore == [y \in 1970..LastYear |->
    365 * (y - 1970) + Cardinality({z \in 1970..(y - 1) : DaysOfYear(z) = 366})]
DaysToYmd(days) ==
    LET year == Max({y \in 1970..LastYear : DaysBefore[y] <= days})
        rest == days - DaysBefore[year]
        before(m) == MapThenSumSet(LAMBDA i : MonthDays(year)[i], 1..(m - 1))
        month == Max({m \in 1..12 : before(m) <= rest})
    IN  <<year, month, rest - before(month) + 1>>

TurnCalendar ==
    /\ calendar.turned < MaxDays
    /\ LET y == calendar.date[1] m == calendar.date[2] d == calendar.date[3]
       IN  calendar' = [day |-> calendar.day + 1, turned |-> calendar.turned + 1,
                        date |-> CASE d < MonthDays(y)[m] -> <<y, m, d + 1>>
                                   [] d = MonthDays(y)[m] /\ m < 12 -> <<y, m + 1, 1>>
                                   [] OTHER -> <<y + 1, 1, 1>>]
    /\ UNCHANGED <<spec, snapshot, provenance, prints, engine, subject, hashed>>

-----------------------------------------------------------------------------
(* ProvenanceStore *)

RecordArtifact(name, hash) ==
    /\ Len(provenance.records) < MaxProvenance
    /\ name # "" /\ hash \notin {"", "blank"}
    /\ provenance' =
         [records |-> Append(provenance.records,
            [id |-> provenance.next, name |-> name, hash |-> hash, revision |-> Absent,
             repository |-> Absent, build |-> Absent]),
          next |-> provenance.next + 1,
          entered |-> Append(provenance.entered, <<name, hash>>),
          told |-> Append(provenance.told, {})]
    /\ UNCHANGED <<spec, snapshot, prints, calendar, engine, subject, hashed>>

\* A bug RecordsTell must catch: what an update does not give is cleared.
Overwritten(old, new) == new

Merged(old, new) == IF new = Absent THEN old ELSE new

UpdateArtifact(id, revision, repository, build) ==
    /\ repository # "credentials"
    /\ id \in {r.id : r \in ToSet(provenance.records)}
    /\ LET i == Min({j \in DOMAIN provenance.records : provenance.records[j].id = id})
       IN  provenance' = [provenance EXCEPT
             !.records[i].revision = Merged(@, revision), !.records[i].build = Merged(@, build),
             !.records[i].repository = Merged(@, repository),
             !.told[i] = @ \cup {f \in {"revision", "build", "repository"} :
                Absent # (CASE f = "revision" -> revision [] f = "build" -> build
                            [] OTHER -> repository)}]
    /\ UNCHANGED <<spec, snapshot, prints, calendar, engine, subject, hashed>>

ProvenanceNext ==
    \/ \E name \in Artifacts, hash \in Hashes : RecordArtifact(name, hash)
    \/ \E id \in 0..MaxProvenance, revision \in Revisions \cup {Absent},
         repository \in Repositories \cup {Absent}, build \in Builds \cup {Absent} :
           UpdateArtifact(id, revision, repository, build)

IsComplete(r) == Absent \notin {r.revision, r.repository, r.build}

\* check_field and is_passing: what is expected must be there and the same.
FieldPasses(expected, actual) == expected = Absent \/ expected = actual
Verify(r, hash, revision, build) ==
    FieldPasses(hash, r.hash) /\ FieldPasses(revision, r.revision) /\ FieldPasses(build, r.build)

ByName(name) == SelectSeq(provenance.records, LAMBDA r : r.name = name)

-----------------------------------------------------------------------------
(* PolicyEngine *)

KycStates == {"NotSubmitted", "Pending", "Approved", "Rejected", "Expired", "Reopened"}

\* KycApprovedRule, ComplianceCheckPassedRule and MinimumScoreRule; Absent: allowed.
Denial(rule, c) ==
    CASE rule = "kyc" ->
           IF ~c.requireKyc \/ c.kyc = "Approved" THEN Absent
           ELSE IF c.kyc = "Reopened" THEN "Pending" ELSE c.kyc
      [] rule = "check" -> IF c.requireCompliance /\ ~c.checked THEN "CheckFailed" ELSE Absent
      [] rule = "score" ->
           LET actual == IF c.score = Absent THEN 0 ELSE c.score
           IN  IF ~c.requireCompliance \/ c.minimum = Absent THEN Absent
               ELSE IF actual < c.minimum THEN "ScoreBelowMinimum" ELSE Absent

Standard == <<"kyc", "check", "score">>

\* evaluate stops at the first denial; evaluate_all collects them.
Evaluate(rules, c) ==
    LET denying == {i \in DOMAIN rules : Denial(rules[i], c) # Absent}
    IN  IF denying = {} THEN Absent ELSE Denial(rules[Min(denying)], c)
EvaluateAll(rules, c) ==
    SelectSeq([i \in DOMAIN rules |-> Denial(rules[i], c)], LAMBDA d : d # Absent)

AddRule(rule) ==
    /\ Len(engine) < MaxRules
    /\ engine' = Append(engine, rule)
    /\ UNCHANGED <<spec, snapshot, provenance, prints, calendar, subject, hashed>>

\* The subject's record, its check or the global minimum changes.
ChangeSubject(c) ==
    /\ subject' = c
    /\ UNCHANGED <<spec, snapshot, provenance, prints, calendar, engine, hashed>>

PolicyNext ==
    \/ \E rule \in ToSet(Standard) : AddRule(rule)
    \/ \E kyc \in KycStates : ChangeSubject([subject EXCEPT !.kyc = kyc])
    \/ \E checked \in BOOLEAN, score \in Scores \cup {Absent} :
          ChangeSubject([subject EXCEPT !.checked = checked, !.score = score])
    \/ \E minimum \in Scores \cup {Absent} : ChangeSubject([subject EXCEPT !.minimum = minimum])

-----------------------------------------------------------------------------
(* Hash inputs.  A byte is a number; a length of four bytes is one number, an  *)
(* integer of eight bytes two.  SHA-256 itself is left out.                    *)

Prefixed(bytes) == <<Len(bytes)>> \o bytes
PrefixedAll(list) == FlattenSeq([i \in DOMAIN list |-> Prefixed(list[i])])

\* A bug RecordsTell must catch: a list is written without its length.
ListUncounted(list) == <<6>> \o PrefixedAll(list)

CountedList(list) == <<6, Len(list)>> \o PrefixedAll(list)

\* The tag, the length and the content of a CanonicalField.
EncodeField(f) ==
    CASE f.kind = "Bytes" -> <<0>> \o Prefixed(f.bytes)
      [] f.kind = "U64" -> <<1>> \o Prefixed(<<0, f.word>>)
      [] f.kind = "U32" -> <<2>> \o Prefixed(<<f.word>>)
      [] f.kind = "Bool" -> <<3, 1, IF f.flag THEN 1 ELSE 0>>
      [] f.kind = "None" -> <<4>>
      [] f.kind = "Some" -> <<5>> \o Prefixed(f.bytes)
      [] f.kind = "List" -> CountedList(f.items)

Canonical(fields) == [function |-> "canonical", args |-> fields]
AttestationPayloadDomain == <<97>>

\* compute_canonical_hash, make_storage_key and compute_payload_hash.
HashInput(h) ==
    CASE h.function = "canonical" -> FlattenSeq([i \in DOMAIN h.args |-> EncodeField(h.args[i])])
      [] h.function = "key" -> PrefixedAll(h.args)
      [] h.function = "payload" -> AttestationPayloadDomain \o h.args[1] \o <<0, h.args[2]>> \o h.args[3]

Rehash(i, h) ==
    /\ hashed' = [hashed EXCEPT ![i] = h]
    /\ UNCHANGED <<spec, snapshot, provenance, prints, calendar, engine, subject>>

\* One of the two is given another field, or a part of a key; or is a payload, whose
\* data validate_payload_data bounds.
HashNext ==
    \E i \in 1..2 :
       LET h == hashed[i]
           longer(function, part) ==
              /\ h.function = function \/ h.args = <<>>
              /\ Len(h.args) < MaxFields
              /\ Rehash(i, [function |-> function, args |-> Append(h.args, part)])
       IN  \/ \E f \in HashedFields : longer("canonical", f)
           \/ \E data \in HashedData : longer("key", data)
           \/ \E a \in HashedSubjects, time \in {0, 1}, data \in HashedData :
                 /\ h.args = <<>> /\ Len(data) \in 1..MaxPayloadSize
                 /\ Rehash(i, [function |-> "payload", args |-> <<a, time, data>>])

BuildInit ==
    /\ spec = [version |-> "v1", network |-> "main", admin |-> Absent, config |-> <<>>]
    /\ snapshot = spec
    /\ provenance = [records |-> <<>>, next |-> 0, entered |-> <<>>, told |-> <<>>]
    /\ \E p \in Fingerprints : prints = [current |-> p, baseline |-> p]
    /\ \E d \in FirstDays : calendar = [day |-> d, date |-> DaysToYmd(d), turned |-> 0]
    /\ engine \in {<<>>, Standard}
    /\ subject \in [kyc : {"NotSubmitted"}, checked : {FALSE}, minimum : {Absent}, score : {Absent},
                    requireKyc : BOOLEAN, requireCompliance : BOOLEAN]
    /\ hashed = <<Canonical(<<>>), Canonical(<<>>)>>
-----------------------------------------------------------------------------
(* Properties *)

\* A report is clean exactly if nothing differs; it lists what differs, the worst
\* first, with exactly the critical items left by asking for critical ones.
DriftReported ==
    LET items == DetectDrift(spec, snapshot)
        norm(a) == IF a = Absent THEN Absent ELSE a.norm
        agrees(k) == k \in KeysOf(snapshot.config)
                     /\ \A e \in ToSet(spec.config) : e.key = k => e.value = FirstEntry(snapshot.config, k).value
    IN  /\ items = <<>> <=>
             /\ <<spec.version, spec.network, norm(spec.admin)>>
                  = <<snapshot.version, snapshot.network, norm(snapshot.admin)>>
             /\ KeysOf(spec.config) = KeysOf(snapshot.config)
             /\ \A k \in KeysOf(spec.config) : agrees(k)
        /\ \A i, j \in DOMAIN items : i < j => Rank(items[i].severity) >= Rank(items[j].severity)
        /\ ItemsAtOrAbove(items, "Critical") = SubSeq(items, 1,
             Cardinality({i \in DOMAIN items : items[i].severity = "Critical"}))

\* Turning the calendar day by day shows the dates that days_to_ymd computes.
DatesFollow == calendar.turned > 0 => DaysToYmd(calendar.day) = calendar.date

\* Records keep their id, name and hash whatever is added to them later; what has
\* been told of a record is not taken back by telling something else; and it
\* verifies against what it says and against nothing else.
ProvenanceKept ==
    /\ \A i \in DOMAIN provenance.records :
          LET r == provenance.records[i] IN
          /\ r.id = i - 1 /\ <<r.name, r.hash>> = provenance.entered[i]
          /\ \A f \in provenance.told[i] : r[f] # Absent
          /\ r \in ToSet(ByName(r.name))
          /\ Verify(r, r.hash, r.revision, r.build)
          /\ \A hash \in Hashes : hash # r.hash => ~Verify(r, hash, Absent, Absent)
          /\ IsComplete(r) => \A v \in Revisions : Verify(r, r.hash, v, r.build) <=> v = r.revision

\* Equal fingerprints are those that differ in the order of features at most, and a
\* comparison names the same fields both ways.
FingerprintsAgree ==
    LET x == prints.current
        y == prints.baseline
        same == /\ <<x.rustc, x.wasm, x.version, x.files>> = <<y.rustc, y.wasm, y.version, y.files>>
                /\ Len(x.features) = Len(y.features) /\ ToSet(x.features) = ToSet(y.features)
    IN  /\ FingerprintDiff(x, y) = {} <=> same
        /\ FingerprintDiff(x, y) = FingerprintDiff(y, x)

\* The first denial is the one evaluate returns; more rules and stricter demands never
\* allow what was denied; the standard engine allows exactly what both demands allow.
PoliciesStrict ==
    LET denial == Evaluate(engine, subject)
        all == EvaluateAll(engine, subject)
        strict == [subject EXCEPT !.requireKyc = TRUE, !.requireCompliance = TRUE]
    IN  /\ denial = IF all = <<>> THEN Absent ELSE all[1]
        /\ denial # Absent => \A rule \in ToSet(Standard) : Evaluate(Append(engine, rule), subject) = denial
        /\ denial # Absent => Evaluate(engine, strict) # Absent
        /\ Evaluate(Standard, strict) = Absent <=>
             /\ subject.kyc = "Approved" /\ subject.checked
             /\ subject.minimum = Absent \/ subject.minimum = 0
                \/ (subject.score # Absent /\ subject.score >= subject.minimum)

\* Values that differ are hashed from different bytes: fields and parts do not run into
\* one another, and an attestation's payload is never taken for anything else.
HashInputsDistinct ==
    LET x == hashed[1]
        y == hashed[2]
    IN  HashInput(x) = HashInput(y) =>
          x = y \/ {x.function, y.function} = {"canonical", "key"}

\* What is recorded of builds, deployments and compliance says what happened.
RecordsTell ==
    /\ DriftReported /\ FingerprintsAgree /\ DatesFollow /\ ProvenanceKept /\ PoliciesStrict
    /\ HashInputsDistinct
=============================================================================
