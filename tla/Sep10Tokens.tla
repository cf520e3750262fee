----------------------------- MODULE Sep10Tokens -----------------------------
(***************************************************************************)
(* SEP-10 tokens: the issuers' verification keys in the contract and the   *)
(* verification of a token (src/sep10_jwt.rs) with its replay protection.  *)
(* A ledger closes every LedgerSecs seconds; an entry whose time to live   *)
(* is over is gone.                                                        *)
(***************************************************************************)
EXTENDS Integers, FiniteSetsExt

CONSTANTS
    Tokens,       \* len, key, form (structure, encoding and algorithm are right),
                  \* exp, iat (zero: none), nbf (zero: none), jti, iss, sub
    Issuers, SigningKeys, NoKey,
    NoJti, LongJti, \* no jti claim; one of more than JTI_MAX_BYTES
    NoIssuer,     \* an iss claim that is missing, blank or has control characters
    NoSubject,    \* no or an empty sub claim
    Lengths, FirstMaxLen,           \* JWTMAXLEN: values set, the default
    Skews, FirstSkew, MaxSkew,      \* JWTSKEW: values set, the default, the limit
    MaxLifetime,  \* MAX_JWT_LIFETIME
    TtlBuffer,    \* JTI_TTL_BUFFER_LEDGERS
    LedgerSecs,
    MaxTokenLedger

ASSUME TokenConstants ==
    /\ {FirstSkew, MaxSkew, MaxLifetime, TtlBuffer, MaxTokenLedger} \subseteq Nat
    /\ LedgerSecs \in Nat \ {0}
    /\ MaxSkew <= TtlBuffer * LedgerSecs
    /\ FirstSkew <= MaxSkew
    /\ Skews \subseteq Nat
    /\ \A t \in Tokens : {t.exp, t.iat, t.nbf} \subseteq Nat

VARIABLES
    tokenLedger,
    sep10Key, sep10Old,  \* SEP10KEY and SEP10OLD by issuer
    jwtMaxLen, jwtSkew,
    jtis,                \* live until, by jti stored
    acceptances,         \* ghost: how often each token with a jti was accepted
    spentBy              \* ghost: by jti, the tokens whose verification stored it

tokenVars == <<tokenLedger, sep10Key, sep10Old, jwtMaxLen, jwtSkew, jtis, acceptances, spentBy>>

Jtis == {t.jti : t \in Tokens} \ {NoJti, LongJti}

TokenInit ==
    /\ tokenLedger = 1
    /\ sep10Key = [i \in Issuers |-> NoKey] /\ sep10Old = sep10Key
    /\ jwtMaxLen = FirstMaxLen /\ jwtSkew = FirstSkew
    /\ jtis = [j \in {} |-> 0]
    /\ acceptances = [t \in Tokens |-> 0]
    /\ spentBy = [j \in Jtis |-> {}]

Now == tokenLedger * LedgerSecs

-----------------------------------------------------------------------------
(* Administration; public keys of another length than 32 bytes are refused *)

SetSep10JwtVerifyingKey(i, k) ==
    /\ sep10Key' = [sep10Key EXCEPT ![i] = k]
    /\ UNCHANGED <<tokenLedger, sep10Old, jwtMaxLen, jwtSkew, jtis, acceptances, spentBy>>

\* The replaced key is kept under SEP10OLD, which no verification reads.
RotateSep10Key(i, k) ==
    /\ sep10Old' = IF sep10Key[i] = NoKey THEN sep10Old ELSE [sep10Old EXCEPT ![i] = sep10Key[i]]
    /\ sep10Key' = [sep10Key EXCEPT ![i] = k]
    /\ UNCHANGED <<tokenLedger, jwtMaxLen, jwtSkew, jtis, acceptances, spentBy>>

\* Lengths are within MIN_JWT_MAX_LEN and MAX_JWT_MAX_LEN.
SetJwtMaxLen(n) ==
    /\ jwtMaxLen' = n
    /\ UNCHANGED <<tokenLedger, sep10Key, sep10Old, jwtSkew, jtis, acceptances, spentBy>>

SetJwtSkew(s) ==
    /\ s <= MaxSkew
    /\ jwtSkew' = s
    /\ UNCHANGED <<tokenLedger, sep10Key, sep10Old, jwtMaxLen, jtis, acceptances, spentBy>>

\* purge_expired_jtis prunes JTIIDX, which nothing writes; the entries end with
\* their time to live.
CloseTokenLedger ==
    /\ tokenLedger < MaxTokenLedger
    /\ tokenLedger' = tokenLedger + 1
    /\ jtis' = LET live == {j \in DOMAIN jtis : jtis[j] >= tokenLedger'}
               IN  [j \in live |-> jtis[j]]
    /\ UNCHANGED <<sep10Key, sep10Old, jwtMaxLen, jwtSkew, acceptances, spentBy>>

-----------------------------------------------------------------------------
(* verify_sep10_jwt *)

WellFormed(t) == t.len \in 1..jwtMaxLen /\ t.form

WithinTimes(t) ==
    /\ t.exp + jwtSkew > Now
    /\ t.iat # 0 /\ t.iat <= Now + jwtSkew
    /\ t.exp - t.iat \in 0..MaxLifetime
    /\ t.nbf <= Now + jwtSkew

Unspent(t) == t.jti # LongJti /\ t.jti \notin DOMAIN jtis

\* iss, then sub, and the subject that is asked for unless it is NoSubject.
Identified(t, expected) ==
    t.iss # NoIssuer /\ t.sub # NoSubject /\ expected \in {NoSubject, t.sub}

Verifies(t, key, expected) ==
    WellFormed(t) /\ t.key = key /\ WithinTimes(t) /\ Unspent(t) /\ Identified(t, expected)

\* A bug AcceptedOnce must catch: an entry that lives exactly as long as its token.
TtlWithoutBuffer(t) == Max({t.exp - Now, 0}) \div LedgerSecs

JtiTtl(t) == Max({Max({t.exp - Now, 0}) \div LedgerSecs + TtlBuffer, 1})

\* The jti is stored last, after every check.
SpendJti(t) ==
    IF t.jti = NoJti THEN UNCHANGED <<jtis, spentBy>>
    ELSE /\ jtis' = [j \in DOMAIN jtis \cup {t.jti} |->
                       IF j = t.jti THEN tokenLedger + JtiTtl(t) ELSE jtis[j]]
         /\ spentBy' = [spentBy EXCEPT ![t.jti] = @ \cup {t}]

Accepted(t) == IF t.jti = NoJti THEN acceptances ELSE [acceptances EXCEPT ![t] = @ + 1]

\* verify_sep10_token (no subject), verify_sep10_token_for_subject and
\* verify_sep10_token_matches_attestor, which panic when it does not verify.
VerifySep10Token(t, i, expected) ==
    /\ sep10Key[i] # NoKey
    /\ Verifies(t, sep10Key[i], expected)
    /\ SpendJti(t)
    /\ acceptances' = Accepted(t)
    /\ UNCHANGED <<tokenLedger, sep10Key, sep10Old, jwtMaxLen, jwtSkew>>

\* verify_sep10_jwt_with_issuer compares the iss claim after the base verification
\* has stored the jti; its caller gets an error and need not panic.
VerifyWithIssuer(t, i, issuer) ==
    /\ sep10Key[i] # NoKey
    /\ Verifies(t, sep10Key[i], NoSubject)
    /\ SpendJti(t)
    /\ acceptances' = IF t.iss = issuer THEN Accepted(t) ELSE acceptances
    /\ UNCHANGED <<tokenLedger, sep10Key, sep10Old, jwtMaxLen, jwtSkew>>

TokenNext ==
    \/ CloseTokenLedger
    \/ \E n \in Lengths : SetJwtMaxLen(n)
    \/ \E s \in Skews : SetJwtSkew(s)
    \/ \E i \in Issuers :
          \/ \E k \in SigningKeys : SetSep10JwtVerifyingKey(i, k) \/ RotateSep10Key(i, k)
          \/ \E t \in Tokens :
                \/ \E expected \in {u.sub : u \in Tokens} \cup {NoSubject} :
                      VerifySep10Token(t, i, expected)
                \/ \E issuer \in {u.iss : u \in Tokens} \ {NoIssuer} : VerifyWithIssuer(t, i, issuer)

TokenSpec == TokenInit /\ [][TokenNext]_tokenVars

-----------------------------------------------------------------------------
(* Properties *)

\* A token with a jti is accepted at most once, whatever becomes of the keys, the
\* skew and the stored entry meanwhile: no entry ends while its token would still
\* be accepted, under any skew the administrator may set.  A jti is only stored
\* for a token that verified with it.
AcceptedOnce ==
    /\ \A t \in Tokens : t.jti # NoJti => acceptances[t] <= 1
    /\ \A j \in Jtis : \A t \in spentBy[j] :
          t.exp + MaxSkew > Now => j \in DOMAIN jtis
    /\ \A j \in DOMAIN jtis : spentBy[j] # {}
=============================================================================
