------------------------------ MODULE Soulbound ------------------------------
(***************************************************************************)
(* Credentials bound to a name (soulbound.rs).  The index sbt_pending is    *)
(* written and never read; it is left out.                                  *)
(***************************************************************************)
EXTENDS NameState

CONSTANTS
    TokenIds, Issuers,
    Tail        \* what rsplit(':') leaves of a token id: the part after its last colon

ASSUME TailsAreIds == Tail \in [TokenIds -> TokenIds]

VARIABLES
    token,      \* sbt:{token_id}
    on,         \* sbt_on:{name}:{token_id}
    own         \* tokens the present holder of their name has accepted (not in the code)

sbtVars == <<token, on, own>>

SbtInit ==
    /\ token = [t \in TokenIds |-> NoOne]
    /\ on = {} /\ own = {}

SbtIssue(t, n, issuer, class) ==
    /\ t \in limit.tokens /\ token[t] = NoOne /\ Minted(n)
    /\ token' = [token EXCEPT ![t] =
         [name |-> n, issuer |-> issuer, class |-> class, accepted |-> FALSE,
          revoked |-> FALSE, stripped |-> FALSE]]
    /\ UNCHANGED <<on, own>>

SbtAccept(t, a) ==
    /\ token[t] # NoOne /\ ~token[t].accepted
    /\ Minted(token[t].name) /\ nft[token[t].name].owner = a
    /\ token' = [token EXCEPT ![t].accepted = TRUE]
    /\ on' = on \cup {<<token[t].name, t>>} /\ own' = own \cup {t}

SbtReject(t, a) ==
    /\ token[t] # NoOne
    /\ a \in {nft[token[t].name].owner, token[t].issuer}
    /\ token' = [token EXCEPT ![t] = NoOne]
    /\ on' = on \ {<<token[t].name, t>>} /\ own' = own \ {t}

SbtRevoke(t, a) ==
    /\ token[t] # NoOne /\ token[t].issuer = a
    /\ token' = [token EXCEPT ![t].revoked = TRUE]
    /\ on' = on \ {<<token[t].name, t>>}
    /\ UNCHANGED own

\* Mutant: tokens of both classes are looked at, and the class the wrong way round.
StrippedProvenance(n) ==
    {t \in {Tail[u] : u \in {v \in TokenIds : <<n, v>> \in on}} :
        token[t] # NoOne /\ token[t].class = "provenance"}
\* The tokens strip_holder_scoped finds: ids are read back from the keys of the index.
StrippedOf(n) ==
    {t \in {Tail[u] : u \in {v \in TokenIds : <<n, v>> \in on}} :
        token[t] # NoOne /\ token[t].class = "holder_scoped"}

StripHolderScoped(n) ==
    /\ token' = [t \in TokenIds |->
         IF t \in StrippedOf(n) THEN [token[t] EXCEPT !.stripped = TRUE] ELSE token[t]]
    /\ on' = on \ {<<n, t>> : t \in StrippedOf(n)}

SbtNext ==
    \E t \in TokenIds, a \in Accounts :
      \/ a \in Issuers /\ \E n \in Names, class \in {"holder_scoped", "provenance"} : SbtIssue(t, n, a, class)
      \/ SbtAccept(t, a)
      \/ SbtReject(t, a)
      \/ SbtRevoke(t, a)

\* A holder-scoped credential that is active on a name was accepted by its present
\* holder: no sale hands it on (strip_holder_scoped), recovery keeps it, and neither
\* brings one back.  Ids with a colon are read back wrongly and are excepted.
CredentialsAreTheHolders ==
    \A n \in Names, t \in TokenIds :
      <<n, t>> \in on =>
        /\ token[t] # NoOne /\ token[t].accepted /\ token[t].name = n
        /\ Tail[t] = t /\ token[t].class = "holder_scoped" => t \in own
==============================================================================
