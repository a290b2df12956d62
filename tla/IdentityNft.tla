----------------------------- MODULE IdentityNft -----------------------------
(***************************************************************************)
(* Names as assets that are sold, guarded, locked and recovered             *)
(* (identity_nft.rs; the signatures tx.rs 1915-2042 asks for).  Entries are *)
(* applied one at a time under write_lock.                                  *)
(***************************************************************************)
EXTENDS Soulbound

CONSTANTS
    Issuer, Reserved,
    OpenLimit,          \* IDENTITY_OPEN_PHASE_LIMIT
    Configs,            \* recovery configurations owners choose from
    Founders, FounderThreshold,
    Signers,            \* sets of accounts that sign together
    OfferExpiry,        \* OFFER_EXPIRY_EPOCHS
    MaxSeq

Recovery == [guardians : SUBSET Accounts, threshold : Nat, dest : Accounts, backstop : BOOLEAN]

ASSUME ConfigsValid ==
    /\ Configs \subseteq Recovery
    /\ \A c \in Configs : c.threshold \in 1..Cardinality(c.guardians)

VARIABLES
    offer,      \* name_pending:{name}
    count       \* identity_registered_count

nftVars == <<nft, held, offer, count>>

NftInit ==
    /\ nft = [n \in Names |-> NoOne] /\ held = {}
    /\ offer = [n \in Names |-> NoOne]
    /\ count = 0

Owns(a, n) == Minted(n) /\ nft[n].owner = a

\* put: the record and the reverse index.
PutNft(n, record) ==
    /\ nft' = [nft EXCEPT ![n] = record]
    /\ nameOwner' = [nameOwner EXCEPT ![n] = record.owner]

Mintable(n) == ~Minted(n) /\ nameOwner[n] = NoOne /\ n \notin active

Mint(n, to, minter) ==
    /\ n \in limit.names /\ Mintable(n)
    /\ minter = Issuer \/ (to = minter /\ n \notin Reserved /\ count < OpenLimit)
    /\ PutNft(n, [owner |-> to, free |-> TRUE, recovery |-> NoOne, seq |-> 0])
    /\ held' = held \cup {<<to, n>>}
    /\ count' = count + 1
    /\ UNCHANGED <<primary, active, offer, sbtVars>>

Transfer(n, from, to, e) ==
    /\ Entry(e) /\ Owns(from, n) /\ nft[n].free /\ from # to
    /\ offer' = [offer EXCEPT ![n] = [from |-> from, to |-> to, epoch |-> e]]
    /\ UNCHANGED <<registry, nft, held, count, sbtVars>>

\* What accepting finds wrong with the offer; the offer is deleted and nothing else.
Void(n, e) ==
    \/ e > offer[n].epoch + OfferExpiry
    \/ ~nft[n].free
    \/ nft[n].owner # offer[n].from

AcceptVoid(n, e) ==
    /\ Entry(e) /\ offer[n] # NoOne /\ Void(n, e)
    /\ offer' = [offer EXCEPT ![n] = NoOne]
    /\ UNCHANGED <<registry, nft, held, count, sbtVars>>

MoveHeld(n, from, to) == held' = (held \ {<<from, n>>}) \cup {<<to, n>>}

\* Mutant: the primary name is left alone.
PrimaryStays(n, from) == primary' = primary
\* The old holder's primary name is cleared when it is n.
DropPrimary(n, from) ==
    primary' = IF primary[from] = n THEN [primary EXCEPT ![from] = NoOne] ELSE primary

Accept(n, e) ==
    /\ Entry(e) /\ offer[n] # NoOne /\ ~Void(n, e)
    /\ LET from == offer[n].from
           to == offer[n].to
       IN /\ PutNft(n, [nft[n] EXCEPT !.owner = to, !.recovery = NoOne, !.free = TRUE])
          /\ MoveHeld(n, from, to)
          /\ DropPrimary(n, from)
    /\ offer' = [offer EXCEPT ![n] = NoOne]
    /\ StripHolderScoped(n)
    /\ own' = {t \in own : token[t].name # n}
    /\ UNCHANGED <<active, count>>

Reject(n) ==
    /\ offer[n] # NoOne
    /\ offer' = [offer EXCEPT ![n] = NoOne]
    /\ UNCHANGED <<registry, nft, held, count, sbtVars>>

SetPrimary(a, n) ==
    /\ Owns(a, n)
    /\ primary' = [primary EXCEPT ![a] = n]
    /\ UNCHANGED <<nameOwner, active, nftVars, sbtVars>>

\* Mutant: a locked name may be configured.
ConfigurableLocked(a, n) == Owns(a, n)
Configurable(a, n) == Owns(a, n) /\ nft[n].free

SetRecovery(a, n, c) ==
    /\ Configurable(a, n) /\ c \in limit.configs
    /\ PutNft(n, [nft[n] EXCEPT !.recovery = c])
    /\ UNCHANGED <<primary, active, held, offer, count, sbtVars>>

Lock(a, n) ==
    /\ Owns(a, n) /\ nft[n].recovery # NoOne
    /\ PutNft(n, [nft[n] EXCEPT !.free = FALSE])
    /\ UNCHANGED <<primary, active, held, offer, count, sbtVars>>

\* verify_recovery_authority: enough guardians signed, or enough founders.
Authorized(r, signers) ==
    \/ Cardinality(signers \cap r.guardians) >= r.threshold
    \/ r.backstop /\ Cardinality(signers \cap Founders) >= FounderThreshold

\* The entry names the sequence number seq and is signed by signers.
Loosens(n, seq, signers) ==
    /\ Minted(n) /\ nft[n].recovery # NoOne
    /\ Authorized(nft[n].recovery, signers)
    /\ nft[n].seq = seq /\ seq < MaxSeq

Unlock(n, seq, signers) ==
    /\ Loosens(n, seq, signers) /\ ~nft[n].free
    /\ PutNft(n, [nft[n] EXCEPT !.free = TRUE, !.seq = nft[n].seq + 1])
    /\ UNCHANGED <<primary, active, held, offer, count, sbtVars>>

DropOffer(n) == offer' = [offer EXCEPT ![n] = NoOne]

Recover(n, seq, signers) ==
    /\ Loosens(n, seq, signers)
    /\ LET from == nft[n].owner
           dest == nft[n].recovery.dest
       IN /\ PutNft(n, [nft[n] EXCEPT !.owner = dest, !.seq = nft[n].seq + 1])
          /\ IF dest = from THEN UNCHANGED <<held, primary, offer>>
             ELSE MoveHeld(n, from, dest) /\ DropPrimary(n, from) /\ DropOffer(n)
    /\ UNCHANGED <<active, count, sbtVars>>

SetBackstop(a, n, enabled) ==
    /\ Owns(a, n) /\ nft[n].recovery # NoOne
    /\ enabled => nft[n].free
    /\ PutNft(n, [nft[n] EXCEPT !.recovery.backstop = enabled])
    /\ UNCHANGED <<primary, active, held, offer, count, sbtVars>>

NftNext ==
    \/ \E n \in Names, a \in Accounts :
         \/ \E b \in Accounts : Mint(n, b, a)
         \/ \E b \in Accounts, e \in 0..MaxEpoch : Transfer(n, a, b, e)
         \/ SetPrimary(a, n) \/ Lock(a, n)
         \/ \E c \in Configs : SetRecovery(a, n, c)
         \/ \E enabled \in BOOLEAN : SetBackstop(a, n, enabled)
    \/ \E n \in Names :
         \/ Reject(n)
         \/ \E e \in 0..MaxEpoch : AcceptVoid(n, e) \/ Accept(n, e)
         \/ \E seq \in 0..MaxSeq, signers \in Signers :
              Unlock(n, seq, signers) \/ Recover(n, seq, signers)

\* A name that is minted has one holder, whichever record is asked: the NFT, the registry
\* name_owner that the gateway and the auctions read, the inventory name_held, the
\* account whose primary name it is and the account that offers it; and no auction of it
\* is under way.  Sales, recoveries and auctions of other names leave no record behind.
OneHolder ==
    /\ held = {h \in Accounts \X Names : Owns(h[1], h[2])}
    /\ \A n \in Names : Minted(n) => nameOwner[n] = nft[n].owner /\ n \notin active
    /\ \A n \in Names : offer[n] # NoOne => Owns(offer[n].from, n)
    /\ \A a \in Accounts, n \in Names : primary[a] = n /\ Minted(n) => Owns(a, n)

\* A locked name has a recovery path, its owner changes only to the destination pinned
\* before, and nothing of its recovery configuration changes but the backstop, which can
\* be dropped.
LockedIsPinned ==
    [][\A n \in Names :
         Minted(n) /\ ~nft[n].free =>
           /\ nft[n].recovery # NoOne
           /\ nft'[n].owner \in {nft[n].owner, nft[n].recovery.dest}
           /\ nft'[n].recovery \in {nft[n].recovery, [nft[n].recovery EXCEPT !.backstop = FALSE]}
      ]_nft
==============================================================================
