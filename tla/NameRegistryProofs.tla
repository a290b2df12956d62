------------------------- MODULE NameRegistryProofs -------------------------
(***************************************************************************)
(* For any accounts, names, items, credentials and bounds, and with stops   *)
(* inside the handlers of auctions: a minted name has one holder, a locked  *)
(* name is pinned, and credentials stay with the holder who accepted them.  *)
(***************************************************************************)
EXTENDS NameRegistry, TLAPS

USE AuctionAmounts, BiddersAreAccounts, LotsApart, TailsAreIds, ConfigsValid, NoOneIsNone

HeldIsOwned ==
    /\ held \subseteq Accounts \X Names
    /\ \A a \in Accounts, n \in Names : <<a, n>> \in held <=> Owns(a, n)

RegistryIsOwners ==
    \A n \in Names : Minted(n) => nameOwner[n] = nft[n].owner /\ n \notin active

OffersAreOwners ==
    \A n \in Names : offer[n] # NoOne => Owns(offer[n].from, n) /\ offer[n].to # offer[n].from

\* An account's primary name belongs to somebody, and to that account when it is minted.
PrimariesOwned ==
    \A a \in Accounts, n \in Names : primary[a] = n =>
        nameOwner[n] # NoOne /\ (Minted(n) => Owns(a, n))

\* An auction of a name keeps it from being minted, by the mark or by its winner.
AuctionsKeep ==
    \A id \in Ids : Open(id) /\ id[1] \in Names =>
        ~Minted(id[1]) /\ (id[1] \in active \/ nameOwner[id[1]] # NoOne)

LocksGuarded == \A n \in Names : Minted(n) /\ ~nft[n].free => nft[n].recovery # NoOne

IInv == /\ TypeOK /\ HeldIsOwned /\ RegistryIsOwners /\ OffersAreOwners
        /\ PrimariesOwned /\ AuctionsKeep /\ LocksGuarded /\ CredentialsAreTheHolders
NInv == /\ HeldIsOwned /\ RegistryIsOwners /\ OffersAreOwners
        /\ PrimariesOwned /\ AuctionsKeep /\ LocksGuarded
------------------------------------------------------------------------------
\* The pairs of the inventory are the pairs of account and name owned.
LEMMA HeldPairs == HeldIsOwned <=> held = {h \in Accounts \X Names : Owns(h[1], h[2])}
<1> DEFINE S == {h \in Accounts \X Names : Owns(h[1], h[2])}
<1>1. ASSUME held = S PROVE HeldIsOwned
  BY <1>1 DEF HeldIsOwned
<1>2. ASSUME HeldIsOwned PROVE held = S
  <2>1. ASSUME NEW h \in held PROVE h \in S
    BY <1>2, <2>1 DEF HeldIsOwned
  <2>2. ASSUME NEW h \in S PROVE h \in held
    BY <1>2, <2>2 DEF HeldIsOwned
  <2> QED BY <2>1, <2>2
<1> QED BY <1>1, <1>2

\* The invariant gives the property the runs check.
LEMMA InvIsOneHolder == IInv => OneHolder
BY HeldPairs DEF IInv, OneHolder, RegistryIsOwners, OffersAreOwners, PrimariesOwned

\* A name that is minted is owned by an account and has no auction.
LEMMA MintedIsOwned ==
    ASSUME IInv, NEW n \in Names, Minted(n)
    PROVE  nft[n] \in Nft /\ nft[n].owner \in Accounts /\ nameOwner[n] = nft[n].owner
           /\ nameOwner[n] # NoOne
BY DEF IInv, TypeOK, Nft, Minted, RegistryIsOwners

\* An empty store satisfies the invariant.
LEMMA Initially == Init => IInv
<1> SUFFICES ASSUME Init PROVE IInv
  OBVIOUS
<1> USE DEF Init, AuctionInit, NftInit, SbtInit
<1>1. TypeOK
  BY DEF TypeOK
<1>2. HeldIsOwned /\ RegistryIsOwners /\ OffersAreOwners /\ LocksGuarded
  BY DEF HeldIsOwned, RegistryIsOwners, OffersAreOwners, LocksGuarded, Minted, Owns
<1>3. PrimariesOwned
  BY DEF PrimariesOwned
<1>4. AuctionsKeep
  BY DEF AuctionsKeep, Open
<1>5. CredentialsAreTheHolders
  BY DEF CredentialsAreTheHolders
<1> QED BY <1>1, <1>2, <1>3, <1>4, <1>5 DEF IInv
------------------------------------------------------------------------------
(* Steps of the identity NFTs *)

\* put with the owner the name already has: SetRecovery, Lock, Unlock, SetBackstop, and a
\* recovery to the owner.
LEMMA SameOwner ==
    ASSUME IInv, NEW n \in Names, Minted(n), NEW r \in Nft, r.owner = nft[n].owner,
           ~r.free => r.recovery # NoOne,
           PutNft(n, r), UNCHANGED <<primary, active, held, offer, sbtVars, auction>>
    PROVE  IInv'
<1>1. nft' \in [Names -> Nft \cup {NoOne}] /\ nameOwner' = nameOwner
  BY MintedIsOwned DEF IInv, TypeOK, PutNft
<1>2. \A m \in Names : /\ Minted(m)' <=> Minted(m)
                       /\ \A a \in Accounts : Owns(a, m)' <=> Owns(a, m)
                       /\ nft'[m].owner = nft[m].owner
  BY DEF IInv, TypeOK, PutNft, Minted, Owns
<1>3. TypeOK'
  BY <1>1 DEF IInv, TypeOK, sbtVars
<1>4. HeldIsOwned' /\ RegistryIsOwners'
  BY <1>1, <1>2 DEF IInv, HeldIsOwned, RegistryIsOwners
<1>5. OffersAreOwners'
  BY <1>2 DEF IInv, TypeOK, OffersAreOwners, Offer
<1>6. PrimariesOwned'
  BY <1>1, <1>2 DEF IInv, PrimariesOwned
<1>7. AuctionsKeep'
  BY <1>1, <1>2 DEF IInv, AuctionsKeep, Open
<1>8. LocksGuarded'
  BY DEF IInv, TypeOK, LocksGuarded, PutNft, Minted
<1>9. CredentialsAreTheHolders'
  BY DEF IInv, CredentialsAreTheHolders, sbtVars
<1> QED BY <1>3, <1>4, <1>5, <1>6, <1>7, <1>8, <1>9 DEF IInv

\* A change of hands: Accept, and a recovery to another account.
LEMMA NewOwner ==
    ASSUME IInv, NEW n \in Names, Minted(n), NEW r \in Nft,
           ~r.free => r.recovery # NoOne, r.owner # nft[n].owner,
           PutNft(n, r), MoveHeld(n, nft[n].owner, r.owner), DropPrimary(n, nft[n].owner),
           offer' = [offer EXCEPT ![n] = NoOne], UNCHANGED <<active, auction>>
    PROVE  NInv' /\ (token' \in [TokenIds -> Credential \cup {NoOne}] => TypeOK')
<1> DEFINE from == nft[n].owner
           to == r.owner
<1>0. from \in Accounts /\ to \in Accounts /\ nameOwner[n] = from /\ nameOwner[n] # NoOne
  BY MintedIsOwned DEF Nft
<1>1. /\ nft' \in [Names -> Nft \cup {NoOne}] /\ nameOwner' \in [Names -> Accounts \cup {NoOne}]
      /\ primary' \in [Accounts -> Names \cup {NoOne}] /\ offer' \in [Names -> Offer \cup {NoOne}]
  BY <1>0 DEF IInv, TypeOK, PutNft, DropPrimary
<1>2. /\ \A m \in Names : Minted(m)' <=> Minted(m)
      /\ \A a \in Accounts : Owns(a, n)' <=> a = to
      /\ \A m \in Names \ {n}, a \in Accounts : Owns(a, m)' <=> Owns(a, m)
      /\ nft'[n] = r /\ \A m \in Names \ {n} : nft'[m] = nft[m]
      /\ nameOwner'[n] = to /\ \A m \in Names \ {n} : nameOwner'[m] = nameOwner[m]
  BY DEF IInv, TypeOK, PutNft, Minted, Owns
<1>3. HeldIsOwned'
  <2>1. held' \subseteq Accounts \X Names
    BY <1>0 DEF IInv, HeldIsOwned, MoveHeld
  <2>2. ASSUME NEW a \in Accounts, NEW m \in Names PROVE <<a, m>> \in held' <=> Owns(a, m)'
    BY <1>0, <1>2, <2>2 DEF IInv, HeldIsOwned, MoveHeld, Owns
  <2> QED BY <2>1, <2>2 DEF HeldIsOwned
<1>4. RegistryIsOwners'
  BY <1>2 DEF IInv, RegistryIsOwners
<1>5. OffersAreOwners'
  BY <1>2 DEF IInv, TypeOK, OffersAreOwners, Offer
<1>6. PrimariesOwned'
  <2> SUFFICES ASSUME NEW a \in Accounts, NEW m \in Names, primary'[a] = m
               PROVE  nameOwner'[m] # NoOne /\ (Minted(m)' => Owns(a, m)')
    BY DEF PrimariesOwned
  <2>1. primary[a] = m /\ ~(a = from /\ m = n)
    BY <1>0 DEF IInv, TypeOK, DropPrimary
  <2>2. m # n
    BY <2>1 DEF IInv, PrimariesOwned, Owns
  <2> QED BY <1>2, <2>1, <2>2 DEF IInv, PrimariesOwned
<1>7. AuctionsKeep'
  BY <1>0, <1>2 DEF IInv, AuctionsKeep, Open
<1>8. LocksGuarded'
  BY <1>2 DEF IInv, LocksGuarded
<1>9. ASSUME token' \in [TokenIds -> Credential \cup {NoOne}] PROVE TypeOK'
  BY <1>1, <1>9 DEF IInv, TypeOK
<1> QED BY <1>3, <1>4, <1>5, <1>6, <1>7, <1>8, <1>9 DEF NInv

\* An offer is made or deleted.
LEMMA OfferStep ==
    ASSUME IInv, NEW n \in Names, NEW o \in Offer \cup {NoOne},
           o # NoOne => Owns(o.from, n) /\ o.to # o.from,
           offer' = [offer EXCEPT ![n] = o], UNCHANGED <<registry, nft, held, sbtVars, auction>>
    PROVE  IInv'
<1>1. TypeOK'
  BY DEF IInv, TypeOK, registry, sbtVars
<1>2. HeldIsOwned' /\ RegistryIsOwners' /\ LocksGuarded'
  BY DEF IInv, HeldIsOwned, RegistryIsOwners, LocksGuarded, Minted, Owns, registry
<1>3. OffersAreOwners'
  BY DEF IInv, TypeOK, OffersAreOwners, Owns, Minted
<1>4. PrimariesOwned'
  BY DEF IInv, PrimariesOwned, Minted, Owns, registry
<1>5. AuctionsKeep'
  BY DEF IInv, AuctionsKeep, Open, Minted, registry
<1>6. CredentialsAreTheHolders'
  BY DEF IInv, CredentialsAreTheHolders, sbtVars
<1> QED BY <1>1, <1>2, <1>3, <1>4, <1>5, <1>6 DEF IInv

\* A name that is minted has had no owner and no auction; nobody's primary name is it.
LEMMA MintStep ==
    ASSUME IInv, NEW n \in Names, NEW to \in Accounts, NEW minter, Mint(n, to, minter),
           UNCHANGED auction
    PROVE  IInv'
<1> DEFINE r == [owner |-> to, free |-> TRUE, recovery |-> NoOne, seq |-> 0]
<1>a. r \in Nft
  BY DEF Nft
<1>0. /\ r # NoOne /\ r.owner = to
      /\ ~Minted(n) /\ nameOwner[n] = NoOne /\ n \notin active /\ PutNft(n, r)
  BY <1>a DEF Mint, Mintable
<1>1. /\ nft'[n] = r /\ \A m \in Names \ {n} : nft'[m] = nft[m]
      /\ nameOwner'[n] = to /\ \A m \in Names \ {n} : nameOwner'[m] = nameOwner[m]
      /\ nft' \in [Names -> Nft \cup {NoOne}] /\ nameOwner' \in [Names -> Accounts \cup {NoOne}]
  BY <1>a, <1>0 DEF IInv, TypeOK, PutNft
<1>2. /\ Minted(n)' /\ \A a \in Accounts : Owns(a, n)' <=> a = to
      /\ \A m \in Names \ {n} : Minted(m)' <=> Minted(m)
      /\ \A m \in Names \ {n}, a \in Accounts : Owns(a, m)' <=> Owns(a, m)
  BY <1>0, <1>1 DEF Minted, Owns
<1>3. TypeOK'
  BY <1>1 DEF IInv, TypeOK, Mint, sbtVars
<1>4. HeldIsOwned'
  <2>1. held' \subseteq Accounts \X Names
    BY DEF IInv, HeldIsOwned, Mint
  <2>2. ASSUME NEW a \in Accounts, NEW m \in Names PROVE <<a, m>> \in held' <=> Owns(a, m)'
    BY <1>0, <1>2, <2>2 DEF IInv, HeldIsOwned, Mint, Owns
  <2> QED BY <2>1, <2>2 DEF HeldIsOwned
<1>5. RegistryIsOwners'
  BY <1>0, <1>1, <1>2 DEF IInv, RegistryIsOwners, Mint
<1>6. OffersAreOwners'
  BY <1>0, <1>1, <1>2 DEF IInv, TypeOK, OffersAreOwners, Mint, Owns, Offer
<1>7. PrimariesOwned'
  BY <1>0, <1>1, <1>2 DEF IInv, PrimariesOwned, Mint
<1>8. AuctionsKeep'
  BY <1>0, <1>1, <1>2 DEF IInv, AuctionsKeep, Open, Mint
<1>9. LocksGuarded'
  BY <1>1, <1>2 DEF IInv, LocksGuarded
<1>10. CredentialsAreTheHolders'
  BY DEF IInv, CredentialsAreTheHolders, sbtVars, Mint
<1> QED BY <1>3, <1>4, <1>5, <1>6, <1>7, <1>8, <1>9, <1>10 DEF IInv

\* A sale strips what active_on reads back of the index; what it misses has a colon in
\* its id.
LEMMA Stripped ==
    ASSUME IInv, NEW n \in Names, StripHolderScoped(n), own' = {t \in own : token[t].name # n}
    PROVE  token' \in [TokenIds -> Credential \cup {NoOne}] /\ CredentialsAreTheHolders'
<1>1. \A t \in StrippedOf(n) : t \in TokenIds /\ token[t] \in Credential
  <2> SUFFICES ASSUME NEW t \in StrippedOf(n) PROVE t \in TokenIds /\ token[t] \in Credential
    OBVIOUS
  <2>1. PICK u \in TokenIds : t = Tail[u]
    BY DEF StrippedOf
  <2>2. t \in TokenIds
    BY <2>1
  <2> QED BY <2>2 DEF IInv, TypeOK, StrippedOf
<1>2. token' \in [TokenIds -> Credential \cup {NoOne}]
  <2>1. \A t \in StrippedOf(n) : [token[t] EXCEPT !.stripped = TRUE] \in Credential
    BY <1>1 DEF Credential
  <2> QED BY <1>1, <2>1 DEF IInv, TypeOK, StripHolderScoped
<1>3. \A t \in TokenIds : token[t] # NoOne =>
        /\ token'[t] # NoOne /\ token'[t].accepted = token[t].accepted
        /\ token'[t].name = token[t].name /\ token'[t].class = token[t].class
  <2> SUFFICES ASSUME NEW t \in TokenIds, token[t] # NoOne
               PROVE  /\ token'[t] # NoOne /\ token'[t].accepted = token[t].accepted
                      /\ token'[t].name = token[t].name /\ token'[t].class = token[t].class
    OBVIOUS
  <2>1. CASE t \in StrippedOf(n)
    <3>1. token'[t] = [token[t] EXCEPT !.stripped = TRUE] /\ token[t] \in Credential
      BY <1>1, <2>1 DEF StripHolderScoped
    <3>2. token'[t] \in Credential
      BY <3>1 DEF Credential
    <3> QED BY <3>1, <3>2 DEF Credential
  <2>2. CASE t \notin StrippedOf(n)
    BY <2>2 DEF StripHolderScoped
  <2> QED BY <2>1, <2>2
<1>4. \A t \in TokenIds : <<n, t>> \in on /\ Tail[t] = t /\ token[t] # NoOne
                          /\ token[t].class = "holder_scoped" => t \in StrippedOf(n)
  BY DEF StrippedOf
<1>5. ASSUME NEW m \in Names, NEW t \in TokenIds, <<m, t>> \in on'
      PROVE  /\ token'[t] # NoOne /\ token'[t].accepted /\ token'[t].name = m
             /\ Tail[t] = t /\ token'[t].class = "holder_scoped" => t \in own'
  <2>1. <<m, t>> \in on /\ ~(m = n /\ t \in StrippedOf(n))
    BY <1>5 DEF StripHolderScoped
  <2>2. /\ token[t] # NoOne /\ token[t].accepted /\ token[t].name = m
        /\ Tail[t] = t /\ token[t].class = "holder_scoped" => t \in own
    BY <2>1 DEF IInv, CredentialsAreTheHolders
  <2> QED BY <1>3, <1>4, <2>1, <2>2
<1> QED BY <1>2, <1>5 DEF CredentialsAreTheHolders

\* What Unlock writes is a record of an NFT with the same owner.
LEMMA Unlocked ==
    ASSUME NEW x \in Nft, NEW k \in Nat
    PROVE  /\ [x EXCEPT !.free = TRUE, !.seq = k] \in Nft
           /\ [x EXCEPT !.free = TRUE, !.seq = k].owner = x.owner
           /\ [x EXCEPT !.free = TRUE, !.seq = k].recovery = x.recovery
           /\ [x EXCEPT !.free = TRUE, !.seq = k].free
BY DEF Nft

\* What Recover writes is a record of an NFT with the same recovery.
LEMMA Recovered ==
    ASSUME NEW x \in Nft, NEW k \in Nat, NEW a \in Accounts
    PROVE  /\ [x EXCEPT !.owner = a, !.seq = k] \in Nft
           /\ [x EXCEPT !.owner = a, !.seq = k].owner = a
           /\ [x EXCEPT !.owner = a, !.seq = k].recovery = x.recovery
BY DEF Nft

\* Every entry of the identity NFTs keeps the invariant.
LEMMA NftSteps == IInv /\ NftNext /\ UNCHANGED auctionVars => IInv'
<1> SUFFICES ASSUME IInv, NftNext, UNCHANGED auction PROVE IInv'
  BY DEF auctionVars
<1>1. ASSUME NEW n \in Names, NEW a \in Accounts, NEW b \in Accounts, Mint(n, b, a) PROVE IInv'
  BY <1>1, MintStep
<1>2. ASSUME NEW n \in Names, NEW a \in Accounts, NEW b \in Accounts, NEW e \in 0..MaxEpoch,
             Transfer(n, a, b, e)
      PROVE IInv'
  <2>1. [from |-> a, to |-> b, epoch |-> e] \in Offer
    BY DEF Offer
  <2> QED BY <1>2, <2>1, OfferStep DEF Transfer
<1>3. ASSUME NEW n \in Names, NEW a \in Accounts, SetPrimary(a, n) PROVE IInv'
  <2>1. nameOwner[n] # NoOne /\ Owns(a, n)
    BY <1>3, MintedIsOwned DEF SetPrimary, Owns
  <2>2. TypeOK'
    BY <1>3 DEF IInv, TypeOK, SetPrimary, nftVars, sbtVars
  <2>3. PrimariesOwned'
    BY <1>3, <2>1 DEF IInv, TypeOK, PrimariesOwned, SetPrimary, nftVars, Owns, Minted
  <2>4. HeldIsOwned' /\ RegistryIsOwners' /\ OffersAreOwners' /\ LocksGuarded'
    BY <1>3 DEF IInv, HeldIsOwned, RegistryIsOwners, OffersAreOwners, LocksGuarded, SetPrimary,
                nftVars, Owns, Minted
  <2>5. AuctionsKeep' /\ CredentialsAreTheHolders'
    BY <1>3 DEF IInv, AuctionsKeep, CredentialsAreTheHolders, SetPrimary, nftVars, sbtVars,
                Open, Minted
  <2> QED BY <2>2, <2>3, <2>4, <2>5 DEF IInv
<1>4. ASSUME NEW n \in Names, NEW a \in Accounts, Lock(a, n) PROVE IInv'
  <2>1. Minted(n) /\ nft[n] \in Nft
    BY <1>4, MintedIsOwned DEF Lock, Owns
  <2>2. [nft[n] EXCEPT !.free = FALSE] \in Nft
    BY <2>1 DEF Nft
  <2> DEFINE r == [nft[n] EXCEPT !.free = FALSE]
  <2>3. r.owner = nft[n].owner /\ r.recovery = nft[n].recovery
    BY <2>1 DEF Nft
  <2> QED BY <1>4, <2>1, <2>2, <2>3, SameOwner DEF Lock
<1>5. ASSUME NEW n \in Names, NEW a \in Accounts, NEW c \in Configs, SetRecovery(a, n, c)
      PROVE IInv'
  <2> DEFINE r == [nft[n] EXCEPT !.recovery = c]
  <2>1. Minted(n) /\ nft[n] \in Nft /\ nft[n].free /\ c \in Recovery
    BY <1>5, MintedIsOwned DEF SetRecovery, Configurable, Owns
  <2>2. r \in Nft /\ r.owner = nft[n].owner /\ r.free = nft[n].free
    BY <2>1 DEF Nft
  <2> QED BY <1>5, <2>1, <2>2, SameOwner DEF SetRecovery
<1>6. ASSUME NEW n \in Names, NEW a \in Accounts, NEW enabled \in BOOLEAN,
             SetBackstop(a, n, enabled)
      PROVE IInv'
  <2> DEFINE r == [nft[n] EXCEPT !.recovery.backstop = enabled]
  <2>1. Minted(n) /\ nft[n] \in Nft /\ nft[n].recovery \in Recovery
    BY <1>6, MintedIsOwned DEF SetBackstop, Owns, Nft
  <2>2. r \in Nft /\ r.owner = nft[n].owner /\ r.recovery \in Recovery
    BY <2>1 DEF Nft, Recovery
  <2> QED BY <1>6, <2>1, <2>2, SameOwner DEF SetBackstop
<1>7. ASSUME NEW n \in Names, Reject(n) PROVE IInv'
  BY <1>7, OfferStep DEF Reject
<1>8. ASSUME NEW n \in Names, NEW e \in 0..MaxEpoch, AcceptVoid(n, e) PROVE IInv'
  BY <1>8, OfferStep DEF AcceptVoid
<1>9. ASSUME NEW n \in Names, NEW e \in 0..MaxEpoch, Accept(n, e) PROVE IInv'
  <2> DEFINE to == offer[n].to
             r == [nft[n] EXCEPT !.owner = to, !.recovery = NoOne, !.free = TRUE]
  <2>1. /\ offer[n] \in Offer /\ to \in Accounts
        /\ Minted(n) /\ offer[n].from = nft[n].owner /\ to # nft[n].owner
    BY <1>9 DEF Accept, IInv, TypeOK, OffersAreOwners, Offer, Owns
  <2>2. r \in Nft /\ r.owner = to /\ r.free
    BY <2>1, MintedIsOwned DEF Nft
  <2>3. NInv' /\ (token' \in [TokenIds -> Credential \cup {NoOne}] => TypeOK')
    BY <1>9, <2>1, <2>2, NewOwner DEF Accept
  <2>4. token' \in [TokenIds -> Credential \cup {NoOne}] /\ CredentialsAreTheHolders'
    BY <1>9, Stripped DEF Accept
  <2> QED BY <2>3, <2>4 DEF NInv, IInv
<1>10. ASSUME NEW n \in Names, NEW seq \in 0..MaxSeq, NEW signers \in Signers,
              Unlock(n, seq, signers)
       PROVE IInv'
  <2> DEFINE r == [nft[n] EXCEPT !.free = TRUE, !.seq = nft[n].seq + 1]
  <2>1. Minted(n) /\ nft[n] \in Nft
    BY <1>10, MintedIsOwned DEF Unlock, Loosens
  <2>a. nft[n].seq + 1 \in Nat
    BY <2>1 DEF Nft
  <2>2. r \in Nft /\ r.owner = nft[n].owner /\ r.free
    BY <2>1, <2>a, Unlocked, Zenon
  <2> QED BY <1>10, <2>1, <2>2, SameOwner DEF Unlock
<1>11. ASSUME NEW n \in Names, NEW seq \in 0..MaxSeq, NEW signers \in Signers,
              Recover(n, seq, signers)
       PROVE IInv'
  <2> DEFINE dest == nft[n].recovery.dest
             r == [nft[n] EXCEPT !.owner = dest, !.seq = nft[n].seq + 1]
  <2>1. Minted(n) /\ nft[n] \in Nft /\ nft[n].recovery \in Recovery /\ nft[n].recovery # NoOne
    BY <1>11, MintedIsOwned DEF Recover, Loosens, Nft
  <2>2. dest \in Accounts
    BY <2>1 DEF Recovery
  <2>a. nft[n].seq + 1 \in Nat
    BY <2>1 DEF Nft
  <2>3. r \in Nft /\ r.owner = dest /\ r.recovery = nft[n].recovery
    <3> HIDE DEF dest
    <3>1. r \in Nft
      BY <2>1, <2>2, <2>a, Recovered, Zenon
    <3>2. r.owner = dest
      BY <2>1 DEF Nft
    <3>3. r.recovery = nft[n].recovery
      BY <2>1, <2>2, <2>a, Recovered, ZenonT(40)
    <3> HIDE DEF r
    <3> QED BY <3>1, <3>2, <3>3
  <2>4. CASE dest = nft[n].owner
    BY <1>11, <2>1, <2>3, <2>4, SameOwner DEF Recover
  <2>5. CASE dest # nft[n].owner
    <3>1. NInv' /\ (token' \in [TokenIds -> Credential \cup {NoOne}] => TypeOK')
      BY <1>11, <2>1, <2>3, <2>5, NewOwner DEF Recover, DropOffer
    <3>2. token' \in [TokenIds -> Credential \cup {NoOne}] /\ CredentialsAreTheHolders'
      BY <1>11 DEF Recover, sbtVars, IInv, TypeOK, CredentialsAreTheHolders
    <3> QED BY <3>1, <3>2 DEF NInv, IInv
  <2> QED BY <2>4, <2>5
<1> QED BY <1>1, <1>2, <1>3, <1>4, <1>5, <1>6, <1>7, <1>8, <1>9, <1>10, <1>11 DEF NftNext
------------------------------------------------------------------------------
(* Steps of the credentials *)

\* Every entry of the credentials keeps the invariant.
LEMMA SbtSteps == IInv /\ SbtNext /\ UNCHANGED <<registry, nftVars, auctionVars>> => IInv'
<1> SUFFICES ASSUME IInv, SbtNext, UNCHANGED <<registry, nftVars, auctionVars>> PROVE IInv'
  OBVIOUS
<1> USE DEF registry, nftVars, auctionVars
<1>1. token' \in [TokenIds -> Credential \cup {NoOne}] /\ CredentialsAreTheHolders'
  <2>0. token \in [TokenIds -> Credential \cup {NoOne}] /\ CredentialsAreTheHolders
    BY DEF IInv, TypeOK
  <2>1. ASSUME NEW t \in TokenIds, NEW a \in Accounts, NEW n \in Names,
               NEW class \in {"holder_scoped", "provenance"}, SbtIssue(t, n, a, class)
        PROVE  token' \in [TokenIds -> Credential \cup {NoOne}] /\ CredentialsAreTheHolders'
    <3>1. [name |-> n, issuer |-> a, class |-> class, accepted |-> FALSE,
           revoked |-> FALSE, stripped |-> FALSE] \in Credential
      BY DEF Credential
    <3>2. token' \in [TokenIds -> Credential \cup {NoOne}]
      BY <2>0, <2>1, <3>1 DEF SbtIssue
    <3>3. \A m \in Names : <<m, t>> \notin on
      BY <2>0, <2>1 DEF SbtIssue, CredentialsAreTheHolders
    <3>4. on' = on /\ own' = own /\ \A u \in TokenIds \ {t} : token'[u] = token[u]
      BY <2>0, <2>1 DEF SbtIssue
    <3> QED BY <2>0, <3>2, <3>3, <3>4 DEF CredentialsAreTheHolders
  <2>2. ASSUME NEW t \in TokenIds, NEW a \in Accounts, SbtAccept(t, a)
        PROVE  token' \in [TokenIds -> Credential \cup {NoOne}] /\ CredentialsAreTheHolders'
    <3>1. token[t] \in Credential
      BY <2>0, <2>2 DEF SbtAccept
    <3>2. /\ [token[t] EXCEPT !.accepted = TRUE] \in Credential
          /\ [token[t] EXCEPT !.accepted = TRUE].accepted
          /\ [token[t] EXCEPT !.accepted = TRUE].name = token[t].name
      BY <3>1 DEF Credential
    <3>3. token'[t] = [token[t] EXCEPT !.accepted = TRUE]
      BY <2>0, <2>2 DEF SbtAccept
    <3>4. \A u \in TokenIds \ {t} : token'[u] = token[u]
      BY <2>0, <2>2 DEF SbtAccept
    <3>5. token' \in [TokenIds -> Credential \cup {NoOne}]
      BY <2>0, <2>2, <3>2 DEF SbtAccept
    <3>6. token'[t] # NoOne /\ token'[t].accepted /\ token'[t].name = token[t].name /\ t \in own'
      BY <2>2, <3>2, <3>3 DEF SbtAccept
    <3>7. \A m \in Names : <<m, t>> \in on' => m = token[t].name
      BY <2>0, <2>2 DEF SbtAccept, CredentialsAreTheHolders
    <3>8. \A m \in Names, u \in TokenIds \ {t} : <<m, u>> \in on' => <<m, u>> \in on
      BY <2>2 DEF SbtAccept
    <3>9. own \subseteq own'
      BY <2>2 DEF SbtAccept
    <3>10. ASSUME NEW m \in Names, NEW u \in TokenIds, <<m, u>> \in on'
           PROVE  /\ token'[u] # NoOne /\ token'[u].accepted /\ token'[u].name = m
                  /\ Tail[u] = u /\ token'[u].class = "holder_scoped" => u \in own'
      <4>1. CASE u = t
        BY <3>6, <3>7, <3>10, <4>1
      <4>2. CASE u # t
        BY <2>0, <3>4, <3>8, <3>9, <3>10, <4>2 DEF CredentialsAreTheHolders
      <4> QED BY <4>1, <4>2
    <3> QED BY <3>5, <3>10 DEF CredentialsAreTheHolders
  <2>3. ASSUME NEW t \in TokenIds, NEW a \in Accounts, SbtReject(t, a)
        PROVE  token' \in [TokenIds -> Credential \cup {NoOne}] /\ CredentialsAreTheHolders'
    <3>1. token' \in [TokenIds -> Credential \cup {NoOne}]
      BY <2>0, <2>3 DEF SbtReject
    <3>2. \A m \in Names : <<m, t>> \notin on'
      BY <2>0, <2>3 DEF SbtReject, CredentialsAreTheHolders
    <3>3. on' \subseteq on /\ \A u \in TokenIds \ {t} : token'[u] = token[u]
                                                 /\ (u \in own' <=> u \in own)
      BY <2>0, <2>3 DEF SbtReject
    <3> QED BY <2>0, <3>1, <3>2, <3>3 DEF CredentialsAreTheHolders
  <2>4. ASSUME NEW t \in TokenIds, NEW a \in Accounts, SbtRevoke(t, a)
        PROVE  token' \in [TokenIds -> Credential \cup {NoOne}] /\ CredentialsAreTheHolders'
    <3>1. [token[t] EXCEPT !.revoked = TRUE] \in Credential
      BY <2>0, <2>4 DEF SbtRevoke, Credential
    <3>2. token' \in [TokenIds -> Credential \cup {NoOne}]
      BY <2>0, <2>4, <3>1 DEF SbtRevoke
    <3>3. \A m \in Names : <<m, t>> \notin on'
      BY <2>0, <2>4 DEF SbtRevoke, CredentialsAreTheHolders
    <3>4. on' \subseteq on /\ own' = own /\ \A u \in TokenIds \ {t} : token'[u] = token[u]
      BY <2>0, <2>4 DEF SbtRevoke
    <3> QED BY <2>0, <3>2, <3>3, <3>4 DEF CredentialsAreTheHolders
  <2> QED BY <2>1, <2>2, <2>3, <2>4 DEF SbtNext
<1>2. TypeOK'
  BY <1>1 DEF IInv, TypeOK
<1>3. HeldIsOwned' /\ RegistryIsOwners' /\ OffersAreOwners' /\ LocksGuarded'
  BY DEF IInv, HeldIsOwned, RegistryIsOwners, OffersAreOwners, LocksGuarded, Owns, Minted
<1>4. PrimariesOwned' /\ AuctionsKeep'
  BY DEF IInv, PrimariesOwned, AuctionsKeep, Owns, Minted, Open
<1> QED BY <1>1, <1>2, <1>3, <1>4 DEF IInv
------------------------------------------------------------------------------
(* Steps of the auctions *)

\* The larger of two amounts is an amount.
LEMMA MaxOfTwo == ASSUME NEW x \in Nat, NEW y \in Nat PROVE Max({x, y}) \in Nat
<1>1. \E m \in {x, y} : \A z \in {x, y} : m >= z
  OBVIOUS
<1>2. Max({x, y}) \in {x, y}
  BY <1>1 DEF Max
<1> QED BY <1>2

\* What a step of an auction has to keep.
AuctionKept ==
    /\ nameOwner' \in [Names -> Accounts \cup {NoOne}]
    /\ primary' \in [Accounts -> Names \cup {NoOne}]
    /\ auction' \in [Ids -> Auction \cup {NoOne}]
    /\ \A n \in Names : Minted(n) => nameOwner'[n] = nameOwner[n] /\ n \notin active'
    /\ \A n \in Names : nameOwner[n] # NoOne => nameOwner'[n] # NoOne
    /\ \A a \in Accounts, n \in Names : primary'[a] = n =>
          primary[a] = n \/ (~Minted(n) /\ nameOwner'[n] # NoOne)
    /\ \A id \in Ids : Open(id)' /\ id[1] \in Names =>
          ~Minted(id[1]) /\ (id[1] \in active' \/ nameOwner'[id[1]] # NoOne)

\* That is enough: auctions touch neither NFTs nor credentials.
LEMMA AuctionStep ==
    ASSUME IInv, UNCHANGED <<nftVars, sbtVars>>, AuctionKept
    PROVE  IInv'
<1> USE DEF nftVars, sbtVars
<1>1. TypeOK'
  BY DEF IInv, TypeOK, AuctionKept
<1>2. HeldIsOwned' /\ OffersAreOwners' /\ LocksGuarded'
  BY DEF IInv, HeldIsOwned, OffersAreOwners, LocksGuarded, Owns, Minted
<1>3. RegistryIsOwners'
  BY DEF IInv, RegistryIsOwners, Minted, AuctionKept
<1>4. PrimariesOwned'
  BY DEF IInv, PrimariesOwned, Owns, Minted, AuctionKept
<1>5. AuctionsKeep'
  BY DEF AuctionsKeep, Minted, AuctionKept
<1>6. CredentialsAreTheHolders'
  BY DEF IInv, CredentialsAreTheHolders
<1> QED BY <1>1, <1>2, <1>3, <1>4, <1>5, <1>6 DEF IInv

\* Facts of the invariant that the steps of auctions use.
LEMMA AuctionFacts ==
    ASSUME IInv
    PROVE  /\ nameOwner \in [Names -> Accounts \cup {NoOne}]
           /\ primary \in [Accounts -> Names \cup {NoOne}]
           /\ auction \in [Ids -> Auction \cup {NoOne}]
           /\ \A n \in Names : Minted(n) => nameOwner[n] # NoOne /\ n \notin active
           /\ \A id \in Ids : Open(id) /\ id[1] \in Names =>
                ~Minted(id[1]) /\ (id[1] \in active \/ nameOwner[id[1]] # NoOne)
BY MintedIsOwned DEF IInv, TypeOK, RegistryIsOwners, AuctionsKeep

\* A step that leaves the registry alone and opens no auction of a name.
LEMMA RegistryAlone ==
    ASSUME IInv, UNCHANGED <<nameOwner, primary, active>>,
           auction' \in [Ids -> Auction \cup {NoOne}],
           \A id \in Ids : Open(id)' /\ id[1] \in Names => Open(id)
    PROVE  AuctionKept
<1>1. /\ nameOwner' \in [Names -> Accounts \cup {NoOne}]
      /\ primary' \in [Accounts -> Names \cup {NoOne}]
      /\ auction' \in [Ids -> Auction \cup {NoOne}]
  BY AuctionFacts
<1>2. \A n \in Names : Minted(n) => nameOwner'[n] = nameOwner[n] /\ n \notin active'
  BY AuctionFacts
<1>3. \A id \in Ids : Open(id)' /\ id[1] \in Names =>
          ~Minted(id[1]) /\ (id[1] \in active' \/ nameOwner'[id[1]] # NoOne)
  BY AuctionFacts
<1>4. \A n \in Names : nameOwner[n] # NoOne => nameOwner'[n] # NoOne
  OBVIOUS
<1>5. \A a \in Accounts, n \in Names : primary'[a] = n =>
          primary[a] = n \/ (~Minted(n) /\ nameOwner'[n] # NoOne)
  OBVIOUS
<1> QED BY <1>1, <1>2, <1>3, <1>4, <1>5, Zenon DEF AuctionKept

\* A new auction is a record of one.
LEMMA NewIsAuction ==
    ASSUME NEW a \in Accounts, NEW min \in Nat, NEW end \in Ends
    PROVE  NewAuction(a, min, end) \in Auction
BY DEF NewAuction, Auction

\* An opening of a name, which has no owner, marks it; an opening of an item does not
\* touch the registry.
LEMMA Openings ==
    ASSUME IInv, UNCHANGED <<nftVars, sbtVars>>, NEW e \in 0..MaxEpoch,
           NEW a \in Openers, NEW min \in Bids, NEW end \in Ends
    PROVE  /\ \A n \in Names : NameAuctionOpen(n, a, min, end, e) => IInv'
           /\ \A i \in Items : FreeportAuctionOpen(i, a, min, end, e) => IInv'
<1>0. a \in Accounts /\ min \in Nat
  OBVIOUS
<1>1. ASSUME NEW n \in Names, NameAuctionOpen(n, a, min, end, e) PROVE IInv'
  <2> DEFINE id == <<n, e>>
             r == NewAuction(a, Max({min, Tier[n]}), end)
  <2>1. r \in Auction
    <3>1. Tier[n] \in Nat
      OBVIOUS
    <3> QED BY <1>0, <3>1, MaxOfTwo, NewIsAuction
  <2>2. id \in Ids /\ id[1] = n
    BY DEF Ids, Lots
  <2>3. auction' = [auction EXCEPT ![id] = r] /\ active' = active \cup {n}
        /\ nameOwner' = nameOwner /\ primary' = primary /\ nameOwner[n] = NoOne
    BY <1>1 DEF NameAuctionOpen, Put
  <2> HIDE DEF r, id
  <2>4. auction' \in [Ids -> Auction \cup {NoOne}]
    BY <2>1, <2>3, AuctionFacts
  <2>5. \A i \in Ids \ {id} : Open(i)' <=> Open(i)
    BY <2>3, AuctionFacts DEF Open
  <2>6. ~Minted(n)
    BY <2>3, AuctionFacts
  <2>7. \A i \in Ids : Open(i)' /\ i[1] \in Names =>
          ~Minted(i[1]) /\ (i[1] \in active' \/ nameOwner'[i[1]] # NoOne)
    BY <2>2, <2>3, <2>5, <2>6, AuctionFacts
  <2>8. AuctionKept
    BY <2>3, <2>4, <2>6, <2>7, AuctionFacts DEF AuctionKept
  <2> QED BY <2>8, AuctionStep
<1>2. ASSUME NEW i \in Items, FreeportAuctionOpen(i, a, min, end, e) PROVE IInv'
  <2> DEFINE id == <<i, e>>
             r == NewAuction(a, min, end)
  <2>1. r \in Auction
    BY <1>0, NewIsAuction
  <2>2. id \in Ids /\ id[1] \notin Names
    BY DEF Ids, Lots
  <2>3. auction' = [auction EXCEPT ![id] = r] /\ UNCHANGED <<nameOwner, primary, active>>
    BY <1>2 DEF FreeportAuctionOpen, Put, registry
  <2> HIDE DEF r, id
  <2>4. auction' \in [Ids -> Auction \cup {NoOne}]
    BY <2>1, <2>3, AuctionFacts
  <2>5. \A j \in Ids \ {id} : Open(j)' <=> Open(j)
    BY <2>3, AuctionFacts DEF Open
  <2>6. AuctionKept
    BY <2>2, <2>3, <2>4, <2>5, RegistryAlone
  <2> QED BY <2>6, AuctionStep
<1> QED BY <1>1, <1>2

\* A bid changes the money and the top of an auction, not what it sells.
LEMMA BidStep ==
    ASSUME IInv, UNCHANGED <<nftVars, sbtVars>>, NEW id \in Ids, NEW b \in Bidders,
           NEW amount \in Bids, NEW e, NEW k \in 1..3, Bid(id, b, amount, e, k)
    PROVE  IInv'
<1>1. auction[id] \in Auction /\ b \in Accounts /\ amount \in Nat
  BY AuctionFacts DEF Bid, Open
<1> DEFINE r == [auction[id] EXCEPT !.top = b, !.bid = amount]
<1>2. r \in Auction /\ r.status = auction[id].status
  BY <1>1 DEF Auction
<1>3. auction' = auction \/ auction' = [auction EXCEPT ![id] = r]
  BY AuctionFacts DEF Bid
<1>4. UNCHANGED <<nameOwner, primary, active>>
  BY DEF Bid, registry
<1> HIDE DEF r
<1>5. auction' \in [Ids -> Auction \cup {NoOne}]
  BY <1>2, <1>3, AuctionFacts
<1>6. \A i \in Ids : Open(i)' => Open(i)
  BY <1>1, <1>2, <1>3, AuctionFacts DEF Open
<1>7. AuctionKept
  BY <1>4, <1>5, <1>6, RegistryAlone
<1> QED BY <1>7, AuctionStep

\* A settlement gives the name, which is not minted, to the bidder; a stop inside the
\* handler leaves it marked or owned.
LEMMA SettleStep ==
    ASSUME IInv, UNCHANGED <<nftVars, sbtVars>>, NEW id \in Ids, NEW e, NEW k \in 1..5,
           Settle(id, e, k)
    PROVE  IInv'
<1> DEFINE w == auction[id].top
           lot == id[1]
           r == [auction[id] EXCEPT !.status = "settled"]
<1>1. auction[id] \in Auction /\ Open(id)
  BY AuctionFacts DEF Settle, Open
<1>2. r \in Auction /\ r.status = "settled" /\ w \in Accounts \cup {NoOne}
  BY <1>1 DEF Auction
<1>3. auction' = auction \/ auction' = [auction EXCEPT ![id] = r]
  BY AuctionFacts DEF Settle
<1>4. UNCHANGED <<nameOwner, primary, active>> \/ (w # NoOne /\ lot \in Names /\ Assign(lot, w, k))
  BY DEF Settle, Assign, registry
<1> HIDE DEF r, w, lot
<1>5. auction' \in [Ids -> Auction \cup {NoOne}]
  BY <1>2, <1>3, AuctionFacts
<1>6. \A i \in Ids : Open(i)' => Open(i)
  BY <1>2, <1>3, AuctionFacts DEF Open
<1>7. CASE UNCHANGED <<nameOwner, primary, active>>
  <2>1. AuctionKept
    BY <1>5, <1>6, <1>7, RegistryAlone
  <2> QED BY <2>1, AuctionStep
<1>8. CASE w # NoOne /\ lot \in Names /\ Assign(lot, w, k)
  <2>1. ~Minted(lot) /\ w \in Accounts /\ (lot \in active \/ nameOwner[lot] # NoOne)
    BY <1>1, <1>2, <1>8, AuctionFacts DEF lot
  <2>2. /\ nameOwner' = nameOwner \/ nameOwner' = [nameOwner EXCEPT ![lot] = w]
        /\ primary' = primary \/ (k > 2 /\ primary' = [primary EXCEPT ![w] = lot])
        /\ active' = active \/ (k > 2 /\ active' = active \ {lot})
        /\ k > 2 => nameOwner' = [nameOwner EXCEPT ![lot] = w]
    BY <1>8 DEF Assign
  <2>3. /\ nameOwner' \in [Names -> Accounts \cup {NoOne}]
        /\ \A n \in Names \ {lot} : nameOwner'[n] = nameOwner[n]
        /\ nameOwner'[lot] = nameOwner[lot] \/ nameOwner'[lot] = w
        /\ k > 2 => nameOwner'[lot] = w
    <3>1. CASE nameOwner' = nameOwner /\ ~(k > 2)
      BY <3>1, AuctionFacts
    <3>2. CASE nameOwner' = [nameOwner EXCEPT ![lot] = w]
      BY <1>8, <2>1, <3>2, AuctionFacts
    <3> QED BY <2>2, <3>1, <3>2
  <2>4. /\ primary' \in [Accounts -> Names \cup {NoOne}]
        /\ \A a \in Accounts : primary'[a] = primary[a] \/ (k > 2 /\ primary'[a] = lot)
    <3>1. primary \in [Accounts -> Names \cup {NoOne}]
      BY AuctionFacts
    <3>2. CASE primary' = primary
      BY <3>1, <3>2
    <3>3. CASE k > 2 /\ primary' = [primary EXCEPT ![w] = lot]
      <4>1. lot \in Names
        BY <1>8
      <4> QED BY <3>1, <3>3, <4>1
    <3> QED BY <2>2, <3>2, <3>3
  <2>5. \A n \in Names : Minted(n) => nameOwner'[n] = nameOwner[n] /\ n \notin active'
    BY <2>1, <2>2, <2>3, AuctionFacts
  <2>6. \A n \in Names : nameOwner[n] # NoOne => nameOwner'[n] # NoOne
    BY <1>8, <2>3
  <2>7. \A a \in Accounts, n \in Names : primary'[a] = n =>
          primary[a] = n \/ (~Minted(n) /\ nameOwner'[n] # NoOne)
    BY <1>8, <2>1, <2>3, <2>4
  <2>8. ASSUME NEW i \in Ids, Open(i)', i[1] \in Names
        PROVE  ~Minted(i[1]) /\ (i[1] \in active' \/ nameOwner'[i[1]] # NoOne)
    <3>1. ~Minted(i[1]) /\ (i[1] \in active \/ nameOwner[i[1]] # NoOne)
      BY <1>6, <2>8, AuctionFacts
    <3> QED BY <1>8, <2>2, <2>3, <2>6, <2>8, <3>1
  <2>9. AuctionKept
    BY <1>5, <2>3, <2>4, <2>5, <2>6, <2>7, <2>8, Zenon DEF AuctionKept
  <2> QED BY <2>9, AuctionStep
<1> QED BY <1>4, <1>7, <1>8

\* A cancellation closes an auction without a bid.
LEMMA CancelStep ==
    ASSUME IInv, UNCHANGED <<nftVars, sbtVars>>, NEW id \in Ids, NameAuctionCancel(id)
    PROVE  IInv'
<1> DEFINE r == [auction[id] EXCEPT !.status = "cancelled"]
<1>1. r \in Auction /\ r.status = "cancelled"
  BY AuctionFacts DEF NameAuctionCancel, Open, Auction
<1>2. auction' = [auction EXCEPT ![id] = r] /\ UNCHANGED <<nameOwner, primary, active>>
  BY DEF NameAuctionCancel, registry
<1> HIDE DEF r
<1>3. auction' \in [Ids -> Auction \cup {NoOne}] /\ \A i \in Ids : Open(i)' => Open(i)
  BY <1>1, <1>2, AuctionFacts DEF Open
<1>4. AuctionKept
  BY <1>2, <1>3, RegistryAlone
<1> QED BY <1>4, AuctionStep

\* Every entry of the auctions keeps the invariant.
LEMMA AuctionSteps == IInv /\ AuctionNext /\ UNCHANGED <<nftVars, sbtVars>> => IInv'
BY Openings, BidStep, SettleStep, CancelStep DEF AuctionNext
------------------------------------------------------------------------------
(* The theorems *)

\* Every step keeps the invariant.
LEMMA Preserved == IInv /\ [Next]_vars => IInv'
<1> SUFFICES ASSUME IInv, [Next]_vars PROVE IInv'
  OBVIOUS
<1>1. CASE AuctionNext /\ UNCHANGED <<limit, cur, nftVars, sbtVars>>
  BY <1>1, AuctionSteps
<1>2. CASE NftNext /\ UNCHANGED <<limit, cur, auctionVars>>
  BY <1>2, NftSteps
<1>3. CASE SbtNext /\ UNCHANGED <<limit, cur, registry, nftVars, auctionVars>>
  BY <1>3, SbtSteps
<1>4. CASE UNCHANGED <<registry, auctionVars, nftVars, sbtVars>>
  <2> USE <1>4 DEF registry, auctionVars, nftVars, sbtVars
  <2>1. TypeOK' /\ CredentialsAreTheHolders'
    BY DEF IInv, TypeOK, CredentialsAreTheHolders
  <2>2. HeldIsOwned' /\ RegistryIsOwners' /\ OffersAreOwners' /\ LocksGuarded'
    BY DEF IInv, HeldIsOwned, RegistryIsOwners, OffersAreOwners, LocksGuarded, Owns, Minted
  <2>3. PrimariesOwned' /\ AuctionsKeep'
    BY DEF IInv, PrimariesOwned, AuctionsKeep, Owns, Minted, Open
  <2> QED BY <2>1, <2>2, <2>3 DEF IInv
<1> QED BY <1>1, <1>2, <1>3, <1>4 DEF Next, Tick, vars

\* The invariant holds in every state.
LEMMA Always == Spec => []IInv
BY Initially, Preserved, PTL DEF Spec

\* The records of the store have their types.
THEOREM RegistryTypeCorrect == Spec => []TypeOK
<1>1. IInv => TypeOK
  BY DEF IInv
<1> QED BY Always, <1>1, PTL

\* A minted name has one holder in every record, and no auction, after any sequence of
\* mints, sales, recoveries and auctions, stops inside settlements included.
THEOREM OneHolderAlways == Spec => []OneHolder
BY Always, InvIsOneHolder, PTL

\* Active holder-scoped credentials were accepted by the present holder of the name.
THEOREM CredentialsAlways == Spec => []CredentialsAreTheHolders
<1>1. IInv => CredentialsAreTheHolders
  BY DEF IInv
<1> QED BY Always, <1>1, PTL

\* put changes the record of one name.
LEMMA PutOne ==
    ASSUME IInv, NEW n \in Names, NEW r, PutNft(n, r)
    PROVE  nft'[n] = r /\ \A m \in Names \ {n} : nft'[m] = nft[m]
BY DEF PutNft, IInv, TypeOK

\* What may happen to a locked name in a step.
Pinned(n) ==
    Minted(n) /\ ~nft[n].free =>
      /\ nft[n].recovery # NoOne
      /\ nft'[n].owner \in {nft[n].owner, nft[n].recovery.dest}
      /\ nft'[n].recovery \in {nft[n].recovery, [nft[n].recovery EXCEPT !.backstop = FALSE]}

\* No step does anything else to a locked name.
LEMMA StepsPin == IInv /\ [Next]_vars => \A n \in Names : Pinned(n)
<1> SUFFICES ASSUME IInv, [Next]_vars, NEW m \in Names, Minted(m), ~nft[m].free
             PROVE  /\ nft[m].recovery # NoOne
                    /\ nft'[m].owner \in {nft[m].owner, nft[m].recovery.dest}
                    /\ nft'[m].recovery \in {nft[m].recovery,
                                              [nft[m].recovery EXCEPT !.backstop = FALSE]}
  BY DEF Pinned
<1>0. nft[m].recovery # NoOne /\ nft[m] \in Nft
  BY MintedIsOwned DEF IInv, LocksGuarded
<1>1. CASE nft'[m] = nft[m]
  BY <1>0, <1>1
<1>2. ASSUME NEW n \in Names, NEW r, PutNft(n, r), m # n PROVE nft'[m] = nft[m]
  BY <1>2, PutOne
<1>3. ASSUME NEW n \in Names, NEW a \in Accounts, NEW b \in Accounts, Mint(n, b, a)
      PROVE  nft'[m] = nft[m]
  BY <1>2, <1>3 DEF Mint, Mintable
<1>4. ASSUME NEW n \in Names, NEW a \in Accounts, NEW c \in Configs, SetRecovery(a, n, c)
      PROVE  nft'[m] = nft[m]
  BY <1>2, <1>4 DEF SetRecovery, Configurable
<1>5. ASSUME NEW n \in Names, NEW e \in 0..MaxEpoch, Accept(n, e) PROVE nft'[m] = nft[m]
  BY <1>2, <1>5 DEF Accept, Void
<1>6. ASSUME NEW n \in Names, NEW a \in Accounts, Lock(a, n)
      PROVE  nft'[m].owner = nft[m].owner /\ nft'[m].recovery = nft[m].recovery
  <2>1. CASE m = n
    BY <1>0, <1>6, <2>1, PutOne DEF Lock, Nft
  <2>2. CASE m # n
    BY <1>2, <1>6, <2>2 DEF Lock
  <2> QED BY <2>1, <2>2
<1>7. ASSUME NEW n \in Names, NEW a \in Accounts, NEW enabled \in BOOLEAN,
             SetBackstop(a, n, enabled)
      PROVE  /\ nft'[m].owner = nft[m].owner
             /\ nft'[m].recovery \in {nft[m].recovery,
                                       [nft[m].recovery EXCEPT !.backstop = FALSE]}
  <2>1. CASE m = n
    BY <1>0, <1>7, <2>1, PutOne DEF SetBackstop, Nft
  <2>2. CASE m # n
    BY <1>2, <1>7, <2>2 DEF SetBackstop
  <2> QED BY <2>1, <2>2
<1>8. ASSUME NEW n \in Names, NEW seq \in 0..MaxSeq, NEW signers \in Signers,
             Unlock(n, seq, signers)
      PROVE  nft'[m].owner = nft[m].owner /\ nft'[m].recovery = nft[m].recovery
  <2>1. CASE m = n
    <3> DEFINE r == [nft[m] EXCEPT !.free = TRUE, !.seq = nft[m].seq + 1]
    <3>1. nft[m].seq + 1 \in Nat
      BY <1>0 DEF Nft
    <3>2. nft'[m] = r
      BY <1>8, <2>1, PutOne, Zenon DEF Unlock
    <3>3. r.owner = nft[m].owner
      BY <1>0, <3>1, Unlocked, Zenon
    <3>4. r.recovery = nft[m].recovery
      BY <1>0, <3>1, Unlocked, Zenon
    <3> HIDE DEF r
    <3> QED BY <3>2, <3>3, <3>4
  <2>2. CASE m # n
    BY <1>2, <1>8, <2>2 DEF Unlock
  <2> QED BY <2>1, <2>2
<1>9. ASSUME NEW n \in Names, NEW seq \in 0..MaxSeq, NEW signers \in Signers,
             Recover(n, seq, signers)
      PROVE  /\ nft'[m].owner \in {nft[m].owner, nft[m].recovery.dest}
             /\ nft'[m].recovery = nft[m].recovery
  <2>1. CASE m = n
    <3> DEFINE dest == nft[m].recovery.dest
               r == [nft[m] EXCEPT !.owner = dest, !.seq = nft[m].seq + 1]
    <3>1. nft[m].seq + 1 \in Nat /\ dest \in Accounts
      BY <1>0 DEF Nft, Recovery
    <3>2. nft'[m] = r
      BY <1>9, <2>1, PutOne, Zenon DEF Recover
    <3> HIDE DEF dest
    <3>3. r.owner = dest
      BY <1>0 DEF Nft
    <3>4. r.recovery = nft[m].recovery
      BY <1>0 DEF Nft
    <3> HIDE DEF r
    <3>5. nft'[m].owner = dest /\ nft'[m].recovery = nft[m].recovery
      BY <3>2, <3>3, <3>4
    <3> QED BY <3>5 DEF dest
  <2>2. CASE m # n
    BY <1>2, <1>9, <2>2 DEF Recover
  <2> QED BY <2>1, <2>2
<1>10. CASE NftNext
  BY <1>0, <1>1, <1>3, <1>4, <1>5, <1>6, <1>7, <1>8, <1>9, <1>10
  DEF NftNext, Transfer, SetPrimary, Reject, AcceptVoid, nftVars
<1>11. CASE UNCHANGED nftVars
  BY <1>1, <1>11 DEF nftVars
<1> QED BY <1>10, <1>11 DEF Next, Tick, vars

\* A locked name keeps its recovery, but for the backstop, which can be dropped, and goes
\* to nobody but the destination pinned before.
THEOREM LockedAlways == Spec => LockedIsPinned
<1>1. IInv /\ [Next]_vars => [\A n \in Names : Pinned(n)]_nft
  BY StepsPin
<1> QED BY Always, <1>1, PTL DEF Spec, LockedIsPinned, Pinned
=============================================================================
