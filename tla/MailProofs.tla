----------------------------- MODULE MailProofs -----------------------------
(***************************************************************************)
(* One source, one mailbox: that everything read and written is of the     *)
(* mailbox the source recorded, whichever account a consent comes back     *)
(* from and however the workers' transactions interleave (MailGrant); and  *)
(* that its searches step over no message, lose no resync and count what   *)
(* they queued (MailSearch).                                               *)
(***************************************************************************)
EXTENDS MailGrant, MailSearch, FiniteSetTheorems, WellFoundedInduction,
        NaturalsInduction, TLAPS

(***************************************************************************)
(* The grant.  A stamp stands for an account: whatever is checked for a    *)
(* stamp, or about to be stored under one, is of the account the grant of  *)
(* that stamp reaches, in the row or in the transaction that holds it.     *)
(***************************************************************************)

Boxes == Accounts \cup {None}
Workers == [at : {"idle", "minting", "checking", "using"},
            snap : [addr : Boxes, vfor : Nat],
            of : [stamp : Nat, acct : Boxes, wide : BOOLEAN],
            tok : Boxes, due : BOOLEAN, minted : BOOLEAN, to : Nat]

GrantTypes ==
    /\ src \in [row : {"none", "row", "removed"}, active : BOOLEAN, gone : BOOLEAN,
                polled : BOOLEAN, items : BOOLEAN, labels : BOOLEAN]
    /\ mbox \in [addr : Boxes, vfor : Nat]
    /\ grant \in [stamp : Nat, acct : Boxes, wide : BOOLEAN]
    /\ access \in [acct : Boxes, wide : BOOLEAN, live : BOOLEAN]
    /\ consent \in [Consents -> [st : {"none", "open", "held", "exchanged", "spent"},
                                 wide : BOOLEAN, acct : Boxes]]
    /\ worker \in [Kinds -> Workers]
    /\ stamps \in Nat
    /\ seen.read \subseteq Accounts /\ seen.written \subseteq Accounts

\* Where a worker's record leaves no doubt what came before
WorkerSound(k, w) ==
    /\ w.at \in {"idle", "minting"} => ~ w.minted
    /\ w.at = "checking" => w.due
    /\ k = "extract" => ~ w.due
    /\ w.due /\ w.at \in {"checking", "using"} /\ k = "poll" => w.minted
    /\ w.of.stamp # 0 => w.of.acct # None
    /\ w.of.stamp <= stamps /\ w.to <= stamps
    /\ w.minted =>
         /\ k # "label" /\ w.to # 0
         /\ grant.stamp # 0 /\ w.of.stamp = grant.stamp /\ w.tok = grant.acct

\* The account a stamp stands for, in the row or in a transaction under way
Stands(s, a) ==
    /\ s # 0 /\ s = grant.stamp => a = grant.acct
    /\ \A k \in Kinds : worker[k].minted /\ s = worker[k].to => a = worker[k].tok
\* The cached token is of the account its stamp stands for.
Cached(s) == s = grant.stamp /\ access.live => access.acct = grant.acct

StampsSound ==
    /\ grant.stamp <= stamps /\ mbox.vfor <= stamps
    /\ grant.stamp # 0 => grant.acct # None
    /\ \A k \in Kinds : WorkerSound(k, worker[k])
    /\ \A j, k \in Kinds : worker[j].minted /\ worker[k].minted => j = k
    /\ Stands(grant.stamp, grant.acct)
    /\ mbox.addr # None => mbox.vfor # 0 /\ Stands(mbox.vfor, mbox.addr) /\ Cached(mbox.vfor)
    /\ \A k \in Kinds : worker[k].at = "minting" => Stands(worker[k].of.stamp, worker[k].of.acct)
    /\ worker["label"].at = "checking" =>
         /\ worker["label"].to # 0 /\ Stands(worker["label"].to, worker["label"].tok)
         /\ Cached(worker["label"].to)

\* The recorded address is the one every reader and writer works on.
AddressSound ==
    /\ seen.read \cup seen.written \subseteq {mbox.addr}
    /\ worker["label"].at # "idle" \/ src.items => seen.read # {}
    /\ worker["poll"].at # "idle" => worker["poll"].snap.addr = mbox.addr
    /\ worker["label"].at \in {"minting", "checking"} => worker["label"].snap.addr = mbox.addr
    /\ worker["label"].at = "using" => worker["label"].tok = mbox.addr
    /\ \A k \in {"poll", "label"} : worker[k].at = "minting" /\ ~ worker[k].due =>
           mbox.addr # None /\ worker[k].of.acct = mbox.addr
    /\ worker["poll"].at = "using" =>
         /\ worker["poll"].tok # None
         /\ mbox.addr = worker["poll"].tok \/ (worker["poll"].due /\ mbox.addr = None)

\* The row outlives whoever works on it.
SourceSound ==
    /\ src.active => grant.stamp # 0 /\ src.row = "row"
    /\ seen.read # {} => src.polled
    /\ \A k \in Kinds : worker[k].at # "idle" => src.row = "row"
    /\ worker["poll"].at # "idle" => src.active \/ src.gone
    /\ worker["extract"].at # "idle" => src.polled
    /\ \A c \in Consents : consent[c].st \in {"open", "held", "exchanged"} => src.row = "row"
    /\ \A c \in Consents : consent[c].st = "exchanged" => consent[c].acct # None
    /\ src.row = "removed" => ~ src.items /\ grant.stamp = 0 /\ seen.read = {}

GrantInv == GrantTypes /\ StampsSound /\ AddressSound /\ SourceSound

\* The invariant's consequences that every step's proof uses
LEMMA GrantFacts ==
    ASSUME GrantInv
    PROVE  /\ None \notin Accounts
           /\ Kinds = {"poll", "extract", "label"}
           /\ ~ worker["label"].minted
           /\ ~ GrantLocked => \A k \in Kinds : ~ worker[k].minted
           /\ mbox.addr = None => seen.read = {} /\ seen.written = {}
                                  /\ worker["label"].at = "idle" /\ ~ src.items
<1>1. None \notin Accounts /\ Kinds = {"poll", "extract", "label"}
  BY GrantAssumption DEF Kinds
<1>2. ~ worker["label"].minted
  BY <1>1 DEF GrantInv, StampsSound, WorkerSound
<1>3. ~ GrantLocked => \A k \in Kinds : ~ worker[k].minted
  BY <1>1, <1>2 DEF GrantLocked
<1>4. mbox.addr = None => seen.read = {} /\ seen.written = {}
  BY <1>1 DEF GrantInv, AddressSound, GrantTypes
<1>5. mbox.addr = None => worker["label"].at = "idle" /\ ~ src.items
  BY <1>4 DEF GrantInv, AddressSound
<1> QED
  BY <1>1, <1>2, <1>3, <1>4, <1>5

\* The first states satisfy the invariant.
LEMMA GrantStart == GrantInit => GrantInv
<1> SUFFICES ASSUME GrantInit PROVE GrantInv
  OBVIOUS
<1>0. Kinds = {"poll", "extract", "label"} /\ \A k \in Kinds : worker[k] = Rest
  BY DEF GrantInit, Kinds
<1>1. GrantTypes
  <2>1. Rest \in Workers
    BY DEF Rest, Workers, NoGrant, Boxes
  <2> QED
    BY <2>1 DEF GrantInit, GrantTypes, NoGrant, NoAccess, NoConsent, Boxes
<1>2. StampsSound
  BY <1>0 DEF GrantInit, StampsSound, WorkerSound, Stands, Cached, Rest, NoGrant
<1>3. AddressSound
  BY <1>0 DEF GrantInit, AddressSound, Rest
<1>4. SourceSound
  BY <1>0 DEF GrantInit, SourceSound, Rest, NoConsent, NoGrant
<1> QED
  BY <1>1, <1>2, <1>3, <1>4 DEF GrantInv

\* A step that leaves the grant, the mailbox's keys and the workers alone, and
\* at most ends the life of the cached token
LEMMA GrantStill ==
    ASSUME GrantInv, grant' = grant, mbox' = mbox, worker' = worker,
           stamps' = stamps, seen' = seen,
           access' = access \/ access' = [access EXCEPT !.live = FALSE],
           src' \in [row : {"none", "row", "removed"}, active : BOOLEAN, gone : BOOLEAN,
                     polled : BOOLEAN, items : BOOLEAN, labels : BOOLEAN],
           src'.items = src.items,
           consent' \in [Consents -> [st : {"none", "open", "held", "exchanged", "spent"},
                                      wide : BOOLEAN, acct : Boxes]]
    PROVE  GrantTypes' /\ StampsSound' /\ AddressSound'
<1>1. GrantTypes'
  BY DEF GrantInv, GrantTypes
<1>2. access'.live => access.live /\ access'.acct = access.acct
  BY DEF GrantInv, GrantTypes
<1>3. StampsSound'
  BY <1>2 DEF GrantInv, StampsSound, WorkerSound, Stands, Cached
<1>4. AddressSound'
  BY DEF GrantInv, AddressSound
<1> QED
  BY <1>1, <1>3, <1>4

\* The routes that leave the grant alone, and the world
LEMMA RoutesKeep ==
    ASSUME GrantInv,
           \/ connect_source \/ set_label_sync \/ reauthorize_source \/ poll_source
           \/ remove_source \/ handle_poll_returns \/ expire_access \/ revoke
           \/ \E c \in Consents : \/ purge_expired_oauth_states(c) \/ consume_oauth_state(c)
                                  \/ exchange_code(c)
    PROVE  GrantInv'
<1> USE DEF GrantInv
<1>0. /\ src \in [row : {"none", "row", "removed"}, active : BOOLEAN, gone : BOOLEAN,
                  polled : BOOLEAN, items : BOOLEAN, labels : BOOLEAN]
      /\ consent \in [Consents -> [st : {"none", "open", "held", "exchanged", "spent"},
                                   wide : BOOLEAN, acct : Boxes]]
      /\ Accounts \subseteq Boxes /\ None \in Boxes /\ None \notin Accounts
      /\ access.live \in BOOLEAN
  BY GrantFacts DEF GrantTypes, Boxes
<1>1. CASE connect_source
  <2>1. GrantTypes' /\ StampsSound' /\ AddressSound'
    BY <1>0, <1>1, GrantStill DEF connect_source, start_oauth
  <2>2. SourceSound'
    BY <1>0, <1>1 DEF connect_source, start_oauth, SourceSound
  <2> QED
    BY <2>1, <2>2
<1>2. CASE set_label_sync
  <2>1. GrantTypes' /\ StampsSound' /\ AddressSound'
    BY <1>0, <1>2, GrantStill DEF set_label_sync
  <2>2. SourceSound'
    BY <1>0, <1>2 DEF set_label_sync, SourceSound
  <2> QED
    BY <2>1, <2>2
<1>3. CASE reauthorize_source
  <2>1. GrantTypes' /\ StampsSound' /\ AddressSound'
    BY <1>0, <1>3, GrantStill DEF reauthorize_source, start_oauth
  <2>2. SourceSound'
    BY <1>0, <1>3 DEF reauthorize_source, start_oauth, SourceSound
  <2> QED
    BY <2>1, <2>2
<1>4. CASE poll_source
  <2>1. GrantTypes' /\ StampsSound' /\ AddressSound'
    BY <1>0, <1>4, GrantStill DEF poll_source
  <2>2. SourceSound'
    BY <1>4 DEF poll_source, SourceSound
  <2> QED
    BY <2>1, <2>2
<1>5. CASE remove_source
  <2>0. /\ src.row = "row" /\ grant.stamp = 0 /\ ~ src.active /\ ~ src.polled
        /\ ~ src.gone /\ ~ src.items
        /\ \A c \in Consents : consent[c].st \notin {"held", "exchanged"}
        /\ src' = [src EXCEPT !.row = "removed"]
        /\ consent' = [c \in Consents |->
                          IF consent[c].st = "open" THEN SpentConsent ELSE consent[c]]
        /\ UNCHANGED <<mbox, grant, access, worker, stamps, seen>>
    BY <1>5 DEF remove_source, remove_unused_source
  <2>1. SpentConsent.st = "spent" /\
        SpentConsent \in [st : {"none", "open", "held", "exchanged", "spent"},
                          wide : BOOLEAN, acct : Boxes]
    BY <1>0 DEF SpentConsent, NoConsent
  <2>2. GrantTypes' /\ StampsSound' /\ AddressSound'
    BY <1>0, <2>0, <2>1, GrantStill
  <2>3. seen.read = {} /\ \A k \in Kinds : worker[k].at = "idle"
    <3>1. seen.read = {} /\ worker["poll"].at = "idle" /\ worker["extract"].at = "idle"
      BY <2>0 DEF SourceSound
    <3>2. worker["label"].at = "idle"
      BY <3>1 DEF AddressSound
    <3> QED
      BY <3>1, <3>2 DEF Kinds
  <2>4. SourceSound'
    BY <1>0, <2>0, <2>1, <2>3 DEF SourceSound, Kinds
  <2> QED
    BY <2>2, <2>4
<1>6. CASE handle_poll_returns
  <2>1. GrantTypes' /\ StampsSound' /\ AddressSound'
    BY <1>0, <1>6, GrantStill DEF handle_poll_returns
  <2>2. SourceSound'
    BY <1>6 DEF handle_poll_returns, SourceSound
  <2> QED
    BY <2>1, <2>2
<1>7. CASE expire_access
  <2>1. GrantTypes' /\ StampsSound' /\ AddressSound'
    BY <1>0, <1>7, GrantStill DEF expire_access
  <2>2. SourceSound'
    BY <1>7 DEF expire_access, SourceSound
  <2> QED
    BY <2>1, <2>2
<1>8. CASE revoke
  <2>1. GrantTypes' /\ StampsSound' /\ AddressSound'
    BY <1>0, <1>8, GrantStill DEF revoke
  <2>2. SourceSound'
    BY <1>8 DEF revoke, SourceSound
  <2> QED
    BY <2>1, <2>2
<1>9. ASSUME NEW c \in Consents,
             \/ purge_expired_oauth_states(c) \/ consume_oauth_state(c) \/ exchange_code(c)
      PROVE  GrantInv'
  <2>1. /\ UNCHANGED <<src, mbox, grant, access, worker, stamps, seen>>
        /\ consent[c].st \in {"open", "held"}
        /\ \E row \in [st : {"spent", "held", "open", "exchanged"}, wide : BOOLEAN, acct : Boxes] :
               /\ row.st = "exchanged" => row.acct # None
               /\ consent' = [consent EXCEPT ![c] = row]
    <3>1. CASE purge_expired_oauth_states(c)
      BY <1>0, <3>1 DEF purge_expired_oauth_states, SpentConsent, NoConsent
    <3>2. CASE consume_oauth_state(c)
      BY <1>0, <3>2 DEF consume_oauth_state
    <3>3. CASE exchange_code(c)
      BY <1>0, <3>3 DEF exchange_code
    <3> QED
      BY <1>9, <3>1, <3>2, <3>3
  <2>2. GrantTypes' /\ StampsSound' /\ AddressSound'
    BY <1>0, <2>1, GrantStill
  <2>3. SourceSound'
    BY <1>0, <2>1 DEF SourceSound
  <2> QED
    BY <2>2, <2>3
<1> QED
  BY <1>1, <1>2, <1>3, <1>4, <1>5, <1>6, <1>7, <1>8, <1>9

\* The credentials go, and no transaction holds a token minted from them.
LEMMA CredentialsGo ==
    ASSUME GrantInv, NEW k \in Kinds, grant' = NoGrant,
           access' = NoAccess \/ access' = access,
           worker' = worker \/ worker' = [worker EXCEPT ![k] = Rest],
           \A j \in Kinds : worker'[j].minted = FALSE,
           src' = Disconnected(src) \/ (src' = [src EXCEPT !.active = FALSE] /\ grant.stamp = 0),
           mbox' = mbox, consent' = consent, stamps' = stamps, seen' = seen
    PROVE  GrantInv'
<1> USE DEF GrantInv
<1>0. Rest \in Workers /\ Rest.at = "idle" /\ ~ Rest.minted /\ ~ Rest.due
      /\ Rest.of.stamp = 0 /\ Rest.to = 0
  BY DEF Rest, Workers, NoGrant, Boxes
<1>1. /\ worker' \in [Kinds -> Workers]
      /\ \A j \in Kinds : worker'[j] = worker[j] \/ worker'[j] = Rest
  BY <1>0 DEF GrantTypes
<1>2. NoGrant \in [stamp : Nat, acct : Boxes, wide : BOOLEAN] /\ NoGrant.stamp = 0
      /\ NoAccess \in [acct : Boxes, wide : BOOLEAN, live : BOOLEAN]
  BY DEF NoGrant, NoAccess, Boxes
<1>3. /\ src'.row = src.row /\ ~ src'.active /\ src'.polled = src.polled
      /\ src'.items = src.items
      /\ src.active \/ src.gone => src'.gone
      /\ src' \in [row : {"none", "row", "removed"}, active : BOOLEAN, gone : BOOLEAN,
                   polled : BOOLEAN, items : BOOLEAN, labels : BOOLEAN]
  BY DEF Disconnected, GrantTypes, SourceSound
<1>4. GrantTypes'
  BY <1>1, <1>2, <1>3 DEF GrantTypes
<1>5. StampsSound'
  <2>1. stamps \in Nat /\ mbox.vfor <= stamps
    BY DEF GrantTypes, StampsSound
  <2>2. \A j \in Kinds : WorkerSound(j, worker[j])'
    <3>1. Rest.of.stamp <= stamps /\ Rest.to <= stamps
      BY <1>0, <2>1
    <3> QED
      BY <1>0, <1>1, <3>1 DEF WorkerSound, StampsSound
  <2>3. \A s, a : Stands(s, a)'
    BY <1>2 DEF Stands
  <2>4. \A s : s # 0 => Cached(s)'
    BY <1>2 DEF Cached
  <2>5. mbox.addr # None => mbox.vfor # 0
    BY DEF StampsSound
  <2>6. worker'["label"].at = "checking" => worker'["label"].to # 0
    BY <1>0, <1>1 DEF StampsSound, Kinds
  <2>7. grant'.stamp <= stamps' /\ mbox'.vfor <= stamps' /\ grant'.stamp = 0
    BY <1>2, <2>1
  <2> QED
    BY <2>2, <2>3, <2>4, <2>5, <2>6, <2>7 DEF StampsSound
<1>6. AddressSound'
  BY <1>0, <1>1, <1>3 DEF AddressSound, Kinds
<1>7. SourceSound'
  BY <1>0, <1>1, <1>2, <1>3 DEF SourceSound, Kinds
<1> QED
  BY <1>4, <1>5, <1>6, <1>7

\* A disconnect that waits changes nothing; one that acts finds no mint under way.
LEMMA DisconnectKeeps ==
    ASSUME GrantInv,
           \/ disconnect_source \/ disconnect_after_wait
           \/ \E k \in Kinds : check_mailbox_mismatch(k)
    PROVE  GrantInv'
<1> USE DEF GrantInv
<1>1. CASE disconnect_source /\ GrantLocked
  <2>0. src \in [row : {"none", "row", "removed"}, active : BOOLEAN, gone : BOOLEAN,
                  polled : BOOLEAN, items : BOOLEAN, labels : BOOLEAN]
        /\ consent \in [Consents -> [st : {"none", "open", "held", "exchanged", "spent"},
                                   wide : BOOLEAN, acct : Boxes]]
    BY DEF GrantTypes
  <2>1. UNCHANGED <<src, grant, access, mbox, consent, worker, stamps, seen>>
    BY <1>1 DEF disconnect_source
  <2>2. GrantTypes' /\ StampsSound' /\ AddressSound'
    BY <2>0, <2>1, GrantStill
  <2>3. SourceSound'
    BY <2>1 DEF SourceSound
  <2> QED
    BY <2>2, <2>3
<1>2. CASE disconnect_source /\ ~ GrantLocked
  <2>1. \A k \in Kinds : worker[k].minted = FALSE
    BY <1>2, GrantFacts DEF GrantTypes, Workers
  <2>2. "poll" \in Kinds
    BY DEF Kinds
  <2> QED
    BY <1>2, <2>1, <2>2, CredentialsGo DEF disconnect_source
<1>3. CASE disconnect_after_wait
  <2>1. \A k \in Kinds : worker[k].minted = FALSE
    BY <1>3, GrantFacts DEF GrantTypes, Workers, disconnect_after_wait
  <2>2. "poll" \in Kinds
    BY DEF Kinds
  <2> QED
    BY <1>3, <2>1, <2>2, CredentialsGo DEF disconnect_after_wait
<1>4. ASSUME NEW k \in Kinds, check_mailbox_mismatch(k) PROVE GrantInv'
  <2>1. worker[k].at = "checking" /\ worker[k].due /\ k # "extract"
    BY <1>4 DEF check_mailbox_mismatch, StampsSound, WorkerSound
  <2>2. \A j \in Kinds : j # k => worker[j].minted = FALSE
    <3>1. CASE k = "poll"
      BY <2>1, <3>1 DEF StampsSound, WorkerSound, GrantTypes, Workers
    <3>2. CASE k = "label"
      BY <1>4, <3>2, GrantFacts DEF check_mailbox_mismatch, GrantTypes, Workers
    <3> QED
      BY <2>1, <3>1, <3>2 DEF Kinds
  <2>3. worker' = [worker EXCEPT ![k] = Rest] /\ Rest.minted = FALSE
    BY <1>4 DEF check_mailbox_mismatch, Done, Rest
  <2>4. \A j \in Kinds : worker'[j].minted = FALSE
    BY <2>2, <2>3 DEF GrantTypes
  <2> QED
    BY <1>4, <2>3, <2>4, CredentialsGo DEF check_mailbox_mismatch
<1> QED
  BY <1>1, <1>2, <1>3, <1>4

\* Stored under a fresh stamp, a grant of any account takes nothing with it.
LEMMA CallbackKeeps ==
    ASSUME GrantInv, NEW c \in Consents, oauth_callback(c) PROVE GrantInv'
<1> USE DEF GrantInv
<1>0. /\ consent[c].st = "exchanged" /\ src.row = "row" /\ stamps \in Nat
      /\ consent[c].acct \in Boxes /\ consent[c].acct # None
      /\ \A k \in Kinds : worker[k].minted = FALSE
  BY GrantFacts DEF oauth_callback, SourceSound, GrantTypes, Workers
<1>1. /\ stamps' = stamps + 1 /\ src' = [src EXCEPT !.active = TRUE]
      /\ consent' = [consent EXCEPT ![c] = SpentConsent]
      /\ UNCHANGED <<mbox, access, worker, seen>>
  BY DEF oauth_callback
<1>2. PICK wide \in BOOLEAN :
          grant' = [stamp |-> stamps + 1, acct |-> consent[c].acct, wide |-> wide]
  <2>1. consent[c].wide \in BOOLEAN
    BY DEF GrantTypes
  <2> QED
    BY <2>1 DEF oauth_callback
<1>3. grant'.stamp = stamps + 1 /\ grant'.acct = consent[c].acct
      /\ grant' \in [stamp : Nat, acct : Boxes, wide : BOOLEAN]
  BY <1>0, <1>2
<1>4. SpentConsent.st = "spent" /\
      SpentConsent \in [st : {"none", "open", "held", "exchanged", "spent"},
                        wide : BOOLEAN, acct : Boxes]
  BY DEF SpentConsent, NoConsent, Boxes
<1>5. GrantTypes'
  BY <1>0, <1>1, <1>3, <1>4 DEF GrantTypes
<1>6. StampsSound'
  <2>1. \A k \in Kinds : worker[k] \in Workers
    BY DEF GrantTypes
  <2>2. \A k \in Kinds : WorkerSound(k, worker[k])'
    BY <1>0, <1>1, <2>1 DEF WorkerSound, StampsSound, Workers
  <2>3. \A s \in Nat : \A a : s <= stamps \/ a = grant'.acct => Stands(s, a)'
    BY <1>0, <1>1, <1>3 DEF Stands
  <2>4. \A s \in Nat : s <= stamps => Cached(s)'
    BY <1>0, <1>3 DEF Cached
  <2>5. \A k \in Kinds : worker[k].of.stamp \in Nat /\ worker[k].of.stamp <= stamps
                         /\ worker[k].to \in Nat /\ worker[k].to <= stamps
    BY <2>1 DEF Workers, StampsSound, WorkerSound
  <2>6. mbox.vfor \in Nat /\ mbox.vfor <= stamps /\ grant.stamp \in Nat
    BY DEF GrantTypes, StampsSound
  <2>7. grant'.stamp \in Nat /\ grant'.stamp <= stamps' /\ grant'.acct # None
        /\ mbox'.vfor <= stamps'
    BY <1>0, <1>1, <1>3, <2>6
  <2>8. Stands(grant.stamp, grant.acct)'
    BY <1>1, <2>3, <2>7 DEF Stands
  <2>9. "label" \in Kinds
    BY DEF Kinds
  <2> QED
    BY <1>0, <1>1, <2>2, <2>3, <2>4, <2>5, <2>6, <2>7, <2>8, <2>9 DEF StampsSound
<1>7. AddressSound'
  <2>1. src'.items = src.items
    BY <1>1 DEF GrantTypes
  <2> QED
    BY <1>1, <2>1 DEF AddressSound
<1>8. SourceSound'
  BY <1>0, <1>1, <1>3, <1>4 DEF SourceSound, GrantTypes
<1> QED
  BY <1>5, <1>6, <1>7, <1>8

\* A worker that begins has read the grant, or the cached token of the
\* account that was checked.
LEMMA WorkerStarts ==
    ASSUME GrantInv, NEW k \in Kinds, worker[k].at = "idle", src.row = "row",
           \/ k = "extract" /\ src.polled /\ _access_token(k, FALSE, FALSE)
           \/ k # "extract" /\ src.active
              /\ \E scoped \in BOOLEAN : _access_token(k, scoped, mailbox_check_due(mbox)),
           k = "label" => src.items,
           UNCHANGED <<src, mbox, grant, access, consent, stamps, seen>>
    PROVE  GrantInv'
<1> USE DEF GrantInv
<1>0. /\ Rest \in Workers /\ ~ Rest.minted /\ Rest.of.stamp = 0 /\ Rest.to = 0
      /\ Rest.snap \in [addr : Boxes, vfor : Nat] /\ ~ Rest.due
      /\ mbox \in [addr : Boxes, vfor : Nat] /\ access.acct \in Boxes /\ stamps \in Nat
      /\ grant \in [stamp : Nat, acct : Boxes, wide : BOOLEAN]
      /\ grant.stamp <= stamps
  BY DEF Rest, Workers, NoGrant, Boxes, GrantTypes, StampsSound
<1> DEFINE due == IF k = "extract" THEN FALSE ELSE mailbox_check_due(mbox)
<1>1. PICK w : /\ worker' = [worker EXCEPT ![k] = w]
               /\ \/ /\ w = [Rest EXCEPT !.at = "using", !.tok = access.acct,
                                         !.snap = IF k = "poll" THEN mbox ELSE Rest.snap]
                     /\ ~ due /\ access.live
                  \/ w = [Rest EXCEPT !.at = "minting", !.of = grant, !.due = due,
                                      !.snap = IF k = "extract" THEN Rest.snap ELSE mbox]
  BY DEF _access_token
<1>2. due \in BOOLEAN /\ (k = "extract" => ~ due)
  BY DEF mailbox_check_due
<1>3. k # "extract" /\ ~ due =>
          /\ mbox.addr # None /\ mbox.vfor = grant.stamp /\ mbox.addr = grant.acct
          /\ access.live => access.acct = grant.acct
  BY DEF mailbox_check_due, StampsSound, SourceSound, Stands, Cached
<1> HIDE DEF due
<1>4. /\ w \in Workers /\ w.at \in {"using", "minting"} /\ ~ w.minted
      /\ w.of.stamp \in {0, grant.stamp} /\ w.to = 0
      /\ w.at = "using" => w.tok = access.acct /\ ~ due /\ access.live /\ ~ w.due
                           /\ w.of.stamp = 0
      /\ w.at = "minting" => w.of = grant /\ w.due = due
      /\ k # "extract" /\ (k = "label" => w.at = "minting") => w.snap = mbox
  <2>1. CASE w = [Rest EXCEPT !.at = "using", !.tok = access.acct,
                              !.snap = IF k = "poll" THEN mbox ELSE Rest.snap]
             /\ ~ due /\ access.live
    BY <1>0, <2>1, <1>2 DEF Workers, Kinds
  <2>2. CASE w = [Rest EXCEPT !.at = "minting", !.of = grant, !.due = due,
                              !.snap = IF k = "extract" THEN Rest.snap ELSE mbox]
    BY <1>0, <1>2, <2>2 DEF Workers
  <2> QED
    BY <1>1, <2>1, <2>2
<1>5. /\ worker' \in [Kinds -> Workers] /\ worker'[k] = w
      /\ \A j \in Kinds : j # k => worker'[j] = worker[j]
  BY <1>1, <1>4 DEF GrantTypes
<1>6. GrantTypes'
  BY <1>5 DEF GrantTypes
<1>7. StampsSound'
  <2>1. WorkerSound(k, worker[k])'
    BY <1>0, <1>2, <1>4, <1>5 DEF WorkerSound, StampsSound
  <2>2. \A j \in Kinds : WorkerSound(j, worker[j])'
    BY <1>5, <2>1 DEF WorkerSound, StampsSound
  <2>3. \A s, a : Stands(s, a) => Stands(s, a)'
    BY <1>4, <1>5 DEF Stands
  <2>4. \A s : Cached(s) => Cached(s)'
    BY DEF Cached
  <2>5. worker[k].at # "checking" /\ ~ worker[k].minted /\ w.at # "checking"
    BY <1>4 DEF StampsSound, WorkerSound
  <2>6. \A j \in Kinds : worker'[j].at = "minting" => Stands(worker'[j].of.stamp, worker'[j].of.acct)
    BY <1>4, <1>5 DEF StampsSound
  <2>7. \A i, j \in Kinds : worker'[i].minted /\ worker'[j].minted => i = j
    BY <1>4, <1>5 DEF StampsSound
  <2>8. worker'["label"].at = "checking" => worker'["label"] = worker["label"]
    BY <1>5, <2>5 DEF Kinds
  <2> QED
    BY <2>2, <2>3, <2>4, <2>6, <2>7, <2>8 DEF StampsSound
<1>8. AddressSound'
  <2>1. src.items => seen.read # {}
    BY DEF AddressSound
  <2>2. CASE k = "poll"
    BY <1>3, <1>4, <1>5, <2>2 DEF AddressSound, Kinds
  <2>3. CASE k = "label"
    BY <1>3, <1>4, <1>5, <2>1, <2>3 DEF AddressSound, Kinds
  <2>4. CASE k = "extract"
    BY <1>5, <2>4 DEF AddressSound, Kinds
  <2> QED
    BY <2>2, <2>3, <2>4 DEF Kinds
<1>9. SourceSound'
  BY <1>5 DEF SourceSound, Kinds
<1> QED
  BY <1>6, <1>7, <1>8, <1>9

\* A worker that stops, its uncommitted writes gone with it
LEMMA WorkerStops ==
    ASSUME GrantInv, NEW k \in Kinds, worker[k].at # "idle",
           worker' = [worker EXCEPT ![k] = Rest],
           src' = src \/ src' = [src EXCEPT !.polled = TRUE],
           seen'.read = seen.read,
           \/ seen'.written = seen.written
           \/ seen'.written = seen.written \cup {mbox.addr} /\ mbox.addr # None,
           UNCHANGED <<mbox, grant, access, consent, stamps>>
    PROVE  GrantInv'
<1> USE DEF GrantInv
<1>0. Rest \in Workers /\ Rest.at = "idle" /\ ~ Rest.minted /\ ~ Rest.due
      /\ Rest.of.stamp = 0 /\ Rest.to = 0
  BY DEF Rest, Workers, NoGrant, Boxes
<1>1. /\ worker' \in [Kinds -> Workers] /\ worker'[k] = Rest
      /\ \A j \in Kinds : j # k => worker'[j] = worker[j]
  BY <1>0 DEF GrantTypes
<1>2. /\ src'.row = src.row /\ src'.active = src.active /\ src'.gone = src.gone
      /\ src'.items = src.items /\ (src.polled => src'.polled)
      /\ src' \in [row : {"none", "row", "removed"}, active : BOOLEAN, gone : BOOLEAN,
                   polled : BOOLEAN, items : BOOLEAN, labels : BOOLEAN]
  BY DEF GrantTypes
<1>3. seen'.written \subseteq Accounts
  BY DEF GrantTypes, Boxes
<1>4. GrantTypes'
  BY <1>1, <1>2, <1>3 DEF GrantTypes
<1>5. StampsSound'
  <2>1. stamps \in Nat
    BY DEF GrantTypes
  <2>2. \A j \in Kinds : WorkerSound(j, worker[j])'
    <3>1. Rest.of.stamp <= stamps /\ Rest.to <= stamps
      BY <1>0, <2>1
    <3> QED
      BY <1>0, <1>1, <3>1 DEF WorkerSound, StampsSound
  <2>3. \A s, a : Stands(s, a) => Stands(s, a)'
    BY <1>0, <1>1 DEF Stands
  <2>4. \A s : Cached(s) => Cached(s)'
    BY DEF Cached
  <2>5. \A j \in Kinds : worker'[j].at # "idle" => worker'[j] = worker[j]
    BY <1>0, <1>1
  <2>6. \A i, j \in Kinds : worker'[i].minted /\ worker'[j].minted => i = j
    BY <1>0, <1>1 DEF StampsSound
  <2>7. "label" \in Kinds
    BY DEF Kinds
  <2> QED
    BY <2>2, <2>3, <2>4, <2>5, <2>6, <2>7 DEF StampsSound
<1>6. AddressSound'
  BY <1>0, <1>1, <1>2 DEF AddressSound, Kinds
<1>7. SourceSound'
  BY <1>0, <1>1, <1>2 DEF SourceSound, Kinds
<1> QED
  BY <1>4, <1>5, <1>6, <1>7

\* The address the grant reaches is the one recorded, or there was none.
LEMMA CheckKeeps ==
    ASSUME GrantInv, NEW k \in Kinds, check_mailbox(k) PROVE GrantInv'
<1> USE DEF GrantInv
<1> DEFINE w == worker[k]
<1>0. /\ w \in Workers /\ w.at = "checking" /\ w.snap.addr \in {None, w.tok}
      /\ worker' = [worker EXCEPT ![k].at = "using"]
      /\ mbox' = IF k = "label" THEN [addr |-> w.tok, vfor |-> w.to] ELSE mbox
      /\ UNCHANGED <<src, grant, access, consent, stamps, seen>>
  BY DEF check_mailbox, Go, GrantTypes
<1>1. /\ worker' \in [Kinds -> Workers] /\ worker'[k] = [w EXCEPT !.at = "using"]
      /\ \A j \in Kinds : j # k => worker'[j] = worker[j]
  BY <1>0 DEF GrantTypes, Workers
<1>2. /\ worker'[k].at = "using" /\ worker'[k].minted = w.minted /\ worker'[k].to = w.to
      /\ worker'[k].tok = w.tok /\ worker'[k].of = w.of /\ worker'[k].due = w.due
      /\ worker'[k].snap = w.snap
  BY <1>0, <1>1 DEF Workers
<1>3. w.due /\ k # "extract" /\ w.tok # None
      /\ (k = "label" => mbox.addr = w.tok)
  <2>1. w.due /\ k # "extract"
    BY <1>0 DEF StampsSound, WorkerSound
  <2>2. CASE k = "poll"
    BY <1>0, <2>1, <2>2 DEF StampsSound, WorkerSound
  <2>3. CASE k = "label"
    <3>1. mbox.addr # None /\ w.snap.addr = mbox.addr
      BY <1>0, <2>3, GrantFacts DEF AddressSound
    <3> QED
      BY <1>0, <2>1, <2>3, <3>1
  <2> QED
    BY <2>1, <2>2, <2>3 DEF Kinds
<1> HIDE DEF w
<1>4. GrantTypes'
  BY <1>0, <1>1 DEF GrantTypes, Workers
<1>5. StampsSound'
  <2>1. \A j \in Kinds : WorkerSound(j, worker[j]) => WorkerSound(j, worker[j])'
    BY <1>0, <1>1, <1>2, <1>3 DEF WorkerSound, w, Workers
  <2>2. \A s, a : Stands(s, a) <=> Stands(s, a)'
    BY <1>0, <1>1, <1>2 DEF Stands, w
  <2>3. \A s : Cached(s) <=> Cached(s)'
    BY <1>0 DEF Cached
  <2>4. \A j \in Kinds : worker'[j].at # "using" => worker'[j] = worker[j]
    BY <1>1, <1>2
  <2>5. \A i, j \in Kinds : worker'[i].minted /\ worker'[j].minted => i = j
    BY <1>1, <1>2 DEF StampsSound, w
  <2>6. mbox'.vfor <= stamps' /\ (mbox'.addr # None =>
            mbox'.vfor # 0 /\ Stands(mbox'.vfor, mbox'.addr) /\ Cached(mbox'.vfor))
    <3>1. CASE k = "label"
      BY <1>0, <3>1 DEF StampsSound, WorkerSound, w
    <3>2. CASE k # "label"
      BY <1>0, <3>2 DEF StampsSound
    <3> QED
      BY <3>1, <3>2
  <2>7. "label" \in Kinds
    BY DEF Kinds
  <2> QED
    BY <1>0, <2>1, <2>2, <2>3, <2>4, <2>5, <2>6, <2>7 DEF StampsSound
<1>6. AddressSound'
  <2>1. mbox'.addr = mbox.addr
    BY <1>0, <1>3 DEF w
  <2>2. CASE k = "poll"
    <3>1. w.snap.addr = mbox.addr
      BY <1>0, <2>2 DEF AddressSound, w
    <3> QED
      BY <1>0, <1>1, <1>2, <1>3, <2>1, <2>2, <3>1 DEF AddressSound, Kinds
  <2>3. CASE k = "label"
    BY <1>0, <1>1, <1>2, <1>3, <2>1, <2>3 DEF AddressSound, Kinds, w
  <2> QED
    BY <1>3, <2>2, <2>3 DEF Kinds
<1>7. SourceSound'
  BY <1>0, <1>1, <1>2 DEF SourceSound, w
<1> QED
  BY <1>4, <1>5, <1>6, <1>7

\* What carrying the check of an old stamp to its successor leaves recorded
LEMMA CarryKeeps ==
    ASSUME GrantInv, NEW old, old = grant.stamp, NEW to \in Nat, to # 0,
           NEW m, m = carry_source_sync_state_key(mbox, old, to)
    PROVE  /\ m \in [addr : Boxes, vfor : Nat] /\ m.addr = mbox.addr
           /\ m.vfor = mbox.vfor \/ (m.vfor = to /\ mbox.vfor = old)
           /\ m.addr # None => m.vfor # 0
<1>1. mbox \in [addr : Boxes, vfor : Nat] /\ (mbox.addr # None => mbox.vfor # 0)
  BY DEF GrantInv, GrantTypes, StampsSound
<1> QED
  BY <1>1 DEF carry_source_sync_state_key

\* A token is minted: the stamp it is of stands for the account it reaches,
\* whether the row holds it already or a transaction will store it.
LEMMA MintKeeps ==
    ASSUME GrantInv, NEW k \in Kinds, mint_token(k) PROVE GrantInv'
<1> USE DEF GrantInv
<1> DEFINE w == worker[k]
<1>0. /\ w \in Workers /\ w.at = "minting" /\ w.of.stamp # 0 /\ w.of.stamp = grant.stamp
      /\ \A j \in Kinds : worker[j].minted = FALSE
      /\ stamps \in Nat /\ grant \in [stamp : Nat, acct : Boxes, wide : BOOLEAN]
      /\ UNCHANGED <<src, consent, seen>>
      /\ grant.stamp <= stamps /\ mbox.vfor <= stamps /\ mbox.vfor \in Nat
  BY GrantFacts DEF mint_token, mint_token_current, GrantTypes, Workers, StampsSound
<1>1. w.of.acct = grant.acct /\ grant.acct # None
  BY <1>0 DEF StampsSound, Stands
<1>2. PICK to \in Nat :
        /\ to # 0 /\ (to = grant.stamp \/ to = stamps + 1)
        /\ stamps' \in Nat /\ to <= stamps' /\ stamps <= stamps'
        /\ worker' = [worker EXCEPT ![k] = [worker[k] EXCEPT
                         !.at = After(k), !.tok = worker[k].of.acct, !.to = to,
                         !.minted = k # "label"]]
        /\ IF k = "label"
           THEN /\ access' = [acct |-> w.of.acct, wide |-> w.of.wide, live |-> TRUE]
                /\ grant' = [grant EXCEPT !.stamp = to]
                /\ mbox' = carry_source_sync_state_key(mbox, w.of.stamp, to)
           ELSE UNCHANGED <<access, grant, mbox>>
  <2>1. PICK to \in {worker[k].of.stamp} \cup (IF stamps < MaxStamps THEN {stamps + 1} ELSE {}) :
           /\ stamps' = IF to > stamps THEN to ELSE stamps
           /\ worker' = [worker EXCEPT ![k] = [worker[k] EXCEPT
                            !.at = After(k), !.tok = worker[k].of.acct, !.to = to,
                            !.minted = k # "label"]]
           /\ IF k = "label"
              THEN /\ access' = [acct |-> worker[k].of.acct, wide |-> worker[k].of.wide,
                                 live |-> TRUE]
                   /\ grant' = [grant EXCEPT !.stamp = to]
                   /\ mbox' = carry_source_sync_state_key(mbox, worker[k].of.stamp, to)
              ELSE UNCHANGED <<access, grant, mbox>>
    BY DEF mint_token
  <2>2. to \in Nat /\ to # 0 /\ (to = grant.stamp \/ to = stamps + 1)
    BY <1>0, <2>1
  <2>3. stamps' \in Nat /\ to <= stamps' /\ stamps <= stamps'
    BY <1>0, <2>1, <2>2
  <2> QED
    BY <2>1, <2>2, <2>3
<1> DEFINE n == worker'[k]
<1>3. /\ worker' \in [Kinds -> Workers]
      /\ \A j \in Kinds : j # k => worker'[j] = worker[j]
      /\ n.at = (IF w.due THEN "checking" ELSE "using") /\ n.tok = grant.acct /\ n.to = to
      /\ n.minted = (k # "label") /\ n.of = w.of /\ n.due = w.due /\ n.snap = w.snap
  <2>1. After(k) = (IF w.due THEN "checking" ELSE "using")
    BY DEF After
  <2>2. After(k) \in {"checking", "using"} /\ w.of.acct \in Boxes
    BY <1>0, <2>1 DEF Workers
  <2>3. worker \in [Kinds -> Workers] /\ w \in Workers
    BY <1>0 DEF GrantTypes
  <2>4. n = [worker[k] EXCEPT !.at = After(k), !.tok = worker[k].of.acct, !.to = to,
                              !.minted = k # "label"]
    BY <1>2, <2>3
  <2>5. n \in Workers
    BY <1>2, <2>2, <2>3, <2>4 DEF Workers
  <2>6. /\ n.at = After(k) /\ n.tok = w.of.acct /\ n.to = to /\ n.minted = (k # "label")
        /\ n.of = w.of /\ n.due = w.due /\ n.snap = w.snap
    BY <2>3, <2>4 DEF Workers
  <2> QED
    BY <1>1, <1>2, <2>1, <2>3, <2>5, <2>6
<1> HIDE DEF w, n
<1>4. /\ grant' \in [stamp : Nat, acct : Boxes, wide : BOOLEAN] /\ grant'.acct = grant.acct
      /\ grant'.stamp = IF k = "label" THEN to ELSE grant.stamp
      /\ grant'.stamp # 0 /\ grant'.stamp <= stamps'
  BY <1>0, <1>2
<1>5. /\ mbox' \in [addr : Boxes, vfor : Nat] /\ mbox'.addr = mbox.addr
      /\ mbox'.vfor = mbox.vfor \/ (k = "label" /\ mbox'.vfor = to /\ mbox.vfor = grant.stamp)
      /\ mbox'.addr # None => mbox'.vfor # 0
  <2>1. CASE k = "label"
    BY <1>0, <1>2, <2>1, CarryKeeps
  <2>2. CASE k # "label"
    BY <1>2, <2>2 DEF GrantTypes, StampsSound
  <2> QED
    BY <2>1, <2>2
<1>6. GrantTypes'
  <2>1. access' \in [acct : Boxes, wide : BOOLEAN, live : BOOLEAN]
    <3>1. w.of.acct \in Boxes /\ w.of.wide \in BOOLEAN
      BY <1>0 DEF Workers
    <3>2. CASE k = "label"
      <4>1. access' = [acct |-> w.of.acct, wide |-> w.of.wide, live |-> TRUE]
        BY <1>2, <3>2
      <4> QED
        BY <3>1, <4>1
    <3>3. CASE k # "label"
      BY <1>2, <3>3 DEF GrantTypes
    <3> QED
      BY <3>2, <3>3
  <2> QED
    BY <1>0, <1>2, <1>3, <1>4, <1>5, <2>1 DEF GrantTypes
<1>7. StampsSound'
  <2>1. \A s \in Nat : \A a : s <= stamps /\ Stands(s, a) => Stands(s, a)'
    <3> SUFFICES ASSUME NEW s \in Nat, NEW a, s <= stamps, Stands(s, a) PROVE Stands(s, a)'
      OBVIOUS
    <3>1. s = to => s = grant.stamp
      BY <1>0, <1>2
    <3>2. s # 0 /\ s = grant'.stamp => a = grant'.acct
      BY <1>2, <1>4, <3>1 DEF Stands
    <3>3. \A j \in Kinds : worker'[j].minted /\ s = worker'[j].to => a = worker'[j].tok
      BY <1>0, <1>2, <1>3, <3>1 DEF Stands, n
    <3> QED
      BY <3>2, <3>3 DEF Stands
  <2>2. Stands(to, grant.acct)'
    BY <1>0, <1>2, <1>3, <1>4 DEF Stands, n
  <2>3. Stands(grant.stamp, grant.acct)'
    <3>1. \A j \in Kinds : worker'[j].minted => worker'[j].tok = grant.acct
      BY <1>0, <1>3 DEF n
    <3> QED
      BY <1>4, <3>1 DEF Stands
  <2>4. \A s \in Nat : Cached(s) => Cached(s)'
    BY <1>1, <1>2, <1>4 DEF Cached, w
  <2>4a. k = "label" => \A s \in Nat : Cached(s)'
    BY <1>1, <1>2, <1>4 DEF Cached, w
  <2>5. \A j \in Kinds : WorkerSound(j, worker[j])'
    <3>1. ASSUME NEW j \in Kinds, j # k PROVE WorkerSound(j, worker[j])'
      <4>1. worker[j] \in Workers /\ WorkerSound(j, worker[j])
        BY DEF GrantTypes, StampsSound
      <4> QED
        BY <1>0, <1>2, <1>3, <3>1, <4>1 DEF WorkerSound, Workers
    <3>2. WorkerSound(k, worker[k])'
      <4>1. w.of.stamp <= stamps' /\ n.to <= stamps'
        BY <1>0, <1>2, <1>3
      <4>2. (k = "extract" => ~ w.due) /\ w.due \in BOOLEAN
        BY <1>0 DEF StampsSound, WorkerSound, w, Workers
      <4>3. CASE k = "label"
        <5>1. n.minted = FALSE
          BY <1>3, <4>3
        <5> QED
          BY <1>0, <1>1, <1>3, <4>1, <4>2, <4>3, <5>1 DEF WorkerSound, n
      <4>4. CASE k # "label"
        <5>1. n.minted = TRUE /\ grant' = grant
          BY <1>2, <1>3, <4>4
        <5> QED
          BY <1>0, <1>1, <1>2, <1>3, <4>1, <4>2, <4>4, <5>1 DEF WorkerSound, n
      <4> QED
        BY <4>3, <4>4
    <3> QED
      BY <3>1, <3>2
  <2>6. \A i, j \in Kinds : worker'[i].minted /\ worker'[j].minted => i = j
    BY <1>0, <1>3
  <2>7. mbox'.vfor <= stamps' /\ (mbox'.addr # None =>
            mbox'.vfor # 0 /\ Stands(mbox.vfor, mbox.addr)' /\ Cached(mbox.vfor)')
    <3>1. mbox'.vfor <= stamps'
      BY <1>0, <1>2, <1>5
    <3> SUFFICES ASSUME mbox.addr # None
                 PROVE  Stands(mbox.vfor, mbox.addr)' /\ Cached(mbox.vfor)'
      BY <1>5, <3>1
    <3>2. mbox.vfor # 0 /\ Stands(mbox.vfor, mbox.addr) /\ Cached(mbox.vfor)
      BY DEF StampsSound
    <3>3. CASE mbox'.vfor = mbox.vfor
      BY <1>0, <1>5, <2>1, <2>4, <3>2, <3>3
    <3>4. CASE k = "label" /\ mbox'.vfor = to /\ mbox.vfor = grant.stamp
      <4>1. mbox.addr = grant.acct
        BY <3>2, <3>4 DEF Stands
      <4>2. \A s, a : s = to /\ a = grant'.acct => Stands(s, a)' /\ Cached(s)'
        BY <1>2, <2>2, <2>4a, <3>4 DEF Stands
      <4>3. mbox'.vfor = to /\ mbox'.addr = grant'.acct
        BY <1>4, <1>5, <3>4, <4>1
      <4> QED
        BY <4>2, <4>3 DEF Stands, Cached
    <3> QED
      BY <1>5, <3>3, <3>4
  <2>8. \A j \in Kinds : worker'[j].at = "minting" => Stands(worker[j].of.stamp, worker[j].of.acct)'
    <3> SUFFICES ASSUME NEW j \in Kinds, worker'[j].at = "minting"
                 PROVE  Stands(worker[j].of.stamp, worker[j].of.acct)'
      OBVIOUS
    <3>1. j # k
      BY <1>3 DEF n
    <3>2. /\ worker'[j] = worker[j] /\ worker[j].of.stamp \in Nat
          /\ worker[j].of.stamp <= stamps
          /\ Stands(worker[j].of.stamp, worker[j].of.acct)
      BY <1>3, <3>1 DEF StampsSound, WorkerSound, GrantTypes, Workers
    <3>3. Stands(worker[j].of.stamp, worker[j].of.acct) =>
            \A s, a : s = worker[j].of.stamp /\ a = worker[j].of.acct => Stands(s, a)
      OBVIOUS
    <3>4. \A s, a : s = worker[j].of.stamp /\ a = worker[j].of.acct => Stands(s, a)'
      BY <2>1, <3>2, <3>3
    <3> QED
      BY <3>2, <3>4 DEF Stands
  <2>9. worker'["label"].at = "checking" =>
         /\ worker'["label"].to # 0 /\ Stands(worker["label"].to, worker["label"].tok)'
         /\ Cached(worker["label"].to)'
    <3>0. "label" \in Kinds
      BY DEF Kinds
    <3>1. CASE k = "label"
      <4>1. worker'["label"].to = to /\ worker'["label"].tok = grant.acct
        BY <1>3, <3>1 DEF n
      <4> QED
        BY <1>2, <1>4, <2>2, <2>4a, <3>1, <4>1 DEF Stands
    <3>2. CASE k # "label"
      <4> SUFFICES ASSUME worker'["label"].at = "checking"
                   PROVE  /\ worker'["label"].to # 0 /\ Stands(worker["label"].to, worker["label"].tok)'
                          /\ Cached(worker["label"].to)'
        OBVIOUS
      <4>1. /\ worker'["label"] = worker["label"] /\ worker["label"].to \in Nat
            /\ worker["label"].to <= stamps /\ worker["label"].to # 0
            /\ Stands(worker["label"].to, worker["label"].tok) /\ Cached(worker["label"].to)
        BY <1>3, <3>0, <3>2 DEF StampsSound, WorkerSound, GrantTypes, Workers
      <4>2. \A s, a : s = worker["label"].to /\ a = worker["label"].tok => Stands(s, a)' /\ Cached(s)'
        BY <2>1, <2>4, <4>1
      <4> QED
        BY <4>1, <4>2 DEF Stands
    <3> QED
      BY <3>1, <3>2
  <2> QED
    BY <1>1, <1>4, <2>3, <2>5, <2>6, <2>7, <2>8, <2>9 DEF StampsSound
<1>8. AddressSound'
  <2>1. CASE k = "poll"
    BY <1>0, <1>1, <1>3, <1>5, <2>1 DEF AddressSound, Kinds, w, n
  <2>2. CASE k = "label"
    BY <1>0, <1>1, <1>3, <1>5, <2>2 DEF AddressSound, Kinds, w, n
  <2>3. CASE k = "extract"
    BY <1>0, <1>3, <1>5, <2>3 DEF AddressSound, Kinds
  <2> QED
    BY <2>1, <2>2, <2>3 DEF Kinds
<1>9. SourceSound'
  BY <1>0, <1>3, <1>4 DEF SourceSound, Kinds, w
<1> QED
  BY <1>6, <1>7, <1>8, <1>9

\* A transaction commits: what it minted becomes the row's, its check the mailbox's.
LEMMA CommitKeeps ==
    ASSUME GrantInv, NEW k \in {"poll", "extract"}, NEW w, w = worker[k], w.at = "using",
           CommitMint(w), Done(k), stamps' = stamps,
           \/ mbox' = mbox /\ ~ w.minted
           \/ mbox' = carry_source_sync_state_key(mbox, w.of.stamp, w.to) /\ w.minted
           \/ k = "poll" /\ w.due /\ mbox' = [addr |-> w.tok, vfor |-> w.to],
           src' \in [row : {"none", "row", "removed"}, active : BOOLEAN, gone : BOOLEAN,
                     polled : BOOLEAN, items : BOOLEAN, labels : BOOLEAN],
           consent' = consent,
           seen'.read \subseteq Accounts, seen'.written = seen.written
    PROVE  /\ GrantTypes' /\ StampsSound'
           /\ grant'.stamp # 0 <=> grant.stamp # 0
           /\ worker'[k].at = "idle" /\ \A j \in Kinds : j # k => worker'[j] = worker[j]
<1> USE DEF GrantInv
<1>0. /\ k \in Kinds /\ w \in Workers /\ stamps \in Nat
      /\ grant \in [stamp : Nat, acct : Boxes, wide : BOOLEAN]
      /\ grant.stamp <= stamps /\ mbox.vfor <= stamps /\ mbox.vfor \in Nat
      /\ worker' = [worker EXCEPT ![k] = Rest]
  BY DEF Kinds, GrantTypes, StampsSound, Done
<1>1. /\ w.minted => /\ w.to # 0 /\ grant.stamp # 0
                     /\ w.of.stamp = grant.stamp /\ w.tok = grant.acct
                     /\ \A j \in Kinds : j # k => ~ worker[j].minted
      /\ k = "poll" /\ w.due => w.minted
      /\ w.to <= stamps /\ w.to \in Nat
      /\ grant.stamp # 0 => grant.acct # None
  BY <1>0 DEF StampsSound, WorkerSound, Workers
<1>2. Rest \in Workers /\ Rest.at = "idle" /\ ~ Rest.minted /\ ~ Rest.due
      /\ Rest.of.stamp = 0 /\ Rest.to = 0
  BY DEF Rest, Workers, NoGrant, Boxes
<1>3. /\ worker' \in [Kinds -> Workers] /\ worker'[k] = Rest
      /\ \A j \in Kinds : j # k => worker'[j] = worker[j]
  BY <1>0, <1>2 DEF GrantTypes
<1>4. /\ grant' \in [stamp : Nat, acct : Boxes, wide : BOOLEAN] /\ grant'.acct = grant.acct
      /\ grant'.stamp = IF w.minted THEN w.to ELSE grant.stamp
      /\ access' \in [acct : Boxes, wide : BOOLEAN, live : BOOLEAN]
      /\ w.minted => access'.acct = grant.acct
  BY <1>0, <1>1 DEF CommitMint, GrantTypes, Workers
<1>5. /\ mbox' \in [addr : Boxes, vfor : Nat]
      /\ \/ mbox'.addr = mbox.addr /\ mbox'.vfor = mbox.vfor
         \/ w.minted /\ mbox'.vfor = w.to /\ mbox'.addr = w.tok
         \/ w.minted /\ mbox'.vfor = w.to /\ mbox'.addr = mbox.addr /\ mbox.vfor = grant.stamp
      /\ mbox'.addr # None => mbox'.vfor # 0
  <2>1. CASE mbox' = mbox /\ ~ w.minted
    BY <2>1 DEF GrantTypes, StampsSound
  <2>2. CASE mbox' = carry_source_sync_state_key(mbox, w.of.stamp, w.to) /\ w.minted
    BY <1>1, <2>2, CarryKeeps
  <2>3. CASE k = "poll" /\ w.due /\ mbox' = [addr |-> w.tok, vfor |-> w.to]
    BY <1>0, <1>1, <2>3 DEF Workers
  <2> QED
    BY <2>1, <2>2, <2>3
<1>6. GrantTypes'
  BY <1>0, <1>3, <1>4, <1>5 DEF GrantTypes
<1>7. StampsSound'
  <2>1. \A s \in Nat : \A a : Stands(s, a) => Stands(s, a)'
    BY <1>0, <1>1, <1>2, <1>3, <1>4 DEF Stands
  <2>2. w.minted => \A s \in Nat : Stands(s, w.tok)'
    BY <1>1, <1>2, <1>3, <1>4 DEF Stands
  <2>3. \A s \in Nat : Cached(s) => Cached(s)'
    BY <1>4 DEF Cached, CommitMint
  <2>4. w.minted => \A s \in Nat : Cached(s)'
    BY <1>4 DEF Cached
  <2>5. \A j \in Kinds : WorkerSound(j, worker[j])'
    <3>1. ASSUME NEW j \in Kinds, j # k PROVE WorkerSound(j, worker[j])'
      <4>1. WorkerSound(j, worker[j])
        BY DEF StampsSound
      <4>2. worker[j].minted => grant'.stamp = grant.stamp
        BY <1>1, <1>4, <3>1
      <4> QED
        BY <1>3, <1>4, <3>1, <4>1, <4>2 DEF WorkerSound
    <3>2. WorkerSound(k, worker[k])'
      <4>1. Rest.of.stamp <= stamps /\ Rest.to <= stamps
        BY <1>0, <1>2
      <4> QED
        BY <1>2, <1>3, <4>1 DEF WorkerSound
    <3> QED
      BY <3>1, <3>2
  <2>6. \A i, j \in Kinds : worker'[i].minted /\ worker'[j].minted => i = j
    BY <1>2, <1>3 DEF StampsSound
  <2>7. mbox'.vfor <= stamps' /\ (mbox'.addr # None =>
            mbox'.vfor # 0 /\ Stands(mbox.vfor, mbox.addr)' /\ Cached(mbox.vfor)')
    <3>1. mbox'.vfor <= stamps' /\ mbox'.vfor \in Nat
      BY <1>0, <1>1, <1>5
    <3> SUFFICES ASSUME mbox'.addr # None
                 PROVE  Stands(mbox.vfor, mbox.addr)' /\ Cached(mbox.vfor)'
      BY <1>5, <3>1
    <3>2. mbox.addr # None => Stands(mbox.vfor, mbox.addr) /\ Cached(mbox.vfor)
      BY DEF StampsSound
    <3>3. CASE mbox'.addr = mbox.addr /\ mbox'.vfor = mbox.vfor
      BY <1>0, <2>1, <2>3, <3>2, <3>3
    <3>4. CASE w.minted /\ mbox'.vfor = w.to /\ mbox'.addr = w.tok
      BY <1>1, <2>2, <2>4, <3>4
    <3>5. CASE w.minted /\ mbox'.vfor = w.to /\ mbox'.addr = mbox.addr /\ mbox.vfor = grant.stamp
      <4>1. mbox.addr = w.tok
        BY <1>1, <3>2, <3>5 DEF Stands
      <4> QED
        BY <1>1, <2>2, <2>4, <3>5, <4>1
    <3> QED
      BY <1>5, <3>3, <3>4, <3>5
  <2>8. \A j \in Kinds : worker'[j].at = "minting" => Stands(worker[j].of.stamp, worker[j].of.acct)'
    <3> SUFFICES ASSUME NEW j \in Kinds, worker'[j].at = "minting"
                 PROVE  Stands(worker[j].of.stamp, worker[j].of.acct)'
      OBVIOUS
    <3>1. /\ worker'[j] = worker[j] /\ worker[j].of.stamp \in Nat
          /\ Stands(worker[j].of.stamp, worker[j].of.acct)
      BY <1>2, <1>3 DEF StampsSound, GrantTypes, Workers
    <3>2. \A s, a : s = worker[j].of.stamp /\ a = worker[j].of.acct => Stands(s, a)'
      BY <2>1, <3>1
    <3> QED
      BY <3>1, <3>2 DEF Stands
  <2>9. worker'["label"].at = "checking" =>
         /\ worker'["label"].to # 0 /\ Stands(worker["label"].to, worker["label"].tok)'
         /\ Cached(worker["label"].to)'
    <3> SUFFICES ASSUME worker'["label"].at = "checking"
                 PROVE  /\ worker'["label"].to # 0 /\ Stands(worker["label"].to, worker["label"].tok)'
                        /\ Cached(worker["label"].to)'
      OBVIOUS
    <3>1. /\ worker'["label"] = worker["label"] /\ worker["label"].to \in Nat
          /\ worker["label"].to # 0
          /\ Stands(worker["label"].to, worker["label"].tok) /\ Cached(worker["label"].to)
      BY <1>3 DEF StampsSound, GrantTypes, Workers, Kinds
    <3>2. \A s, a : s = worker["label"].to /\ a = worker["label"].tok => Stands(s, a)' /\ Cached(s)'
      BY <2>1, <2>3, <3>1
    <3> QED
      BY <3>1, <3>2 DEF Stands
  <2>10. Stands(grant.stamp, grant.acct)'
    <3>1. CASE w.minted
      BY <1>2, <1>3, <1>1, <1>4, <3>1 DEF Stands
    <3>2. CASE ~ w.minted
      <4>1. Stands(grant.stamp, grant.acct)
        BY DEF StampsSound
      <4> QED
        BY <1>2, <1>3, <1>4, <3>2, <4>1 DEF Stands
    <3> QED
      BY <3>1, <3>2
  <2>11. grant'.stamp <= stamps' /\ (grant'.stamp # 0 => grant'.acct # None)
    BY <1>0, <1>1, <1>4
  <2> QED
    BY <2>5, <2>6, <2>7, <2>8, <2>9, <2>10, <2>11 DEF StampsSound
<1> QED
  BY <1>1, <1>2, <1>3, <1>4, <1>6, <1>7

\* A poll's end records the mailbox it read as the source's.
LEMMA PollCommitKeeps == ASSUME GrantInv, poll_commits PROVE GrantInv'
<1> USE DEF GrantInv
<1> DEFINE w == worker["poll"]
<1>0. /\ w.at = "using" /\ CommitMint(w) /\ Done("poll") /\ stamps' = stamps
      /\ consent' = consent /\ mbox' = poll_keys(w)
      /\ src' = (IF src.row = "row" THEN [src EXCEPT !.polled = TRUE] ELSE src)
      /\ seen' = [seen EXCEPT !.read = @ \cup {w.tok}]
      /\ w \in Workers
  BY DEF poll_commits, GrantTypes, Kinds
<1>1. /\ src.row = "row" /\ w.tok # None /\ w.tok \in Accounts
      /\ mbox.addr = w.tok \/ (w.due /\ mbox.addr = None)
  BY <1>0 DEF SourceSound, AddressSound, Kinds, Workers, Boxes
<1>2. /\ src' \in [row : {"none", "row", "removed"}, active : BOOLEAN, gone : BOOLEAN,
                   polled : BOOLEAN, items : BOOLEAN, labels : BOOLEAN]
      /\ src'.row = "row" /\ src'.polled /\ src'.items = src.items
      /\ src'.active = src.active /\ src'.gone = src.gone
  BY <1>0, <1>1 DEF GrantTypes
<1>3. seen'.read = seen.read \cup {w.tok} /\ seen'.written = seen.written
  <2>1. seen' = [seen EXCEPT !.read = seen.read \cup {w.tok}]
    BY <1>0
  <2> QED
    BY <2>1 DEF GrantTypes
<1>4. \/ mbox' = mbox /\ ~ w.minted
      \/ mbox' = carry_source_sync_state_key(mbox, w.of.stamp, w.to) /\ w.minted
      \/ w.due /\ mbox' = [addr |-> w.tok, vfor |-> w.to]
  BY <1>0 DEF poll_keys
<1>5. mbox'.addr = w.tok
  BY <1>0, <1>1 DEF poll_keys, carry_source_sync_state_key, GrantTypes
<1>6. seen'.read \subseteq Accounts
  BY <1>1, <1>3 DEF GrantTypes
<1> HIDE DEF w
<1>7. /\ GrantTypes' /\ StampsSound' /\ (grant'.stamp # 0 <=> grant.stamp # 0)
      /\ worker'["poll"].at = "idle" /\ \A j \in Kinds : j # "poll" => worker'[j] = worker[j]
  BY <1>0, <1>2, <1>3, <1>4, <1>6, CommitKeeps DEF w
<1>8. AddressSound'
  <2>1. CASE mbox.addr = w.tok
    BY <1>2, <1>3, <1>5, <1>7, <2>1 DEF AddressSound, Kinds
  <2>2. CASE mbox.addr = None
    <3>1. seen.read = {} /\ seen.written = {} /\ worker["label"].at = "idle" /\ ~ src.items
      BY <2>2, GrantFacts
    <3> QED
      BY <1>2, <1>3, <1>5, <1>7, <3>1 DEF AddressSound, Kinds
  <2> QED
    BY <1>1, <2>1, <2>2
<1>9. SourceSound'
  BY <1>0, <1>1, <1>2, <1>7 DEF SourceSound, Kinds
<1> QED
  BY <1>7, <1>8, <1>9

\* An extraction's end leaves the mailbox recorded where it is.
LEMMA ExtractCommitKeeps == ASSUME GrantInv, extract_commits PROVE GrantInv'
<1> USE DEF GrantInv
<1> DEFINE w == worker["extract"]
<1>0. /\ w.at = "using" /\ CommitMint(w) /\ Done("extract") /\ stamps' = stamps
      /\ consent' = consent /\ w.tok \in seen.read /\ seen' = seen
      /\ mbox' = IF w.minted THEN carry_source_sync_state_key(mbox, w.of.stamp, w.to) ELSE mbox
      /\ src' = [src EXCEPT !.items = TRUE]
  BY DEF extract_commits
<1>1. src.row = "row" /\ src.polled
  BY <1>0 DEF SourceSound, Kinds
<1>2. /\ src' \in [row : {"none", "row", "removed"}, active : BOOLEAN, gone : BOOLEAN,
                   polled : BOOLEAN, items : BOOLEAN, labels : BOOLEAN]
      /\ src'.row = "row" /\ src'.polled /\ src'.active = src.active /\ src'.gone = src.gone
  BY <1>0, <1>1 DEF GrantTypes
<1>3. mbox'.addr = mbox.addr
  BY <1>0 DEF carry_source_sync_state_key, GrantTypes
<1>4. seen'.read \subseteq Accounts
  BY <1>0 DEF GrantTypes
<1> HIDE DEF w
<1>5. /\ GrantTypes' /\ StampsSound' /\ (grant'.stamp # 0 <=> grant.stamp # 0)
      /\ worker'["extract"].at = "idle" /\ \A j \in Kinds : j # "extract" => worker'[j] = worker[j]
  BY <1>0, <1>2, <1>4, CommitKeeps DEF w
<1>6. AddressSound'
  BY <1>0, <1>2, <1>3, <1>5 DEF AddressSound, Kinds
<1>7. SourceSound'
  BY <1>0, <1>1, <1>2, <1>5 DEF SourceSound, Kinds
<1> QED
  BY <1>5, <1>6, <1>7

\* Every step keeps the invariant.
LEMMA GrantStep == GrantInv /\ [GrantNext]_grantVars => GrantInv'
<1> SUFFICES ASSUME GrantInv, [GrantNext]_grantVars PROVE GrantInv'
  OBVIOUS
<1>0. src.row \in {"none", "row", "removed"} /\ Kinds = {"poll", "extract", "label"}
  BY DEF GrantInv, GrantTypes, Kinds
<1>1. CASE UNCHANGED grantVars
  BY <1>1 DEF grantVars, GrantInv, GrantTypes, StampsSound, WorkerSound, Stands, Cached,
              AddressSound, SourceSound
<1>2. CASE \/ connect_source \/ set_label_sync \/ reauthorize_source \/ poll_source
           \/ remove_source \/ handle_poll_returns \/ expire_access \/ revoke
           \/ \E c \in Consents : \/ purge_expired_oauth_states(c) \/ consume_oauth_state(c)
                                  \/ exchange_code(c)
  BY <1>2, RoutesKeep
<1>3. CASE \/ disconnect_source \/ disconnect_after_wait
           \/ \E k \in Kinds : check_mailbox_mismatch(k)
  BY <1>3, DisconnectKeeps
<1>4. CASE \E c \in Consents : oauth_callback(c)
  BY <1>4, CallbackKeeps
<1>5. CASE handle_poll
  BY <1>0, <1>5, WorkerStarts DEF handle_poll
<1>6. CASE handle_extract
  BY <1>0, <1>6, WorkerStarts DEF handle_extract
<1>7. CASE write_back
  BY <1>0, <1>7, WorkerStarts DEF write_back
<1>8. CASE \E k \in Kinds : \/ mint_refused(k) \/ SourceErrorRaised(k) \/ grant_replaced(k)
                            \/ worker_dies(k)
  <2>1. PICK k \in Kinds : \/ mint_refused(k) \/ SourceErrorRaised(k) \/ grant_replaced(k)
                           \/ worker_dies(k)
    BY <1>8
  <2>2. /\ worker[k].at # "idle" /\ worker' = [worker EXCEPT ![k] = Rest]
        /\ src' = src \/ src' = [src EXCEPT !.polled = TRUE]
        /\ UNCHANGED <<mbox, grant, access, consent, stamps>>
    BY <2>1 DEF mint_refused, SourceErrorRaised, grant_replaced, worker_dies, Fail, Done,
                record_poll_failure
  <2>3. seen'.read = seen.read /\ seen'.written = seen.written
    <3>1. CASE seen' = seen
      BY <3>1
    <3>2. CASE mint_refused(k)
      BY <3>2 DEF mint_refused
    <3> QED
      BY <2>1, <3>1, <3>2 DEF SourceErrorRaised, grant_replaced, worker_dies
  <2> QED
    BY <2>2, <2>3, WorkerStops
<1>9. CASE modify_labels
  <2>1. mbox.addr # None /\ worker["label"].tok = mbox.addr
    BY <1>9, GrantFacts DEF modify_labels, GrantInv, AddressSound
  <2>2. seen'.read = seen.read /\ seen'.written = seen.written \cup {mbox.addr}
    BY <1>9, <2>1 DEF modify_labels, GrantInv, GrantTypes
  <2> QED
    BY <1>0, <1>9, <2>1, <2>2, WorkerStops DEF modify_labels, Done
<1>10. CASE \E k \in Kinds : mint_token(k)
  BY <1>10, MintKeeps
<1>11. CASE \E k \in Kinds : check_mailbox(k)
  BY <1>11, CheckKeeps
<1>12. CASE poll_commits
  BY <1>12, PollCommitKeeps
<1>13. CASE extract_commits
  BY <1>13, ExtractCommitKeeps
<1> QED
  BY <1>1, <1>2, <1>3, <1>4, <1>5, <1>6, <1>7, <1>8, <1>9, <1>10, <1>11, <1>12, <1>13
     DEF GrantNext

\* What the invariant says of the properties
LEMMA GrantUse == GrantInv => OneMailbox /\ ConsentLands
<1> SUFFICES ASSUME GrantInv PROVE OneMailbox /\ ConsentLands
  OBVIOUS
<1>1. OneMailbox
  BY DEF GrantInv, StampsSound, AddressSound, Stands, Cached, OneMailbox
<1>2. ConsentLands
  BY DEF GrantInv, SourceSound, ConsentLands
<1> QED
  BY <1>1, <1>2

\* One source works on one mailbox, and a consent always has its source to land
\* in, for any accounts, consents, polls and retries.
THEOREM GrantHolds == GrantSpec => [](OneMailbox /\ ConsentLands)
<1>1. GrantSpec => []GrantInv
  BY GrantStart, GrantStep, PTL DEF GrantSpec
<1> QED
  BY <1>1, GrantUse, PTL

(***************************************************************************)
(* The search.  The inductive invariant says of the cursor of the poll in  *)
(* progress what the property says of the one that is stored, with the     *)
(* messages the poll has found and not yet committed; and that a search    *)
(* finds all but the last Overlap ticks' messages.                         *)
(***************************************************************************)

Cursors == [after : Nat, started : Nat \cup {None}, token : Nat \cup {None}]
Inboxes == [Messages -> [at : Nat \cup {None}, found : BOOLEAN]]
Extracts == [Messages -> [st : {"none", "ready", "done", "failed"}, now : BOOLEAN]]
PollRecords == [at : {"idle", "paging"}, cur : Cursors \cup {None}, redo : Nat, win : Nat,
                fresh : SUBSET Messages, pages : Nat, more : BOOLEAN, floor : Nat \cup {None}]

SearchTypes ==
    /\ clock \in Nat /\ inbox \in Inboxes
    /\ conf \in [active : BOOLEAN, window : Nat, asked : Nat]
    /\ sync \in [cursor : Cursors \cup {None}, done : Nat,
                 status : {None, "listing", "listed", "failed"}, queued : Nat]
    /\ jobs \in [ready : Nat, extract : Extracts]
    /\ poll \in PollRecords /\ sought \in Nat \cup {None}

\* A message has arrived by now, and is found unless it is of the last ticks.
IndexLags ==
    \A m \in Messages : inbox[m].at # None =>
        inbox[m].at <= clock /\ (inbox[m].found \/ clock <= inbox[m].at + Overlap)

Timely(cur) ==
    /\ cur.after <= clock
    /\ cur.started = None => cur.token = None
    /\ cur.started # None => cur.started <= clock

\* Where the next pass will begin, and what lies ahead of a cursor
Reach(cur) == IF cur.started = None THEN cur.after ELSE Max({cur.after, cur.started - Overlap})
LiesAhead(cur, m) ==
    \/ cur.token # None /\ m < cur.token /\ inbox[m].at >= cur.after
    \/ inbox[m].at >= Reach(cur)

\* The floor of the first sync, once the poll in progress has committed
Floor == IF poll.floor # None THEN poll.floor ELSE sought

CursorsSound ==
    /\ sync.cursor # None => Timely(sync.cursor)
    /\ poll.cur # None => Timely(poll.cur)
    /\ sought # None => sync.cursor # None
    /\ poll.at = "idle" => poll = NoPoll
    /\ poll.cur = None => poll.pages = 0 /\ poll.fresh = {} /\ poll.more /\ poll.floor = None
    /\ \A m \in poll.fresh : jobs.extract[m].st = "none"

NothingBehind ==
    /\ sought # None => \A m \in Messages : inbox[m].at # None /\ inbox[m].at >= sought =>
           jobs.extract[m].st # "none" \/ LiesAhead(sync.cursor, m)
    /\ poll.cur # None /\ Floor # None =>
           \A m \in Messages : inbox[m].at # None /\ inbox[m].at >= Floor =>
               jobs.extract[m].st # "none" \/ m \in poll.fresh \/ LiesAhead(poll.cur, m)

\* A resync asked for while a poll runs has queued the next one.
ResyncKept ==
    /\ ResyncNotLost
    /\ poll.at = "paging" /\ conf.asked > (IF poll.redo # 0 THEN poll.redo ELSE sync.done)
           => jobs.ready > 0

\* The run's total is the number of its jobs.
RunOf(extract) == {m \in Messages : extract[m].now}
RunCounted ==
    /\ \A m \in Messages : jobs.extract[m].now => jobs.extract[m].st # "none"
    /\ sync.status # None => sync.queued = Cardinality(RunOf(jobs.extract))

SearchInv == SearchTypes /\ IndexLags /\ CursorsSound /\ NothingBehind /\ ResyncKept /\ RunCounted

\* The greater of two numbers
LEMMA MaxOfTwo ==
    ASSUME NEW a \in Int, NEW b \in Int
    PROVE  Max({a, b}) \in {a, b} /\ Max({a, b}) >= a /\ Max({a, b}) >= b
<1>1. \E x \in {a, b} : \A y \in {a, b} : x >= y
  <2>1. CASE a >= b
    BY <2>1
  <2>2. CASE b >= a
    BY <2>2
  <2> QED
    BY <2>1, <2>2
<1> QED
  BY <1>1 DEF Max

\* A set of numbers that has any has a least one.
LEMMA LeastExists ==
    ASSUME NEW S, S \subseteq Nat, S # {}
    PROVE  \E m \in S : \A y \in S : m <= y
<1>1. PICK m \in S : \A y \in S : ~ (<<y, m>> \in OpToRel(<, Nat))
  BY WFMin, NatLessThanWellFounded
<1>2. \A y \in S : ~ (y < m)
  <2> TAKE y \in S
  <2>1. <<y, m>> \in Nat \X Nat
    OBVIOUS
  <2> QED
    BY <1>1, <2>1 DEF OpToRel
<1>3. \A y \in S : y \in Nat /\ m \in Nat
  OBVIOUS
<1> QED
  BY <1>2, <1>3

\* A page of what is left holds the newest, and what is left is older.
LEMMA PageIsNewest ==
    ASSUME NEW left, left \subseteq Messages, NEW k \in Nat \ {0}
    PROVE  LET page == NewestOf(left, k)
           IN  /\ page \subseteq left
               /\ page # left => Min(page) \in page
               /\ \A m \in left : m \notin page => m < Min(page)
<1> DEFINE page == NewestOf(left, k)
           newer(m) == {n \in left : n > m}
<1>0. /\ Messages \subseteq Nat /\ IsFiniteSet(Messages) /\ MaxMessages \in Nat
      /\ \A m \in Messages : m <= MaxMessages
  BY SearchAssumption, FS_Interval DEF Messages
<1>1. page \subseteq left /\ \A m \in left : m \in page <=> Cardinality(newer(m)) < k
  BY DEF NewestOf
<1>2. \A m : IsFiniteSet(newer(m)) /\ Cardinality(newer(m)) \in Nat
  BY <1>0, FS_Subset, FS_CardinalityType
<1> HIDE DEF page
<1>3. left # {} => page # {}
  <2> SUFFICES ASSUME left # {} PROVE page # {}
    OBVIOUS
  <2> DEFINE T == {MaxMessages - t : t \in left}
  <2>1. T # {} /\ T \subseteq Nat
    <3>1. \A t \in left : MaxMessages - t \in Nat
      BY <1>0
    <3> QED
      BY <3>1
  <2> HIDE DEF T
  <2>2. PICK x \in T : \A y \in T : x <= y
    BY <2>1, LeastExists
  <2>3. PICK b \in left : x = MaxMessages - b
    BY DEF T
  <2>4. ASSUME NEW n \in left, n > b PROVE FALSE
    <3>1. MaxMessages - n \in T
      BY DEF T
    <3>2. x <= MaxMessages - n
      BY <2>2, <3>1
    <3>3. n \in Nat /\ b \in Nat
      BY <1>0
    <3> QED
      BY <1>0, <2>3, <2>4, <3>2, <3>3
  <2>5. newer(b) = {}
    BY <2>4
  <2>6. Cardinality(newer(b)) = 0
    BY <2>5, FS_EmptySet
  <2>7. Cardinality(newer(b)) < k
    BY <2>6
  <2> QED
    BY <2>7, <1>1
<1>4. page # {} => Min(page) \in page /\ \A y \in page : Min(page) <= y
  <2>1. page \subseteq Nat
    BY <1>0, <1>1
  <2>2. page # {} => \E m \in page : \A y \in page : m <= y
    BY <2>1, LeastExists
  <2> QED
    BY <2>2 DEF Min
<1>5. page # left => page # {}
  BY <1>1, <1>3
<1>6. ASSUME NEW m \in left, m \notin page, NEW p \in page PROVE m < p
  <2>0. m \in Nat /\ p \in Nat /\ p \in left
    BY <1>0, <1>1, <1>6
  <2> SUFFICES ASSUME p <= m PROVE FALSE
    BY <2>0
  <2>1. newer(m) \subseteq newer(p)
    <3> SUFFICES ASSUME NEW n \in left, n > m PROVE n > p
      OBVIOUS
    <3>1. n \in Nat
      BY <1>0
    <3> QED
      BY <3>1, <2>0
  <2>2. Cardinality(newer(m)) <= Cardinality(newer(p))
    BY <1>2, <2>1, FS_Subset
  <2>3. Cardinality(newer(p)) < k /\ ~ (Cardinality(newer(m)) < k)
    BY <1>1, <1>6, <2>0
  <2>4. Cardinality(newer(m)) \in Nat /\ Cardinality(newer(p)) \in Nat
    BY <1>2
  <2> HIDE DEF newer
  <2> QED
    BY <2>2, <2>3, <2>4
<1>7. ASSUME NEW m \in left, m \notin page PROVE m < Min(page)
  BY <1>4, <1>5, <1>6, <1>7
<1> QED
  BY <1>1, <1>4, <1>5, <1>7 DEF page

\* The cursor after a page: what it leaves is on the page or still ahead.
LEMMA NextReaches ==
    ASSUME SearchTypes, IndexLags, NEW st \in Cursors, Timely(st), st.started # None,
           NEW page, NEW left, left = _search(st.after, st.token),
           NEW k \in Nat \ {0}, page = NewestOf(left, k),
           NEW nx, nx = NextCursor(st, page, page # left)
    PROVE  /\ nx \in Cursors /\ Timely(nx) /\ page \subseteq Messages
           /\ \A m \in Messages :
                /\ inbox[m].at # None /\ inbox[m].at >= st.after
                /\ st.token = None \/ m < st.token \/ inbox[m].at >= Reach(st)
                => m \in page \/ LiesAhead(nx, m)
<1>0. /\ Messages \subseteq Nat /\ Overlap \in Nat /\ clock \in Nat /\ None \notin Nat
      /\ st.after \in Nat /\ st.started \in Nat /\ st.after <= clock /\ st.started <= clock
      /\ \A m \in Messages : inbox[m].at \in Nat \cup {None}
  BY SearchAssumption DEF Messages, SearchTypes, Cursors, Timely, Inboxes
<1>1. left \subseteq Messages
  BY DEF _search
<1>2. /\ page \subseteq left
      /\ page # left => Min(page) \in page
      /\ \A m \in left : m \notin page => m < Min(page)
  BY <1>1, PageIsNewest
<1> DEFINE mx == Max({st.after, st.started - Overlap})
<1>3. mx \in {st.after, st.started - Overlap} /\ mx >= st.after /\ mx >= st.started - Overlap
  <2>1. st.after \in Int /\ st.started - Overlap \in Int
    BY <1>0
  <2> QED
    BY <2>1, MaxOfTwo
<1>4. Reach(st) = mx
  BY DEF Reach
<1> HIDE DEF mx
<1>5. mx \in Nat /\ mx <= clock
  BY <1>0, <1>3
<1>6. CASE page # left
  <2>1. nx = [after |-> st.after, started |-> st.started, token |-> Min(page)]
    BY <1>6 DEF NextCursor, Cursor
  <2>2. Min(page) \in Nat
    BY <1>0, <1>1, <1>2, <1>6
  <2>3. nx.after = st.after /\ nx.started = st.started /\ nx.token = Min(page) /\ nx.token # None
    BY <1>0, <2>1, <2>2
  <2>4. nx \in Cursors /\ Timely(nx)
    BY <1>0, <2>1, <2>2, <2>3 DEF Cursors, Timely
  <2>5. Reach(nx) = mx
    BY <2>3 DEF Reach, mx
  <2>6. ASSUME NEW m \in Messages, inbox[m].at # None, inbox[m].at >= st.after,
               st.token = None \/ m < st.token \/ inbox[m].at >= Reach(st)
        PROVE  m \in page \/ LiesAhead(nx, m)
    <3>1. CASE inbox[m].at >= mx
      BY <3>1, <2>5 DEF LiesAhead
    <3>2. CASE ~ (inbox[m].at >= mx)
      <4>1. inbox[m].at \in Nat /\ m \in Nat
        BY <1>0, <2>6
      <4>2. inbox[m].found
        BY <4>1, <3>2, <1>0, <1>3, <2>6 DEF IndexLags
      <4>3. m \in left
        BY <4>2, <3>2, <2>6, <1>4 DEF _search
      <4> QED
        BY <4>3, <1>2, <2>3, <2>6 DEF LiesAhead
    <3> QED
      BY <3>1, <3>2
  <2> QED
    BY <1>1, <1>2, <2>4, <2>6
<1>7. CASE page = left
  <2>1. nx = [after |-> mx, started |-> None, token |-> None]
    BY <1>7 DEF NextCursor, Cursor, mx
  <2>2. nx.after = mx /\ nx.started = None /\ nx.token = None
    BY <2>1
  <2>3. nx \in Cursors /\ Timely(nx)
    BY <1>5, <2>1, <2>2 DEF Cursors, Timely
  <2>4. Reach(nx) = mx
    BY <2>2 DEF Reach
  <2>5. ASSUME NEW m \in Messages, inbox[m].at # None, inbox[m].at >= st.after,
               st.token = None \/ m < st.token \/ inbox[m].at >= Reach(st)
        PROVE  m \in page \/ LiesAhead(nx, m)
    <3>1. CASE inbox[m].at >= mx
      BY <3>1, <2>4 DEF LiesAhead
    <3>2. CASE ~ (inbox[m].at >= mx)
      <4>1. inbox[m].at \in Nat /\ m \in Nat
        BY <1>0, <2>5
      <4>2. inbox[m].found
        BY <4>1, <3>2, <1>0, <1>3, <2>5 DEF IndexLags
      <4>3. m \in left
        BY <4>2, <3>2, <2>5, <1>4 DEF _search
      <4> QED
        BY <4>3, <1>7
    <3> QED
      BY <3>1, <3>2
  <2> QED
    BY <1>1, <1>2, <2>3, <2>5
<1> QED
  BY <1>6, <1>7

\* The first states satisfy the invariant.
LEMMA SearchStart == SearchInit => SearchInv
<1> SUFFICES ASSUME SearchInit PROVE SearchInv
  OBVIOUS
<1>1. NoPoll \in PollRecords /\ NoPoll.cur = None /\ NoPoll.floor = None /\ NoPoll.at = "idle"
      /\ NoPoll.pages = 0 /\ NoPoll.fresh = {} /\ NoPoll.more
  BY DEF NoPoll, PollRecords
<1>2. SearchTypes
  <2>1. inbox \in Inboxes /\ jobs \in [ready : Nat, extract : Extracts]
    BY DEF SearchInit, Inboxes, Extracts, NoJob
  <2>2. conf \in [active : BOOLEAN, window : Nat, asked : Nat]
    BY SearchAssumption DEF SearchInit
  <2>3. sync \in [cursor : Cursors \cup {None}, done : Nat,
                  status : {None, "listing", "listed", "failed"}, queued : Nat]
    BY DEF SearchInit
  <2> QED
    BY <1>1, <2>1, <2>2, <2>3 DEF SearchTypes, SearchInit
<1>3. IndexLags
  BY DEF IndexLags, SearchInit
<1>4. CursorsSound
  BY <1>1 DEF CursorsSound, SearchInit
<1>5. NothingBehind
  BY <1>1 DEF NothingBehind, SearchInit
<1>6. ResyncKept
  BY <1>1 DEF ResyncKept, ResyncNotLost, PollOpen, SearchInit
<1>7. RunCounted
  BY DEF RunCounted, SearchInit, NoJob
<1> QED
  BY <1>2, <1>3, <1>4, <1>5, <1>6, <1>7 DEF SearchInv

\* The clock and the mailbox move on: what lay ahead of a cursor still does.
LEMMA MailboxMoves ==
    ASSUME SearchInv, Arrive \/ IndexCatchesUp \/ TimePasses
    PROVE  SearchInv'
<1>0. /\ Overlap \in Nat /\ clock \in Nat /\ clock' \in Nat /\ clock <= clock' /\ None \notin Nat
      /\ inbox \in Inboxes /\ UNCHANGED <<conf, sync, jobs, poll, sought>>
      /\ sync.cursor \in Cursors \cup {None} /\ poll.cur \in Cursors \cup {None}
  BY SearchAssumption DEF SearchInv, SearchTypes, PollRecords, Arrive, IndexCatchesUp, TimePasses
<1>1. inbox' \in Inboxes
  <2>1. CASE Arrive
    BY <1>0, <2>1 DEF Arrive, Inboxes
  <2>2. CASE IndexCatchesUp
    BY <1>0, <2>2 DEF IndexCatchesUp, Inboxes
  <2>3. CASE TimePasses
    BY <1>0, <2>3 DEF TimePasses
  <2> QED
    BY <2>1, <2>2, <2>3
\* A message that had arrived is where it was; one that arrives now is the latest.
<1>2. \A m \in Messages :
        \/ inbox'[m].at = inbox[m].at /\ (inbox[m].found => inbox'[m].found)
        \/ inbox'[m].at = clock /\ clock' = clock
  <2>1. CASE Arrive
    BY <1>0, <2>1 DEF Arrive, Inboxes
  <2>2. CASE IndexCatchesUp
    BY <1>0, <2>2 DEF IndexCatchesUp, Inboxes
  <2>3. CASE TimePasses
    BY <1>0, <2>3 DEF TimePasses
  <2> QED
    BY <2>1, <2>2, <2>3
<1>3. ASSUME NEW m \in Messages, inbox'[m].at # None
      PROVE  inbox'[m].at <= clock' /\ (inbox'[m].found \/ clock' <= inbox'[m].at + Overlap)
  <2>0. inbox[m].at \in Nat \cup {None} /\ inbox'[m].at \in Nat
    BY <1>0, <1>1, <1>3 DEF Inboxes
  <2>1. CASE inbox'[m].at = clock /\ clock' = clock
    BY <1>0, <2>1
  <2>2. CASE inbox'[m].at = inbox[m].at /\ (inbox[m].found => inbox'[m].found)
    <3>1. inbox[m].at <= clock /\ (inbox[m].found \/ clock <= inbox[m].at + Overlap)
      BY <1>3, <2>2 DEF SearchInv, IndexLags
    <3>2. inbox[m].at <= clock'
      BY <1>0, <2>0, <2>2, <3>1
    <3>3. CASE inbox[m].found
      BY <2>2, <3>2, <3>3
    <3>4. CASE ~ inbox[m].found /\ ~ TimePasses
      <4>1. clock' = clock
        BY <3>4 DEF Arrive, IndexCatchesUp
      <4> QED
        BY <2>2, <3>1, <3>2, <3>4, <4>1
    <3>5. CASE ~ inbox[m].found /\ TimePasses
      <4>1. clock - inbox[m].at < Overlap /\ clock' = clock + 1
        BY <1>3, <2>2, <3>5 DEF TimePasses
      <4>2. clock' <= inbox[m].at + Overlap
        BY <1>0, <2>0, <2>2, <4>1
      <4> QED
        BY <2>2, <3>2, <4>2
    <3> QED
      BY <3>3, <3>4, <3>5
  <2> QED
    BY <1>2, <2>1, <2>2
<1>4. ASSUME NEW cur \in Cursors, Timely(cur), NEW m \in Messages, inbox'[m].at # None,
             inbox'[m].at # inbox[m].at
      PROVE  inbox'[m].at >= Reach(cur) /\ inbox'[m].at >= cur.after
  <2>1. inbox'[m].at = clock
    BY <1>2, <1>4
  <2>2. cur.after \in Nat /\ cur.after <= clock
    BY <1>4 DEF Cursors, Timely
  <2>3. CASE cur.started = None
    BY <1>0, <2>1, <2>2, <2>3 DEF Reach
  <2>4. CASE cur.started # None
    <3>1. cur.started \in Nat /\ cur.started <= clock /\ cur.started - Overlap \in Int
      BY <1>0, <1>4, <2>4 DEF Cursors, Timely
    <3>2. Max({cur.after, cur.started - Overlap}) \in {cur.after, cur.started - Overlap}
      <4>1. cur.after \in Int /\ cur.started - Overlap \in Int
        BY <2>2, <3>1
      <4> QED
        BY <4>1, MaxOfTwo
    <3> QED
      BY <1>0, <2>1, <2>2, <2>4, <3>1, <3>2 DEF Reach
  <2> QED
    BY <2>3, <2>4
<1>5. ASSUME NEW cur \in Cursors, Timely(cur)
      PROVE  Timely(cur)'
  BY <1>0, <1>5 DEF Timely, Cursors
<1>6. SearchTypes'
  BY <1>0, <1>1 DEF SearchInv, SearchTypes
<1>7. IndexLags'
  BY <1>3 DEF IndexLags
<1>8. CursorsSound'
  <2>1. sync.cursor # None => Timely(sync.cursor)'
    BY <1>0, <1>5 DEF SearchInv, CursorsSound
  <2>2. poll.cur # None => Timely(poll.cur)'
    BY <1>0, <1>5 DEF SearchInv, CursorsSound
  <2> QED
    BY <1>0, <2>1, <2>2 DEF SearchInv, CursorsSound, Timely, NoPoll
<1>9. NothingBehind'
  <2>1. ASSUME NEW cur \in Cursors, Timely(cur), NEW m \in Messages, inbox'[m].at # None
        PROVE  \/ inbox'[m].at = inbox[m].at
               \/ inbox'[m].at >= Reach(cur)
    BY <1>4, <2>1
  <2>2. ASSUME sought # None, NEW m \in Messages, inbox'[m].at # None, inbox'[m].at >= sought
        PROVE  jobs.extract[m].st # "none" \/ LiesAhead(sync.cursor, m)'
    <3>1. sync.cursor # None /\ sync.cursor \in Cursors /\ Timely(sync.cursor)
      BY <1>0, <2>2 DEF SearchInv, CursorsSound
    <3>2. CASE inbox'[m].at = inbox[m].at
      <4>1. jobs.extract[m].st # "none" \/ LiesAhead(sync.cursor, m)
        BY <2>2, <3>2 DEF SearchInv, NothingBehind
      <4> QED
        BY <1>0, <3>2, <4>1 DEF LiesAhead, Reach
    <3>3. CASE inbox'[m].at >= Reach(sync.cursor)
      BY <1>0, <3>3 DEF LiesAhead, Reach
    <3> QED
      BY <2>1, <2>2, <3>1, <3>2, <3>3
  <2>3. ASSUME poll.cur # None, Floor # None,
               NEW m \in Messages, inbox'[m].at # None, inbox'[m].at >= Floor
        PROVE  jobs.extract[m].st # "none" \/ m \in poll.fresh \/ LiesAhead(poll.cur, m)'
    <3>1. poll.cur \in Cursors /\ Timely(poll.cur)
      BY <1>0, <2>3 DEF SearchInv, CursorsSound
    <3>2. CASE inbox'[m].at = inbox[m].at
      <4>1. jobs.extract[m].st # "none" \/ m \in poll.fresh \/ LiesAhead(poll.cur, m)
        BY <2>3, <3>2 DEF SearchInv, NothingBehind
      <4> QED
        BY <1>0, <3>2, <4>1 DEF LiesAhead, Reach
    <3>3. CASE inbox'[m].at >= Reach(poll.cur)
      BY <1>0, <3>3 DEF LiesAhead, Reach
    <3> QED
      BY <2>1, <2>3, <3>1, <3>2, <3>3
  <2> QED
    BY <1>0, <2>2, <2>3 DEF NothingBehind, Floor
<1>10. ResyncKept' /\ RunCounted'
  BY <1>0 DEF SearchInv, ResyncKept, ResyncNotLost, PollOpen, RunCounted, RunOf
<1> QED
  BY <1>6, <1>7, <1>8, <1>9, <1>10 DEF SearchInv

\* What a step that leaves the clock and the mailbox has to show.
LEMMA MailboxStill ==
    ASSUME SearchInv, UNCHANGED <<clock, inbox>>
    PROVE  /\ IndexLags'
           /\ \A cur, m : LiesAhead(cur, m)' <=> LiesAhead(cur, m)
           /\ \A cur : Timely(cur)' <=> Timely(cur)
BY DEF SearchInv, IndexLags, LiesAhead, Reach, Timely

\* A poll is claimed: it searches on from the cursor stored, or anew.
LEMMA PollStarts ==
    ASSUME SearchInv, handle_poll_starts PROVE SearchInv'
<1> DEFINE redo == pending_resync(conf, sync)
<1>0. /\ SearchTypes /\ CursorsSound /\ NothingBehind /\ ResyncKept /\ RunCounted
      /\ conf.asked \in Nat /\ sync.done \in Nat /\ jobs.ready \in Nat /\ conf.window \in Nat
      /\ sync.cursor \in Cursors \cup {None}
  BY DEF SearchInv, SearchTypes
<1>1. redo \in Nat /\ (redo # 0 => redo = conf.asked) /\ (redo = 0 => ~ (conf.asked > sync.done))
  BY <1>0 DEF pending_resync
<1>2. /\ poll.at = "idle" /\ jobs.ready > 0
      /\ poll' = [NoPoll EXCEPT !.at = "paging", !.redo = redo, !.win = conf.window,
                                !.cur = IF redo # 0 THEN None ELSE sync.cursor]
      /\ jobs' = [jobs EXCEPT !.ready = @ - 1]
      /\ UNCHANGED <<clock, inbox, conf, sync, sought>>
  BY DEF handle_poll_starts
<1> HIDE DEF redo
<1>3. /\ poll' \in PollRecords /\ poll'.at = "paging" /\ poll'.redo = redo
      /\ poll'.cur = (IF redo # 0 THEN None ELSE sync.cursor)
      /\ poll'.pages = 0 /\ poll'.fresh = {} /\ poll'.more /\ poll'.floor = None
  BY <1>0, <1>1, <1>2 DEF NoPoll, PollRecords
<1>4. /\ jobs' \in [ready : Nat, extract : Extracts] /\ jobs'.extract = jobs.extract
  BY <1>0, <1>2 DEF SearchTypes
<1>5. SearchTypes'
  BY <1>0, <1>2, <1>3, <1>4 DEF SearchTypes
<1>6. IndexLags' /\ CursorsSound' /\ NothingBehind'
  BY <1>0, <1>2, <1>3, <1>4, MailboxStill DEF CursorsSound, NothingBehind, Floor
<1>7. ResyncKept'
  BY <1>0, <1>1, <1>2, <1>3 DEF ResyncKept, ResyncNotLost, PollOpen
<1>8. RunCounted'
  BY <1>0, <1>2, <1>4 DEF RunCounted, RunOf
<1> QED
  BY <1>5, <1>6, <1>7, <1>8 DEF SearchInv

\* A page is read: what it leaves behind is fresh, the rest is still ahead.
LEMMA PageRead ==
    ASSUME SearchInv, read_page PROVE SearchInv'
<1>0. /\ SearchTypes /\ IndexLags /\ CursorsSound /\ NothingBehind /\ ResyncKept /\ RunCounted
      /\ poll \in PollRecords /\ poll.at = "paging" /\ clock \in Nat /\ None \notin Nat
      /\ UNCHANGED <<clock, inbox, conf, sync, jobs, sought>>
      /\ None \notin Cursors
  BY SearchAssumption DEF SearchInv, SearchTypes, read_page, Cursors
<1> DEFINE from == IF poll.cur = None THEN first_sync(poll.win) ELSE poll.cur
           base == Begun(from)
           top  == Cursor(base.after, base.started, None)
<1>1. /\ from \in Cursors /\ Timely(from)
      /\ poll.cur # None => from = poll.cur
      /\ poll.cur = None => from.started = None /\ from.after = first_sync(poll.win).after
  <2>1. CASE poll.cur = None
    <3>1. 0 \in Int /\ clock - poll.win \in Int
      BY <1>0 DEF PollRecords
    <3>2. Max({0, clock - poll.win}) \in {0, clock - poll.win} /\ Max({0, clock - poll.win}) >= 0
      BY <3>1, MaxOfTwo
    <3>3. Max({0, clock - poll.win}) \in Nat /\ Max({0, clock - poll.win}) <= clock
      BY <1>0, <3>1, <3>2 DEF PollRecords
    <3> QED
      BY <2>1, <3>3 DEF first_sync, Cursor, Cursors, Timely
  <2>2. CASE poll.cur # None
    BY <1>0, <2>2 DEF CursorsSound, PollRecords
  <2> QED
    BY <2>1, <2>2
<1> HIDE DEF from
<1>2. /\ base \in Cursors /\ Timely(base) /\ base.started # None /\ base.after = from.after
      /\ top \in Cursors /\ Timely(top) /\ top.started # None /\ top.after = from.after
      /\ top.token = None
      /\ base = from \/ base.token = None
  BY <1>0, <1>1 DEF Begun, Cursor, Cursors, Timely
<1>3. PICK st \in {base, top}, k \in 1..PageSize :
        LET left == _search(st.after, st.token)
            page == NewestOf(left, k)
        IN  poll' = [poll EXCEPT !.cur = NextCursor(st, page, page # left),
                       !.more = page # left, !.pages = @ + 1,
                       !.fresh = @ \cup unqueued_message_ids(page),
                       !.floor = IF poll.cur = None THEN first_sync(poll.win).after ELSE @]
  <2>1. PICK p \in list_messages(poll.cur, poll.win) :
           poll' = [poll EXCEPT !.cur = p.next, !.more = p.more, !.pages = @ + 1,
                       !.fresh = @ \cup unqueued_message_ids(p.page),
                       !.floor = IF poll.cur = None THEN first_sync(poll.win).after ELSE @]
    BY DEF read_page
  <2>3. PICK st \in {base, top}, k \in 1..PageSize : p = PageOf(st, k)
    BY DEF list_messages, base, top, from
  <2> QED
    BY <2>1, <2>3 DEF PageOf
<1> DEFINE left == _search(st.after, st.token)
           page == NewestOf(left, k)
           nx == NextCursor(st, page, page # left)
<1>4. poll' = [poll EXCEPT !.cur = nx, !.more = page # left, !.pages = @ + 1,
                 !.fresh = @ \cup unqueued_message_ids(page),
                 !.floor = IF poll.cur = None THEN first_sync(poll.win).after ELSE @]
  BY <1>3
<1>5. /\ st \in Cursors /\ Timely(st) /\ st.started # None /\ st.after = from.after
      /\ st.token = None \/ (st = from /\ poll.cur # None)
  <2>1. from.token # None => poll.cur # None
    BY <1>1 DEF Timely
  <2>2. CASE st = base
    <3>1. CASE base = from
      BY <1>2, <2>1, <2>2, <3>1
    <3>2. CASE base.token = None
      BY <1>2, <2>2, <3>2
    <3> QED
      BY <1>2, <3>1, <3>2
  <2>3. CASE st = top
    BY <1>2, <2>3
  <2> QED
    BY <2>2, <2>3
<1>6. k \in Nat \ {0}
  BY SearchAssumption
<1> HIDE DEF base, top
<1>7. /\ nx \in Cursors /\ Timely(nx) /\ page \subseteq Messages
      /\ \A m \in Messages :
           /\ inbox[m].at # None /\ inbox[m].at >= st.after
           /\ st.token = None \/ m < st.token \/ inbox[m].at >= Reach(st)
           => m \in page \/ LiesAhead(nx, m)
  BY <1>0, <1>5, <1>6, NextReaches
<1> HIDE DEF nx, page, left
<1> DEFINE fl == IF poll.cur = None THEN first_sync(poll.win).after ELSE poll.floor
           fr == poll.fresh \cup unqueued_message_ids(page)
<1>8. /\ fr \subseteq Messages /\ \A m \in fr : jobs.extract[m].st = "none"
      /\ \A m \in page : m \in fr \/ jobs.extract[m].st # "none"
      /\ poll.fresh \subseteq fr
  BY <1>0, <1>7 DEF unqueued_message_ids, CursorsSound, PollRecords
<1>9. fl \in Nat \cup {None} /\ (poll.cur = None => fl = from.after)
  BY <1>0, <1>1 DEF PollRecords, Cursors
<1>w. poll' = [poll EXCEPT !.cur = nx, !.more = page # left, !.pages = poll.pages + 1,
                           !.fresh = fr, !.floor = fl]
  BY <1>4
<1> HIDE DEF fl, fr
<1>10. /\ poll' \in PollRecords /\ poll'.at = "paging" /\ poll'.cur = nx /\ poll'.fresh = fr
       /\ poll'.floor = fl /\ poll'.redo = poll.redo
  <2>1. /\ poll \in PollRecords /\ poll.pages + 1 \in Nat /\ (page # left) \in BOOLEAN
        /\ nx \in Cursors \cup {None} /\ fr \in SUBSET Messages /\ fl \in Nat \cup {None}
    BY <1>0, <1>7, <1>8, <1>9 DEF PollRecords
  <2> DEFINE mo == page # left
             pg == poll.pages + 1
  <2>2. poll' = [poll EXCEPT !.cur = nx, !.more = mo, !.pages = pg, !.fresh = fr, !.floor = fl]
    BY <1>w
  <2>3. mo \in BOOLEAN /\ pg \in Nat
    BY <2>1
  <2> HIDE DEF mo, pg
  <2> QED
    BY <1>0, <2>1, <2>2, <2>3 DEF PollRecords
<1>11. SearchTypes'
  BY <1>0, <1>10 DEF SearchTypes
<1>12. nx # None
  BY <1>0, <1>7
<1>13. IndexLags' /\ CursorsSound'
  BY <1>0, <1>7, <1>8, <1>10, <1>12, MailboxStill DEF CursorsSound, SearchInv
<1>14. ASSUME poll'.cur # None, Floor' # None,
              NEW m \in Messages, inbox[m].at # None, inbox[m].at >= Floor'
       PROVE  jobs.extract[m].st # "none" \/ m \in fr \/ LiesAhead(nx, m)
  <2>1. CASE poll.cur = None
    <3>1. Floor' = from.after /\ st.token = None /\ st.after = from.after
      BY <1>0, <1>1, <1>5, <1>9, <1>10, <2>1 DEF Floor, Cursors
    <3> QED
      BY <1>7, <1>8, <1>14, <3>1
  <2>2. CASE poll.cur # None
    <3>1. Floor' = Floor /\ Floor # None /\ from = poll.cur
      BY <1>0, <1>1, <1>10, <1>14, <2>2 DEF Floor, fl
    <3>2. jobs.extract[m].st # "none" \/ m \in poll.fresh \/ LiesAhead(from, m)
      BY <1>0, <1>14, <2>2, <3>1 DEF NothingBehind
    <3>3. CASE LiesAhead(from, m)
      <4>1. inbox[m].at \in Nat /\ from.after \in Nat
        BY <1>0, <1>1, <1>14 DEF SearchTypes, Inboxes, Cursors
      <4>2. inbox[m].at >= from.after
        <5>1. CASE inbox[m].at >= Reach(from)
          <6>1. CASE from.started = None
            BY <5>1, <6>1 DEF Reach
          <6>2. CASE from.started # None
            <7>1. from.after \in Int /\ from.started - Overlap \in Int
              BY <1>0, <1>1, <6>2, SearchAssumption DEF Cursors
            <7>2. Reach(from) >= from.after /\ Reach(from) \in {from.after, from.started - Overlap}
              BY <6>2, <7>1, MaxOfTwo DEF Reach
            <7> QED
              BY <4>1, <5>1, <7>1, <7>2
          <6> QED
            BY <6>1, <6>2
        <5> QED
          BY <3>3, <5>1 DEF LiesAhead
      <4>3. st.token = None \/ m < st.token \/ inbox[m].at >= Reach(st)
        BY <1>5, <3>3 DEF LiesAhead
      <4> QED
        BY <1>5, <1>7, <1>8, <1>14, <4>2, <4>3
    <3> QED
      BY <1>8, <3>2, <3>3
  <2> QED
    BY <2>1, <2>2
<1>15. NothingBehind'
  <2>1. sought # None => \A m \in Messages : inbox[m].at # None /\ inbox[m].at >= sought =>
           jobs.extract[m].st # "none" \/ LiesAhead(sync.cursor, m)
    BY <1>0 DEF NothingBehind
  <2> QED
    BY <1>0, <1>10, <1>14, <2>1, MailboxStill DEF NothingBehind
<1>16. ResyncKept' /\ RunCounted'
  BY <1>0, <1>10 DEF ResyncKept, ResyncNotLost, PollOpen, RunCounted, RunOf
<1> QED
  BY <1>11, <1>13, <1>15, <1>16 DEF SearchInv

\* What a poll or its failure leaves of the jobs: the run's, and no record is lost.
LEMMA RunJobsShape ==
    ASSUME jobs.extract \in Extracts, NEW new, new \subseteq Messages, NEW goesOn \in BOOLEAN
    PROVE  LET after == RunJobs(new, goesOn)
           IN  /\ after \in Extracts
               /\ \A m \in new : after[m].st = "ready" /\ after[m].now
               /\ \A m \in Messages : m \notin new =>
                    /\ after[m].st = jobs.extract[m].st
                    /\ after[m].now <=> (jobs.extract[m].now /\ goesOn)
               /\ RunOf(after) = new \cup (IF goesOn THEN RunOf(jobs.extract) ELSE {})
<1> DEFINE after == RunJobs(new, goesOn)
<1>1. \A m \in Messages :
        after[m] = IF m \in new THEN [st |-> "ready", now |-> TRUE]
                   ELSE [jobs.extract[m] EXCEPT !.now = jobs.extract[m].now /\ goesOn]
  BY DEF RunJobs
<1>2. \A m \in Messages : jobs.extract[m] \in [st : {"none", "ready", "done", "failed"}, now : BOOLEAN]
  BY DEF Extracts
<1>3. after \in Extracts
  BY <1>2 DEF RunJobs, Extracts
<1> HIDE DEF after
<1>4. \A m \in new : after[m].st = "ready" /\ after[m].now
  <2> TAKE m \in new
  <2>1. m \in Messages
    OBVIOUS
  <2>2. after[m] = [st |-> "ready", now |-> TRUE]
    BY <1>1, <2>1
  <2> QED
    BY <2>2
<1>5. \A m \in Messages : m \notin new =>
        /\ after[m].st = jobs.extract[m].st
        /\ after[m].now <=> (jobs.extract[m].now /\ goesOn)
  BY <1>1, <1>2
<1>6. RunOf(after) = new \cup (IF goesOn THEN RunOf(jobs.extract) ELSE {})
  BY <1>4, <1>5 DEF RunOf
<1> QED
  BY <1>3, <1>4, <1>5, <1>6 DEF after

\* Two sets with nothing in common count together.
LEMMA DisjointCount ==
    ASSUME NEW S, NEW T, IsFiniteSet(S), IsFiniteSet(T), S \cap T = {}
    PROVE  IsFiniteSet(S \cup T) /\ Cardinality(S \cup T) = Cardinality(S) + Cardinality(T)
<1>1. Cardinality(S \cap T) = 0
  BY FS_EmptySet
<1>2. Cardinality(S) \in Nat /\ Cardinality(T) \in Nat
  BY FS_CardinalityType
<1>3. /\ IsFiniteSet(S \cup T)
      /\ Cardinality(S \cup T) = Cardinality(S) + Cardinality(T) - Cardinality(S \cap T)
  BY FS_Union
<1> QED
  BY <1>1, <1>2, <1>3

\* A run's jobs are finitely many.
LEMMA RunIsFinite == \A extract : IsFiniteSet(RunOf(extract)) /\ Cardinality(RunOf(extract)) \in Nat
<1>1. IsFiniteSet(Messages)
  BY SearchAssumption, FS_Interval DEF Messages
<1>2. \A extract : RunOf(extract) \subseteq Messages
  BY DEF RunOf
<1> QED
  BY <1>1, <1>2, FS_Subset, FS_CardinalityType

\* The cursor, the jobs and the next link are committed together.
LEMMA PollCommits ==
    ASSUME SearchInv, handle_poll_commits PROVE SearchInv'
<1> DEFINE goesOn == continuing_sync_run(poll.redo)
           n == Cardinality(poll.fresh)
           more == IF poll.more /\ ~ poll_waiting THEN 1 ELSE 0
           total == advance_sync_run(poll.redo, n)
<1>0. /\ SearchTypes /\ CursorsSound /\ NothingBehind /\ ResyncKept /\ RunCounted
      /\ poll \in PollRecords /\ poll.at = "paging" /\ ~ PageWanted(poll)
      /\ sync' = [cursor |-> poll.cur, queued |-> total,
                  status |-> IF poll.more THEN "listing" ELSE "listed",
                  done   |-> IF poll.redo # 0 THEN poll.redo ELSE sync.done]
      /\ jobs' = [ready |-> jobs.ready + more, extract |-> RunJobs(poll.fresh, goesOn)]
      /\ sought' = (IF poll.floor # None THEN poll.floor ELSE sought)
      /\ poll' = NoPoll /\ UNCHANGED <<clock, inbox, conf>>
  BY DEF SearchInv, SearchTypes, handle_poll_commits, set_source_sync_state
<1>1. goesOn \in BOOLEAN /\ more \in {0, 1} /\ (poll.more => more = 1 \/ jobs.ready > 0)
  BY DEF continuing_sync_run, poll_waiting
<1>2. poll.cur # None
  <2>1. Cardinality({}) = 0
    BY FS_EmptySet
  <2>2. poll.cur = None => PageWanted(poll)
    <3> SUFFICES ASSUME poll.cur = None PROVE PageWanted(poll)
      OBVIOUS
    <3>1. poll.pages = 0 /\ poll.fresh = {} /\ poll.more
      BY <1>0 DEF CursorsSound
    <3>2. 0 < QueueCap /\ 0 < MaxPages
      BY SearchAssumption
    <3>3. Cardinality(poll.fresh) = 0
      BY <2>1, <3>1
    <3> QED
      BY <3>1, <3>2, <3>3 DEF PageWanted
  <2> QED
    BY <1>0, <2>2
<1>3. poll.fresh \subseteq Messages /\ IsFiniteSet(poll.fresh) /\ n \in Nat
  <2>1. IsFiniteSet(Messages)
    BY SearchAssumption, FS_Interval DEF Messages
  <2>2. poll.fresh \subseteq Messages
    BY <1>0 DEF PollRecords
  <2> QED
    BY <2>1, <2>2, FS_Subset, FS_CardinalityType
<1>4. /\ jobs'.extract \in Extracts
      /\ \A m \in poll.fresh : jobs'.extract[m].st = "ready" /\ jobs'.extract[m].now
      /\ \A m \in Messages : m \notin poll.fresh =>
           /\ jobs'.extract[m].st = jobs.extract[m].st
           /\ jobs'.extract[m].now <=> (jobs.extract[m].now /\ goesOn)
      /\ RunOf(jobs'.extract) = poll.fresh \cup (IF goesOn THEN RunOf(jobs.extract) ELSE {})
  <2>1. jobs.extract \in Extracts /\ jobs'.extract = RunJobs(poll.fresh, goesOn)
    BY <1>0 DEF SearchTypes
  <2> HIDE DEF goesOn
  <2> QED
    BY <1>1, <1>3, <2>1, RunJobsShape
<1>5. total \in Nat /\ total = IF goesOn THEN sync.queued + n ELSE n
  BY <1>0, <1>3 DEF advance_sync_run, SearchTypes
<1>s. goesOn => sync.status # None
  BY SearchAssumption DEF continuing_sync_run
<1> HIDE DEF goesOn, more, total, n
<1>6. SearchTypes'
  <2>1. NoPoll \in PollRecords
    BY DEF NoPoll, PollRecords
  <2>2. jobs' \in [ready : Nat, extract : Extracts]
    BY <1>0, <1>1, <1>4 DEF SearchTypes
  <2>3. sync' \in [cursor : Cursors \cup {None}, done : Nat,
                   status : {None, "listing", "listed", "failed"}, queued : Nat]
    BY <1>0, <1>5 DEF SearchTypes, PollRecords
  <2>4. sought' \in Nat \cup {None}
    BY <1>0 DEF SearchTypes, PollRecords
  <2> QED
    BY <1>0, <2>1, <2>2, <2>3, <2>4 DEF SearchTypes
<1>7. IndexLags' /\ CursorsSound'
  <2>1. sync'.cursor = poll.cur
    BY <1>0
  <2>2. /\ NoPoll.cur = None /\ NoPoll.floor = None /\ NoPoll.pages = 0
        /\ NoPoll.fresh = {} /\ NoPoll.more
    BY DEF NoPoll
  <2> QED
    BY <1>0, <1>2, <2>1, <2>2, MailboxStill DEF CursorsSound
<1>8. NothingBehind'
  <2>1. poll'.cur = None /\ sync'.cursor = poll.cur /\ sought' = Floor
    BY <1>0 DEF NoPoll, Floor
  <2>2. ASSUME sought' # None, NEW m \in Messages, inbox[m].at # None, inbox[m].at >= sought'
        PROVE  jobs'.extract[m].st # "none" \/ LiesAhead(poll.cur, m)
    <3>1. jobs.extract[m].st # "none" \/ m \in poll.fresh \/ LiesAhead(poll.cur, m)
      BY <1>0, <1>2, <2>1, <2>2 DEF NothingBehind
    <3> QED
      BY <1>4, <3>1
  <2> QED
    BY <1>0, <2>1, <2>2, MailboxStill DEF NothingBehind
<1>9. ResyncKept'
  <2>1. jobs'.ready = jobs.ready + more /\ jobs.ready \in Nat /\ poll' = NoPoll /\ NoPoll.at = "idle"
    BY <1>0 DEF SearchTypes, NoPoll
  <2>2. sync'.status = "listing" => jobs'.ready > 0
    BY <1>0, <1>1, <2>1
  <2>3. conf.asked > sync'.done => jobs'.ready > 0
    BY <1>0, <1>1, <2>1 DEF ResyncKept
  <2> QED
    BY <1>0, <2>1, <2>2, <2>3 DEF ResyncKept, ResyncNotLost, PollOpen
<1>10. RunCounted'
  <2>1. \A m \in Messages : jobs'.extract[m].now => jobs'.extract[m].st # "none"
    BY <1>0, <1>4 DEF RunCounted
  <2>2. sync'.queued = Cardinality(RunOf(jobs'.extract))
    <3>1. CASE ~ goesOn
      BY <1>0, <1>4, <1>5, <3>1 DEF n
    <3>2. CASE goesOn
      <4>1. sync.queued = Cardinality(RunOf(jobs.extract))
        BY <1>0, <1>s, <3>2 DEF RunCounted
      <4>2. poll.fresh \cap RunOf(jobs.extract) = {}
        BY <1>0 DEF RunOf, RunCounted, CursorsSound
      <4>3. Cardinality(poll.fresh \cup RunOf(jobs.extract)) = n + Cardinality(RunOf(jobs.extract))
        <5>1. IsFiniteSet(RunOf(jobs.extract))
          BY RunIsFinite
        <5> QED
          BY <1>3, <4>2, <5>1, DisjointCount DEF n
      <4> QED
        <5>1. RunOf(jobs'.extract) = poll.fresh \cup RunOf(jobs.extract)
          BY <1>4, <3>2
        <5>2. sync'.queued = sync.queued + n
          BY <1>0, <1>5, <3>2
        <5>3. sync.queued \in Nat
          BY <1>0 DEF SearchTypes
        <5> QED
          BY <1>3, <4>1, <4>3, <5>1, <5>2, <5>3
    <3> QED
      BY <3>1, <3>2
  <2> QED
    BY <2>1, <2>2 DEF RunCounted
<1> QED
  BY <1>6, <1>7, <1>8, <1>9, <1>10 DEF SearchInv

\* Nothing the poll did is kept; its job is offered again, or the run has failed.
LEMMA PollEnds ==
    ASSUME SearchInv, poll_retries \/ poll_gives_up \/ _end_sync_run PROVE SearchInv'
<1>0. /\ SearchTypes /\ CursorsSound /\ NothingBehind /\ ResyncKept /\ RunCounted
      /\ poll \in PollRecords /\ jobs.ready \in Nat /\ jobs.extract \in Extracts
  BY DEF SearchInv, SearchTypes
<1>n. /\ NoPoll \in PollRecords /\ NoPoll.cur = None /\ NoPoll.floor = None /\ NoPoll.pages = 0
      /\ NoPoll.fresh = {} /\ NoPoll.more /\ NoPoll.at = "idle"
  BY DEF NoPoll, PollRecords
<1>1. CASE poll_retries
  <2>1. /\ poll' = NoPoll /\ jobs' = [jobs EXCEPT !.ready = @ + 1]
        /\ UNCHANGED <<clock, inbox, conf, sync, sought>>
    BY <1>1 DEF poll_retries
  <2>2. jobs' \in [ready : Nat, extract : Extracts] /\ jobs'.extract = jobs.extract /\ jobs'.ready > 0
    BY <1>0, <2>1 DEF SearchTypes
  <2>3. SearchTypes'
    BY <1>0, <1>n, <2>1, <2>2 DEF SearchTypes
  <2>4. IndexLags' /\ CursorsSound' /\ NothingBehind'
    BY <1>0, <1>n, <2>1, <2>2, MailboxStill DEF CursorsSound, NothingBehind, Floor
  <2>5. ResyncKept'
    BY <1>n, <2>1, <2>2 DEF ResyncKept, ResyncNotLost, PollOpen
  <2>6. RunCounted'
    BY <1>0, <2>1, <2>2 DEF RunCounted, RunOf
  <2> QED
    BY <2>3, <2>4, <2>5, <2>6 DEF SearchInv
<1>2. CASE poll_gives_up
  <2> DEFINE goesOn == continuing_sync_run(0)
             q == IF goesOn THEN sync.queued ELSE 0
  <2>1. /\ poll' = NoPoll /\ UNCHANGED <<clock, inbox, conf, sought>>
        /\ sync' = [sync EXCEPT !.status = "failed", !.queued = q]
        /\ jobs' = [jobs EXCEPT !.extract = RunJobs({}, goesOn)]
    BY <1>2 DEF poll_gives_up, record_sync_failure
  <2>2. goesOn \in BOOLEAN /\ (goesOn => sync.status # None)
    BY SearchAssumption DEF continuing_sync_run
  <2>q. q \in Nat /\ q = IF goesOn THEN sync.queued ELSE 0
    BY <1>0 DEF SearchTypes
  <2> HIDE DEF goesOn, q
  <2>3. /\ jobs'.extract \in Extracts
        /\ \A m \in Messages :
             /\ jobs'.extract[m].st = jobs.extract[m].st
             /\ jobs'.extract[m].now <=> (jobs.extract[m].now /\ goesOn)
        /\ RunOf(jobs'.extract) = IF goesOn THEN RunOf(jobs.extract) ELSE {}
    <3>1. jobs'.extract = RunJobs({}, goesOn)
      BY <1>0, <2>1 DEF SearchTypes
    <3> DEFINE new == {}
    <3>2. new \subseteq Messages /\ \A m \in Messages : m \notin new
      OBVIOUS
    <3>3. jobs'.extract = RunJobs(new, goesOn)
      BY <3>1
    <3>4. \A S : new \cup S = S
      OBVIOUS
    <3> HIDE DEF new
    <3>5. jobs.extract \in Extracts
      BY <1>0 DEF SearchTypes
    <3>6. /\ RunJobs(new, goesOn) \in Extracts
          /\ \A m \in Messages : m \notin new =>
               /\ RunJobs(new, goesOn)[m].st = jobs.extract[m].st
               /\ RunJobs(new, goesOn)[m].now <=> (jobs.extract[m].now /\ goesOn)
          /\ RunOf(RunJobs(new, goesOn)) = new \cup (IF goesOn THEN RunOf(jobs.extract) ELSE {})
      BY <2>2, <3>2, <3>5, RunJobsShape
    <3> QED
      BY <3>2, <3>3, <3>4, <3>6
  <2>4. jobs' \in [ready : Nat, extract : Extracts] /\ jobs'.ready = jobs.ready
    BY <1>0, <2>1, <2>3 DEF SearchTypes
  <2>5. /\ sync' \in [cursor : Cursors \cup {None}, done : Nat,
                      status : {None, "listing", "listed", "failed"}, queued : Nat]
        /\ sync'.cursor = sync.cursor /\ sync'.status = "failed" /\ sync'.queued = q
        /\ sync'.done = sync.done
    BY <1>0, <2>1, <2>q DEF SearchTypes
  <2>6. SearchTypes'
    BY <1>0, <1>n, <2>1, <2>4, <2>5 DEF SearchTypes
  <2>7. IndexLags' /\ CursorsSound'
    BY <1>0, <1>n, <2>1, <2>5, MailboxStill DEF CursorsSound
  <2>8. NothingBehind'
    BY <1>0, <1>n, <2>1, <2>3, <2>5, MailboxStill DEF NothingBehind, Floor
  <2>9. ResyncKept'
    BY <1>n, <2>1, <2>5 DEF ResyncKept, ResyncNotLost, PollOpen
  <2>10. RunCounted'
    <3>1. sync'.queued = Cardinality(RunOf(jobs'.extract))
      BY <1>0, <2>2, <2>3, <2>5, <2>q, FS_EmptySet DEF RunCounted
    <3> QED
      BY <1>0, <2>3, <3>1 DEF RunCounted
  <2> QED
    BY <2>6, <2>7, <2>8, <2>9, <2>10 DEF SearchInv
<1>3. CASE _end_sync_run
  <2>1. /\ UNCHANGED <<clock, inbox, conf, poll, sought>> /\ ~ conf.active /\ poll.at = "idle"
        /\ jobs' = [jobs EXCEPT !.ready = @ - 1] /\ jobs.ready > 0
        /\ sync' = IF continuing_sync_run(0) THEN [sync EXCEPT !.status = "failed"] ELSE sync
    BY <1>3 DEF _end_sync_run
  <2>2. jobs' \in [ready : Nat, extract : Extracts] /\ jobs'.extract = jobs.extract
    BY <1>0, <2>1 DEF SearchTypes
  <2>3. /\ sync' \in [cursor : Cursors \cup {None}, done : Nat,
                      status : {None, "listing", "listed", "failed"}, queued : Nat]
        /\ sync'.cursor = sync.cursor /\ sync'.queued = sync.queued /\ sync'.done = sync.done
        /\ sync'.status # None => sync.status # None
    BY <1>0, <2>1, SearchAssumption DEF SearchTypes, continuing_sync_run
  <2>4. SearchTypes'
    BY <1>0, <2>1, <2>2, <2>3 DEF SearchTypes
  <2>5. IndexLags' /\ CursorsSound' /\ NothingBehind'
    BY <1>0, <2>1, <2>2, <2>3, MailboxStill DEF CursorsSound, NothingBehind, Floor
  <2>6. ResyncKept'
    BY <2>1 DEF ResyncKept, ResyncNotLost
  <2>7. RunCounted'
    BY <1>0, <2>2, <2>3 DEF RunCounted, RunOf
  <2> QED
    BY <2>4, <2>5, <2>6, <2>7 DEF SearchInv
<1> QED
  BY <1>1, <1>2, <1>3

\* An extraction that ends leaves its job as the record.
LEMMA ExtractionEnds ==
    ASSUME SearchInv, NEW m \in Messages, NEW st \in {"done", "failed"}, Extracted(m, st)
    PROVE  SearchInv'
<1>0. /\ SearchTypes /\ CursorsSound /\ NothingBehind /\ ResyncKept /\ RunCounted
      /\ jobs \in [ready : Nat, extract : Extracts] /\ jobs.extract[m].st = "ready"
      /\ jobs' = [jobs EXCEPT !.extract[m].st = st]
      /\ UNCHANGED <<clock, inbox, conf, sync, poll, sought>>
  BY DEF SearchInv, SearchTypes, Extracted
<1>1. /\ jobs' \in [ready : Nat, extract : Extracts] /\ jobs'.ready = jobs.ready
      /\ \A x \in Messages :
           /\ jobs'.extract[x].now <=> jobs.extract[x].now
           /\ jobs'.extract[x].st = IF x = m THEN st ELSE jobs.extract[x].st
  BY <1>0 DEF Extracts
<1>2. \A x \in Messages : jobs'.extract[x].st = "none" <=> jobs.extract[x].st = "none"
  BY <1>0, <1>1
<1>3. SearchTypes'
  BY <1>0, <1>1 DEF SearchTypes
<1>4. IndexLags' /\ CursorsSound'
  <2>1. poll.fresh \subseteq Messages
    BY <1>0 DEF SearchTypes, PollRecords
  <2> QED
    BY <1>0, <1>2, <2>1, MailboxStill DEF CursorsSound
<1>5. NothingBehind'
  BY <1>0, <1>2, MailboxStill DEF NothingBehind, Floor
<1>6. ResyncKept'
  BY <1>0, <1>1 DEF ResyncKept, ResyncNotLost, PollOpen
<1>7. RunCounted'
  <2>1. RunOf(jobs'.extract) = RunOf(jobs.extract)
    BY <1>1 DEF RunOf
  <2> QED
    BY <1>0, <1>1, <1>2, <2>1 DEF RunCounted
<1> QED
  BY <1>3, <1>4, <1>5, <1>6, <1>7 DEF SearchInv

\* What the owner asks for changes the source's config and queues a poll.
LEMMA OwnerActs ==
    ASSUME SearchInv, sync_now \/ (\E w \in Windows : resync_source(w)) \/ pause_source \/ reconnect
    PROVE  SearchInv'
<1>0. /\ SearchTypes /\ CursorsSound /\ NothingBehind /\ ResyncKept /\ RunCounted
      /\ jobs \in [ready : Nat, extract : Extracts]
      /\ conf \in [active : BOOLEAN, window : Nat, asked : Nat]
      /\ UNCHANGED <<clock, inbox, sync, poll, sought>>
  BY DEF SearchInv, SearchTypes, sync_now, resync_source, pause_source, reconnect
<1>r. jobs.ready \in Nat /\ conf.asked \in Nat /\ Windows \subseteq Nat
  BY <1>0, SearchAssumption
<1>1. /\ jobs' \in [ready : Nat, extract : Extracts] /\ jobs'.extract = jobs.extract
      /\ conf' \in [active : BOOLEAN, window : Nat, asked : Nat]
      /\ jobs'.ready > 0 \/ (jobs'.ready = jobs.ready /\ ~ conf'.active /\ conf'.asked = conf.asked)
      /\ jobs'.ready >= jobs.ready
  <2>1. ASSUME jobs' = [jobs EXCEPT !.ready = @ + 1]
        PROVE  /\ jobs' \in [ready : Nat, extract : Extracts] /\ jobs'.extract = jobs.extract
               /\ jobs'.ready > 0 /\ jobs'.ready >= jobs.ready
    <3>1. jobs'.ready = jobs.ready + 1
      BY <1>0, <2>1
    <3> QED
      BY <1>0, <1>r, <2>1, <3>1
  <2>2. CASE sync_now
    BY <1>0, <2>1, <2>2 DEF sync_now
  <2>3. ASSUME NEW w \in Windows, resync_source(w)
        PROVE  /\ conf' \in [active : BOOLEAN, window : Nat, asked : Nat]
               /\ jobs' = [jobs EXCEPT !.ready = @ + 1]
    <3>1. conf' = [conf EXCEPT !.window = w, !.asked = conf.asked + 1]
      BY <2>3 DEF resync_source
    <3>2. conf.asked + 1 \in Nat /\ w \in Nat
      BY <1>r
    <3>3. conf' \in [active : BOOLEAN, window : Nat, asked : Nat]
      BY <1>0, <3>1, <3>2
    <3> QED
      BY <2>3, <3>3 DEF resync_source
  <2>4. CASE pause_source
    <3>1. conf' = [conf EXCEPT !.active = FALSE] /\ jobs' = jobs
      BY <1>0, <2>4 DEF pause_source
    <3>2. conf' \in [active : BOOLEAN, window : Nat, asked : Nat] /\ ~ conf'.active
          /\ conf'.asked = conf.asked
      BY <1>0, <3>1
    <3> QED
      BY <1>0, <1>r, <3>1, <3>2
  <2>5. CASE reconnect
    <3>1. conf' = [conf EXCEPT !.active = TRUE] /\ jobs' = [jobs EXCEPT !.ready = @ + 1]
      BY <2>5 DEF reconnect
    <3>2. conf' \in [active : BOOLEAN, window : Nat, asked : Nat]
      BY <1>0, <3>1
    <3> QED
      BY <2>1, <3>1, <3>2
  <2> QED
    BY <2>1, <2>2, <2>3, <2>4, <2>5
<1>2. SearchTypes'
  BY <1>0, <1>1 DEF SearchTypes
<1>3. IndexLags' /\ CursorsSound' /\ NothingBehind'
  BY <1>0, <1>1, MailboxStill DEF CursorsSound, NothingBehind, Floor
<1>4. ResyncKept' /\ RunCounted'
  BY <1>0, <1>1 DEF ResyncKept, ResyncNotLost, PollOpen, RunCounted, RunOf
<1> QED
  BY <1>2, <1>3, <1>4 DEF SearchInv

\* Every step keeps the invariant.
LEMMA SearchStep == SearchInv /\ [SearchNext]_searchVars => SearchInv'
<1> SUFFICES ASSUME SearchInv, [SearchNext]_searchVars PROVE SearchInv'
  OBVIOUS
<1>1. CASE Arrive \/ IndexCatchesUp \/ TimePasses
  BY <1>1, MailboxMoves
<1>2. CASE handle_poll_starts
  BY <1>2, PollStarts
<1>3. CASE read_page
  BY <1>3, PageRead
<1>4. CASE handle_poll_commits
  BY <1>4, PollCommits
<1>5. CASE poll_retries \/ poll_gives_up \/ _end_sync_run
  BY <1>5, PollEnds
<1>6. CASE \E m \in Messages : handle_extract_done(m) \/ extract_gives_up(m)
  BY <1>6, ExtractionEnds DEF handle_extract_done, extract_gives_up
<1>7. CASE sync_now \/ (\E w \in Windows : resync_source(w)) \/ pause_source \/ reconnect
  BY <1>7, OwnerActs
<1>8. CASE UNCHANGED searchVars
  <2>1. UNCHANGED <<clock, inbox, conf, sync, jobs, poll, sought>>
    BY <1>8 DEF searchVars
  <2>2. SearchTypes' /\ CursorsSound' /\ NothingBehind'
    BY <2>1, MailboxStill DEF SearchInv, SearchTypes, CursorsSound, NothingBehind, Floor
  <2>3. ResyncKept' /\ RunCounted'
    BY <2>1 DEF SearchInv, ResyncKept, ResyncNotLost, PollOpen, RunCounted, RunOf
  <2> QED
    BY <2>1, <2>2, <2>3, MailboxStill DEF SearchInv
<1> QED
  BY <1>1, <1>2, <1>3, <1>4, <1>5, <1>6, <1>7, <1>8 DEF SearchNext

\* The screen's counts follow from the run's total.
LEMMA SearchUse == SearchInv => NothingSteppedOver /\ ResyncNotLost /\ ProgressAddsUp
<1> SUFFICES ASSUME SearchInv PROVE NothingSteppedOver /\ ResyncNotLost /\ ProgressAddsUp
  OBVIOUS
<1>1. NothingSteppedOver
  BY DEF SearchInv, CursorsSound, NothingBehind, LiesAhead, Reach, NothingSteppedOver
<1>2. ResyncNotLost
  BY DEF SearchInv, ResyncKept
<1>3. ASSUME sync.status # None
      PROVE  /\ sync_progress.pulled_in = Cardinality(source_sync_jobs("done"))
             /\ sync_progress.stage = "done" => source_sync_jobs("ready") = {}
  <2> DEFINE R == source_sync_jobs("ready")
             F == source_sync_jobs("failed")
             D == source_sync_jobs("done")
             Q == RunOf(jobs.extract)
  <2>1. /\ Q = (R \cup F) \cup D /\ R \cap F = {} /\ (R \cup F) \cap D = {}
    <3>1. \A m \in Messages : jobs.extract[m].st \in {"none", "ready", "done", "failed"}
      BY DEF SearchInv, SearchTypes, Extracts
    <3> QED
      BY <3>1 DEF SearchInv, RunCounted, RunOf, source_sync_jobs
  <2>2. IsFiniteSet(R) /\ IsFiniteSet(F) /\ IsFiniteSet(D)
    BY <2>1, RunIsFinite, FS_Subset
  <2> HIDE DEF R, F, D, Q
  <2>3. Cardinality(R) \in Nat /\ Cardinality(F) \in Nat /\ Cardinality(D) \in Nat
    BY <2>2, FS_CardinalityType
  <2>4. IsFiniteSet(R \cup F) /\ Cardinality(R \cup F) = Cardinality(R) + Cardinality(F)
    BY <2>1, <2>2, DisjointCount
  <2>5. Cardinality(Q) = Cardinality(R) + Cardinality(F) + Cardinality(D)
    <3>1. Cardinality((R \cup F) \cup D) = Cardinality(R \cup F) + Cardinality(D)
      BY <2>1, <2>2, <2>4, DisjointCount
    <3> QED
      BY <2>1, <2>4, <3>1
  <2>6. sync.queued = Cardinality(Q)
    BY <1>3 DEF SearchInv, RunCounted, Q
  <2>7. sync.queued - Cardinality(R) - Cardinality(F) = Cardinality(D)
    BY <2>3, <2>5, <2>6
  <2>8. Max({0, Cardinality(D)}) = Cardinality(D)
    <3>1. 0 \in Int /\ Cardinality(D) \in Int
      BY <2>3
    <3>2. Max({0, Cardinality(D)}) \in {0, Cardinality(D)} /\ Max({0, Cardinality(D)}) >= Cardinality(D)
      BY <3>1, MaxOfTwo
    <3> QED
      BY <2>3, <3>2
  <2>9. sync_progress.pulled_in = Cardinality(D)
    BY <2>7, <2>8 DEF sync_progress, R, F
  <2>10. sync_progress.stage = "done" => R = {}
    BY <1>3 DEF sync_progress, R
  <2> QED
    BY <2>9, <2>10 DEF R, D
<1> QED
  BY <1>1, <1>2, <1>3 DEF ProgressAddsUp

\* No message is stepped over, no resync asked for is lost and the progress shown adds
\* up, whatever the overlap, the page size, the messages and the polls.
THEOREM SearchHolds == SearchSpec => [](NothingSteppedOver /\ ResyncNotLost /\ ProgressAddsUp)
<1>1. SearchSpec => []SearchInv
  BY SearchStart, SearchStep, PTL DEF SearchSpec
<1> QED
  BY <1>1, SearchUse, PTL

(***************************************************************************)
(* Types                                                                   *)
(***************************************************************************)

\* What bounds the numbers of a search: they only count up to their bounds, and what
\* was noted down was the time once.
SearchBounds ==
    /\ clock <= MaxTime /\ conf.window \in Windows /\ conf.asked <= MaxResyncs
    /\ sync.done <= conf.asked /\ poll.redo <= conf.asked
    /\ poll.floor # None => poll.floor <= clock
    /\ sought # None => sought <= clock
    /\ jobs.ready <= IF poll.at = "idle" THEN MaxReady + 1 ELSE MaxReady

\* So it starts and stays, and then everything a search keeps has its type.
LEMMA SearchBounded ==
    /\ SearchInit => SearchBounds
    /\ SearchInv /\ SearchBounds /\ [SearchNext]_searchVars => SearchBounds'
    /\ SearchInv /\ SearchBounds => SearchTypeOK
<1> USE SearchAssumption
<1>1. SearchInit => SearchBounds
  BY DEF SearchInit, SearchBounds, NoPoll
<1>2. SearchInv /\ SearchBounds => SearchTypeOK
  <2> SUFFICES ASSUME SearchInv, SearchBounds PROVE SearchTypeOK
    OBVIOUS
  <2>1. SearchTypes /\ IndexLags /\ CursorsSound
    BY DEF SearchInv
  <2>2. clock \in Times /\ conf \in [active : BOOLEAN, window : Windows, asked : 0..MaxResyncs]
    BY <2>1 DEF SearchTypes, SearchBounds, Times
  <2>3. \A m \in Messages : inbox[m].at \in Times \cup {None} /\ inbox[m].found \in BOOLEAN
    BY <2>1, <2>2 DEF SearchTypes, IndexLags, Inboxes, Times
  <2>4. /\ sync.done \in 0..MaxResyncs /\ sync.queued \in Nat
        /\ sync.status \in {None, "listing", "listed", "failed"}
    BY <2>1, <2>2 DEF SearchTypes, SearchBounds
  <2>5. sync.cursor = None \/ sync.cursor.after \in Times
    <3>1. CASE sync.cursor # None
      <4>1. sync.cursor \in Cursors /\ Timely(sync.cursor)
        BY <2>1, <3>1 DEF SearchTypes, CursorsSound
      <4> QED
        BY <4>1, <2>2 DEF Cursors, Timely, Times
    <3> QED
      BY <3>1
  <2>6. jobs.ready \in 0..MaxReady + 1
    BY <2>1 DEF SearchTypes, SearchBounds
  <2>7. \A m \in Messages : jobs.extract[m].st \in {"none", "ready", "done", "failed"}
    BY <2>1 DEF SearchTypes, Extracts
  <2>8. poll.at \in {"idle", "paging"} /\ poll.fresh \subseteq Messages
    BY <2>1 DEF SearchTypes, PollRecords
  <2>9. sought \in Times \cup {None}
    BY <2>1, <2>2 DEF SearchTypes, SearchBounds, Times
  <2> QED
    BY <2>2, <2>3, <2>4, <2>5, <2>6, <2>7, <2>8, <2>9 DEF SearchTypeOK
<1>3. ASSUME SearchInv, SearchBounds, [SearchNext]_searchVars PROVE SearchBounds'
  <2>1. /\ clock \in Nat /\ sync.done \in Nat /\ poll.redo \in Nat /\ conf.asked \in Nat
        /\ conf.window \in Nat /\ jobs.ready \in Nat /\ sought \in Nat \cup {None}
        /\ poll.floor \in Nat \cup {None} /\ poll.at \in {"idle", "paging"}
        /\ poll.at = "idle" => poll = NoPoll
        /\ conf = [active |-> conf.active, window |-> conf.window, asked |-> conf.asked]
        /\ jobs = [ready |-> jobs.ready, extract |-> jobs.extract]
        /\ poll \in PollRecords
    BY <1>3 DEF SearchInv, SearchTypes, PollRecords, CursorsSound
  <2>2. SearchBounds /\ NoPoll.redo = 0 /\ NoPoll.floor = None /\ NoPoll.at = "idle"
    BY <1>3 DEF NoPoll
  <2>3. CASE Arrive \/ IndexCatchesUp \/ TimePasses
    BY <2>1, <2>2, <2>3 DEF SearchBounds, Arrive, IndexCatchesUp, TimePasses
  <2>4. CASE handle_poll_starts
    <3>1. /\ poll'.redo <= conf.asked /\ poll'.floor = None /\ poll'.at = "paging"
          /\ jobs'.ready = jobs.ready - 1 /\ poll.at = "idle"
      BY <2>1, <2>2, <2>4 DEF SearchBounds, handle_poll_starts, pending_resync, NoPoll
    <3> QED
      BY <2>1, <2>2, <2>4, <3>1 DEF SearchBounds, handle_poll_starts
  <2>5. CASE _end_sync_run
    <3>1. sync'.done = sync.done /\ jobs'.ready = jobs.ready - 1 /\ poll.at = "idle"
      BY <2>1, <2>5 DEF _end_sync_run
    <3> QED
      BY <2>1, <2>2, <2>5, <3>1 DEF SearchBounds, _end_sync_run
  <2>6. CASE read_page
    <3>1. first_sync(poll.win).after \in Nat /\ first_sync(poll.win).after <= clock
      <4>1. Max({0, clock - poll.win}) \in {0, clock - poll.win}
            /\ Max({0, clock - poll.win}) >= 0
        <5>1. 0 \in Int /\ clock - poll.win \in Int
          BY <2>1 DEF PollRecords
        <5> QED
          BY <5>1, MaxOfTwo
      <4> QED
        BY <4>1, <2>1 DEF first_sync, Cursor, PollRecords
    <3>2. /\ poll'.redo = poll.redo /\ poll'.at = poll.at /\ poll.at = "paging"
          /\ poll'.floor \in {poll.floor, first_sync(poll.win).after}
      BY <2>1, <2>6 DEF read_page, PollRecords
    <3>3. poll'.floor # None => poll'.floor <= clock
      BY <3>1, <3>2, <2>2 DEF SearchBounds
    <3> QED
      BY <2>1, <2>2, <2>6, <3>2, <3>3 DEF SearchBounds, read_page
  <2>7. CASE handle_poll_commits
    <3>1. /\ poll' = NoPoll /\ UNCHANGED <<clock, inbox, conf>> /\ poll.at = "paging"
          /\ sync'.done \in {poll.redo, sync.done} /\ sought' \in {poll.floor, sought}
          /\ sought' # None => sought' <= clock
          /\ jobs'.ready <= MaxReady + 1
      BY <2>1, <2>2, <2>7 DEF SearchBounds, handle_poll_commits, set_source_sync_state, poll_waiting
    <3> QED
      BY <2>1, <2>2, <3>1 DEF SearchBounds
  <2>8. CASE poll_retries
    BY <2>1, <2>2, <2>8 DEF SearchBounds, poll_retries
  <2>9. CASE poll_gives_up
    <3>1. /\ poll' = NoPoll /\ UNCHANGED <<clock, inbox, conf, sought>> /\ poll.at = "paging"
          /\ sync'.done = sync.done /\ jobs'.ready = jobs.ready
      BY <1>3, <2>1, <2>9 DEF poll_gives_up, record_sync_failure, SearchInv, SearchTypes
    <3> QED
      BY <2>1, <2>2, <3>1 DEF SearchBounds
  <2>10. CASE \E m \in Messages : handle_extract_done(m) \/ extract_gives_up(m)
    <3>1. UNCHANGED <<clock, inbox, conf, sync, poll, sought>> /\ jobs'.ready = jobs.ready
      BY <2>1, <2>10 DEF handle_extract_done, extract_gives_up, Extracted
    <3> QED
      BY <2>1, <2>2, <3>1 DEF SearchBounds
  <2>11. CASE sync_now \/ pause_source \/ reconnect
    <3>1. /\ UNCHANGED <<clock, inbox, sync, poll, sought>>
          /\ conf'.window = conf.window /\ conf'.asked = conf.asked
          /\ jobs'.ready = jobs.ready \/ (jobs'.ready = jobs.ready + 1 /\ jobs.ready < MaxReady)
      BY <2>1, <2>11 DEF sync_now, pause_source, reconnect
    <3> QED
      BY <2>1, <2>2, <3>1 DEF SearchBounds
  <2>12. CASE \E w \in Windows : resync_source(w)
    <3>1. /\ UNCHANGED <<clock, inbox, sync, poll, sought>>
          /\ conf'.window \in Windows /\ conf'.asked = conf.asked + 1 /\ conf.asked < MaxResyncs
          /\ jobs'.ready = jobs.ready + 1 /\ jobs.ready < MaxReady
      BY <2>1, <2>12 DEF resync_source
    <3> QED
      BY <2>1, <2>2, <3>1 DEF SearchBounds
  <2>13. CASE UNCHANGED searchVars
    BY <2>2, <2>13 DEF SearchBounds, searchVars
  <2> QED
    BY <1>3, <2>3, <2>4, <2>5, <2>6, <2>7, <2>8, <2>9, <2>10, <2>11, <2>12, <2>13 DEF SearchNext
<1> QED
  BY <1>1, <1>2, <1>3

\* What bounds the numbers of a grant: stamps and polls only count up to their bounds,
\* and no poll waits or runs that was not made.
GrantBounds ==
    /\ stamps <= MaxStamps /\ dead \subseteq 1..MaxStamps
    /\ leaving \in {"no", "all", "grant_only"}
    /\ seen \in [read : SUBSET Accounts, written : SUBSET Accounts,
                 refused : SUBSET (1..MaxStamps)]
    /\ polls \in [made : 0..MaxPolls, ready : Nat, tries : 0..MaxTries]
    /\ polls.ready + (IF worker["poll"].at = "idle" THEN 0 ELSE 1) <= polls.made
    /\ worker["poll"].at = "idle" => polls.tries < MaxTries

\* So it starts and stays, and then everything a grant keeps has its type.
LEMMA GrantBounded ==
    /\ GrantInit => GrantBounds
    /\ GrantInv /\ GrantBounds /\ [GrantNext]_grantVars => GrantBounds'
    /\ GrantInv /\ GrantBounds => GrantTypeOK
<1> USE GrantAssumption
<1>1. GrantInit => GrantBounds
  BY DEF GrantInit, GrantBounds, Kinds, Rest
<1>2. GrantInv /\ GrantBounds => GrantTypeOK
  <2> SUFFICES ASSUME GrantInv, GrantBounds PROVE GrantTypeOK
    OBVIOUS
  <2>1. GrantTypes /\ stamps \in 0..MaxStamps /\ grant.stamp <= stamps /\ mbox.vfor <= stamps
    BY DEF GrantInv, GrantTypes, GrantBounds, StampsSound
  <2>2. /\ mbox \in [addr : Boxes, vfor : 0..MaxStamps]
        /\ grant \in [stamp : 0..MaxStamps, acct : Boxes, wide : BOOLEAN]
    BY <2>1 DEF GrantTypes
  <2>3. polls \in [made : 0..MaxPolls, ready : 0..MaxPolls, tries : 0..MaxTries]
    BY DEF GrantBounds
  <2>4. \A k \in Kinds : /\ worker[k].at \in {"idle", "minting", "checking", "using"}
                         /\ worker[k].tok \in Boxes
    BY <2>1 DEF GrantTypes, Workers
  <2> QED
    BY <2>1, <2>2, <2>3, <2>4 DEF GrantTypes, GrantBounds, GrantTypeOK, Boxes
<1>3. ASSUME GrantInv, GrantBounds, [GrantNext]_grantVars PROVE GrantBounds'
  <2>1. /\ GrantTypes /\ StampsSound /\ GrantBounds
        /\ stamps \in Nat /\ grant.stamp \in Nat /\ grant.stamp <= stamps
        /\ polls.ready \in Nat /\ polls.made \in Nat /\ polls.tries \in Nat
        /\ polls = [made |-> polls.made, ready |-> polls.ready, tries |-> polls.tries]
        /\ worker \in [Kinds -> Workers] /\ Kinds = {"poll", "extract", "label"}
        /\ Rest.at = "idle"
    BY <1>3 DEF GrantInv, GrantTypes, GrantBounds, StampsSound, Kinds, Rest
  \* The numbers of polls, by what happens to them and to the one in progress
  <2>p. ASSUME \/ polls' = polls /\ (worker'["poll"].at = "idle" <=> worker["poll"].at = "idle")
               \/ polls' = enqueue_source_poll(polls) /\ RoomForPoll /\ worker'["poll"] = worker["poll"]
               \/ polls' = [polls EXCEPT !.ready = @ - 1, !.tries = 0]
                  /\ polls.ready > 0 /\ worker["poll"].at = "idle" /\ worker' = worker
               \/ polls' = [polls EXCEPT !.ready = @ - 1, !.tries = @ + 1]
                  /\ polls.ready > 0 /\ worker["poll"].at = "idle" /\ worker'["poll"].at # "idle"
               \/ polls' = [polls EXCEPT !.tries = 0]
                  /\ worker["poll"].at # "idle" /\ worker'["poll"].at = "idle"
               \/ polls' = [polls EXCEPT !.ready = @ + 1] /\ polls.tries < MaxTries
                  /\ worker["poll"].at # "idle" /\ worker'["poll"].at = "idle"
        PROVE  /\ polls' \in [made : 0..MaxPolls, ready : Nat, tries : 0..MaxTries]
               /\ polls'.ready + (IF worker'["poll"].at = "idle" THEN 0 ELSE 1) <= polls'.made
               /\ worker'["poll"].at = "idle" => polls'.tries < MaxTries
    <3>0. /\ polls.ready + (IF worker["poll"].at = "idle" THEN 0 ELSE 1) <= polls.made
          /\ polls.made <= MaxPolls /\ polls.tries <= MaxTries /\ MaxPolls \in Nat /\ MaxTries \in Nat
          /\ worker["poll"].at = "idle" => polls.tries < MaxTries
          /\ MaxTries > 0 /\ (polls.made < MaxPolls <=> RoomForPoll)
      BY <2>1 DEF GrantBounds, RoomForPoll
    <3>7. ASSUME NEW made \in Nat, NEW ready \in Nat, NEW tries \in Nat,
                 polls' = [made |-> made, ready |-> ready, tries |-> tries],
                 made <= MaxPolls, tries <= MaxTries,
                 ready + (IF worker'["poll"].at = "idle" THEN 0 ELSE 1) <= made,
                 worker'["poll"].at = "idle" => tries < MaxTries
          PROVE  /\ polls' \in [made : 0..MaxPolls, ready : Nat, tries : 0..MaxTries]
                 /\ polls'.ready + (IF worker'["poll"].at = "idle" THEN 0 ELSE 1) <= polls'.made
                 /\ worker'["poll"].at = "idle" => polls'.tries < MaxTries
      BY <3>0, <3>7
    <3>1. CASE polls' = polls /\ (worker'["poll"].at = "idle" <=> worker["poll"].at = "idle")
      <4>1. polls' = [made |-> polls.made, ready |-> polls.ready, tries |-> polls.tries]
        BY <2>1, <3>1 DEF enqueue_source_poll
      <4> QED
        BY <2>1, <3>0, <3>7, <3>1, <4>1
    <3>2. CASE polls' = enqueue_source_poll(polls) /\ RoomForPoll /\ worker'["poll"] = worker["poll"]
      <4>1. polls' = [made |-> polls.made + 1, ready |-> polls.ready + 1, tries |-> polls.tries]
        BY <2>1, <3>2 DEF enqueue_source_poll
      <4> QED
        BY <2>1, <3>0, <3>7, <3>2, <4>1
    <3>3. CASE polls' = [polls EXCEPT !.ready = @ - 1, !.tries = 0]
                  /\ polls.ready > 0 /\ worker["poll"].at = "idle" /\ worker' = worker
      <4>1. polls' = [made |-> polls.made, ready |-> polls.ready - 1, tries |-> 0]
        BY <2>1, <3>3 DEF enqueue_source_poll
      <4> QED
        BY <2>1, <3>0, <3>7, <3>3, <4>1
    <3>4. CASE polls' = [polls EXCEPT !.ready = @ - 1, !.tries = @ + 1]
                  /\ polls.ready > 0 /\ worker["poll"].at = "idle" /\ worker'["poll"].at # "idle"
      <4>1. polls' = [made |-> polls.made, ready |-> polls.ready - 1, tries |-> polls.tries + 1]
        BY <2>1, <3>4 DEF enqueue_source_poll
      <4> QED
        BY <2>1, <3>0, <3>7, <3>4, <4>1
    <3>5. CASE polls' = [polls EXCEPT !.tries = 0]
                  /\ worker["poll"].at # "idle" /\ worker'["poll"].at = "idle"
      <4>1. polls' = [made |-> polls.made, ready |-> polls.ready, tries |-> 0]
        BY <2>1, <3>5 DEF enqueue_source_poll
      <4> QED
        BY <2>1, <3>0, <3>7, <3>5, <4>1
    <3>6. CASE polls' = [polls EXCEPT !.ready = @ + 1] /\ polls.tries < MaxTries
                  /\ worker["poll"].at # "idle" /\ worker'["poll"].at = "idle"
      <4>1. polls' = [made |-> polls.made, ready |-> polls.ready + 1, tries |-> polls.tries]
        BY <2>1, <3>6 DEF enqueue_source_poll
      <4> QED
        BY <2>1, <3>0, <3>7, <3>6, <4>1
    <3> QED
      BY <2>p, <3>1, <3>2, <3>3, <3>4, <3>5, <3>6
  <2>2. CASE UNCHANGED <<polls, worker, seen, leaving, dead, stamps>>
    BY <2>1, <2>2, <2>p DEF GrantBounds
  <2>3. CASE poll_source \/ \E c \in Consents : oauth_callback(c)
    BY <2>1, <2>3, <2>p DEF GrantBounds, poll_source, oauth_callback
  <2>4. CASE disconnect_source \/ disconnect_after_wait
    BY <2>1, <2>4, <2>p DEF GrantBounds, disconnect_source, disconnect_after_wait
  <2>5. CASE handle_poll_returns
    BY <2>1, <2>5, <2>p DEF GrantBounds, handle_poll_returns
  <2>6. CASE handle_poll
    <3>1. worker'["poll"].at # "idle"
      BY <2>1, <2>6 DEF handle_poll, _access_token
    <3> QED
      BY <2>1, <2>6, <3>1, <2>p DEF GrantBounds, handle_poll
  <2>7. CASE handle_extract \/ write_back
    <3>1. worker'["poll"] = worker["poll"]
      BY <2>1, <2>7 DEF handle_extract, write_back, _access_token
    <3> QED
      BY <2>1, <2>7, <3>1, <2>p DEF GrantBounds, handle_extract, write_back
  <2>8. ASSUME NEW k \in Kinds, NEW permanent \in BOOLEAN, worker[k].at # "idle", Fail(k, permanent)
        PROVE  /\ polls' \in [made : 0..MaxPolls, ready : Nat, tries : 0..MaxTries]
               /\ polls'.ready + (IF worker'["poll"].at = "idle" THEN 0 ELSE 1) <= polls'.made
               /\ worker'["poll"].at = "idle" => polls'.tries < MaxTries
               /\ UNCHANGED <<dead, leaving, stamps>>
    BY <2>1, <2>8, <2>p DEF Fail, Done, record_poll_failure
  <2>9. ASSUME NEW k \in Kinds, mint_refused(k) PROVE GrantBounds'
    <3>1. worker[k].at # "idle" /\ Fail(k, TRUE)
      BY <2>9 DEF mint_refused
    <3>2. seen' \in [read : SUBSET Accounts, written : SUBSET Accounts,
                     refused : SUBSET (1..MaxStamps)]
      BY <2>1, <2>9 DEF mint_refused, GrantBounds
    <3> QED
      BY <2>1, <2>8, <3>1, <3>2 DEF GrantBounds
  <2>10. ASSUME NEW k \in Kinds, SourceErrorRaised(k) \/ grant_replaced(k) PROVE GrantBounds'
    <3>1. worker[k].at # "idle" /\ Fail(k, FALSE) /\ seen' = seen
      BY <2>10 DEF SourceErrorRaised, grant_replaced
    <3> QED
      BY <2>1, <2>8, <3>1 DEF GrantBounds
  <2>11. ASSUME NEW k \in Kinds, mint_token(k) PROVE GrantBounds'
    <3>1. /\ polls' = polls /\ seen' = seen /\ dead' = dead /\ leaving' = leaving
          /\ worker[k].at # "idle"
      BY <2>11 DEF mint_token
    <3>2. PICK to \in {worker[k].of.stamp} \cup
                      (IF stamps < MaxStamps THEN {stamps + 1} ELSE {}) :
             /\ stamps' = IF to > stamps THEN to ELSE stamps
             /\ worker' = [worker EXCEPT ![k] = [worker[k] EXCEPT
                            !.at = After(k), !.tok = worker[k].of.acct, !.to = to,
                            !.minted = k # "label"]]
      BY <2>11 DEF mint_token
    <3>3. stamps' <= MaxStamps
      <4>1. worker[k].of.stamp \in Nat /\ worker[k].of.stamp <= stamps
        BY <2>1 DEF StampsSound, WorkerSound, Workers
      <4> QED
        BY <2>1, <3>2, <4>1 DEF GrantBounds
    <3>4. worker'["poll"].at = "idle" <=> worker["poll"].at = "idle"
      BY <2>1, <3>1, <3>2 DEF After
    <3> QED
      BY <2>1, <2>p, <3>1, <3>3, <3>4 DEF GrantBounds
  <2>12. ASSUME NEW k \in Kinds, check_mailbox_mismatch(k) PROVE GrantBounds'
    BY <2>1, <2>12, <2>p DEF GrantBounds, check_mailbox_mismatch, Done
  <2>13. ASSUME NEW k \in Kinds, check_mailbox(k) PROVE GrantBounds'
    BY <2>1, <2>13, <2>p DEF GrantBounds, check_mailbox, Go
  <2>14. ASSUME NEW k \in Kinds, worker_dies(k) PROVE GrantBounds'
    BY <2>1, <2>14, <2>p DEF GrantBounds, worker_dies, Done
  <2>15. CASE poll_commits
    <3>1. worker["poll"].tok \in Accounts
      BY <1>3, <2>1, <2>15, GrantStep DEF poll_commits, GrantInv, GrantTypes
    <3>2. seen' \in [read : SUBSET Accounts, written : SUBSET Accounts,
                     refused : SUBSET (1..MaxStamps)]
      BY <2>1, <2>15, <3>1 DEF poll_commits, GrantBounds
    <3> QED
      BY <2>1, <2>15, <2>p, <3>2 DEF poll_commits, GrantBounds, Done
  <2>16. CASE extract_commits
    BY <2>1, <2>16, <2>p DEF GrantBounds, extract_commits, Done
  <2>17. CASE modify_labels
    <3>1. seen'.written \subseteq Accounts
      BY <1>3, <2>17, GrantStep DEF GrantInv, GrantTypes
    <3>2. seen' \in [read : SUBSET Accounts, written : SUBSET Accounts,
                     refused : SUBSET (1..MaxStamps)]
      BY <2>1, <2>17, <3>1 DEF modify_labels, GrantBounds
    <3> QED
      BY <2>1, <2>17, <2>p, <3>2 DEF modify_labels, GrantBounds, Done
  <2>18. CASE revoke
    BY <2>1, <2>18, <2>p DEF GrantBounds, revoke
  <2> QED
    BY <1>3, <2>2, <2>3, <2>4, <2>5, <2>6, <2>7, <2>9, <2>10, <2>11, <2>12, <2>13, <2>14,
       <2>15, <2>16, <2>17, <2>18
    DEF GrantNext, grantVars, connect_source, set_label_sync, reauthorize_source, remove_source,
        purge_expired_oauth_states, consume_oauth_state, exchange_code, expire_access
<1> QED
  BY <1>1, <1>2, <1>3

=============================================================================
