------------------------------- MODULE Vault --------------------------------
(***************************************************************************)
(* The credential vault: vault/src/motet_vault/envelope.py, and the rows   *)
(* the API writes through it and the workers read through it.              *)
(*                                                                         *)
(* Encryption is symbolic: a ciphertext is the record of the key, the      *)
(* associated data and the plaintext it was made from, and decrypting with *)
(* another key or other associated data raises.  An identifier is a        *)
(* sequence of tokens, because what the associated data tells apart is     *)
(* the point.  The API and the worker are deployed with an environment     *)
(* each; rows outlive deployments, and a row may be written back under     *)
(* another's key (a botched restore or migration).                         *)
(***************************************************************************)
EXTENDS Base, Integers, Sequences, FiniteSets

CONSTANTS
    Idents,        \* identifiers a credential may be filed under
    MaxSeals,      \* credentials sealed (bound)
    MaxRedeploys,  \* changes of a process's environment (bound)
    MaxMoves       \* rows written back under another's key (bound)

ASSUME VaultAssumption ==
    /\ \A id \in Idents : id \in Seq({id[i] : i \in DOMAIN id})
    /\ MaxSeals \in Nat /\ MaxRedeploys \in Nat /\ MaxMoves \in Nat
    /\ None \notin {<<"dek", n>> : n \in 1..MaxSeals}

VARIABLES
    env,        \* the environment of each process
    vaultrows,  \* credential rows: place -> sealed record
    opened,     \* the last read by a worker
    stored,     \* the last store by the API
    sealed_n    \* credentials sealed so far, moves and redeployments made

vaultVars == <<env, vaultrows, opened, stored, sealed_n>>

Processes == {"api", "worker"}
Environments == [backend : {"local", "kms", "other"}, mode : {"real", "fake", "typo"},
                 kek : {"default", "set", "malformed"}, key : {"named", "unset"},
                 sdk : BOOLEAN]
Places == Idents \X Idents

VaultTypeOK ==
    /\ env \in [Processes -> Environments]
    /\ DOMAIN vaultrows \subseteq Places
    /\ sealed_n.seals \in 0..MaxSeals /\ sealed_n.moves \in 0..MaxMoves
    /\ sealed_n.deploys \in 0..MaxRedeploys

VaultInit ==
    /\ env \in [Processes -> {e \in Environments : e.sdk /\ e.mode = "fake"
                                                   /\ e.key = "named" /\ e.kek = "default"}]
    /\ vaultrows = <<>>
    /\ opened = None /\ stored = None
    /\ sealed_n = [seals |-> 0, deploys |-> 0, moves |-> 0]

(***************************************************************************)
(* Key managers                                                            *)
(***************************************************************************)

\* _local_kek: the configured key, or the fixed development one.
_local_kek(e) == IF e.kek = "malformed" THEN None ELSE <<"kek", e.kek>>

\* build_key_manager: None where it raises.  The local key is refused in
\* real mode; the kms backend needs a key's name.
build_key_manager_any_mode(e) ==
    CASE e.backend = "kms" -> IF e.key = "named" THEN <<"kms", "kek">> ELSE None
      [] e.backend = "local" /\ e.mode # "typo" -> _local_kek(e)
      [] OTHER -> None
build_key_manager(e) ==
    CASE e.mode = "typo" -> None
      [] e.mode # "typo" /\ e.backend = "kms" ->
             IF e.key = "named" THEN <<"kms", "kek">> ELSE None
      [] e.mode = "fake" /\ e.backend = "local" -> _local_kek(e)
      [] OTHER -> None

\* The SDK is imported on the first call of Cloud KMS, which raises without it.
kms_sdk_installed(e) == e.sdk
Usable(e) == /\ build_key_manager(e) # None
             /\ e.backend = "kms" => kms_sdk_installed(e)

\* vault_status: resolved as a request would, without calling Cloud KMS.
vault_status_by_manager(e) == build_key_manager(e) # None
vault_status(e) == IF build_key_manager(e) = None THEN FALSE
                   ELSE e.backend # "kms" \/ kms_sdk_installed(e)

(***************************************************************************)
(* The envelope                                                            *)
(***************************************************************************)

\* aad: user and source joined by ":"; an empty part or one that holds the
\* separator is refused.  (The third part, the provider, is a constant of the
\* code.)
Ambiguous(id) == id = <<>> \/ \E i \in DOMAIN id : id[i] = ":"
aad_unchecked(place) == place[1] \o <<":">> \o place[2]
aad(place) == IF Ambiguous(place[1]) \/ Ambiguous(place[2]) THEN None
              ELSE place[1] \o <<":">> \o place[2]

Encrypt(key, data, plain) == [key |-> key, data |-> data, plain |-> plain]
Decrypt(key, data, cipher) ==
    IF cipher.key = key /\ cipher.data = data THEN cipher.plain ELSE None

wrap(e, dek, data) == Encrypt(build_key_manager(e), data, dek)
unwrap(e, wrapped, data) == Decrypt(build_key_manager(e), data, wrapped)

\* seal: a fresh data key for every record; provenance beside it.
seal(e, n, data, secret) ==
    [cipher |-> Encrypt(<<"dek", n>>, data, secret), wrapped |-> wrap(e, <<"dek", n>>, data),
     backend |-> e.backend]

\* open_sealed: the process's own key manager decides, never the row.
open_sealed(e, sealed, data) ==
    LET dek == unwrap(e, sealed.wrapped, data)
    IN  IF dek = None THEN None ELSE Decrypt(dek, data, sealed.cipher)

(***************************************************************************)
(* Actions                                                                 *)
(***************************************************************************)

\* A credential arrives at the API and is sealed for its row.  It is known by the
\* place it is for and its number.
store_credential(place) ==
    /\ sealed_n.seals < MaxSeals
    /\ LET n == sealed_n.seals + 1
           secret == <<place, n>>
           ok == Usable(env.api) /\ aad(place) # None
       IN  /\ vaultrows' = IF ~ ok THEN vaultrows
                           ELSE [p \in DOMAIN vaultrows \cup {place} |->
                                    IF p = place
                                    THEN [is |-> seal(env.api, n, aad(place), secret), for |-> secret,
                                          under |-> build_key_manager(env.api),
                                          mode |-> env.api.mode, moved |-> FALSE]
                                    ELSE vaultrows[p]]
           /\ stored' = [ok |-> ok, ready |-> vault_status(env.api),
                         named |-> aad(place) # None]
           /\ sealed_n' = [sealed_n EXCEPT !.seals = n]
    /\ opened' = None
    /\ UNCHANGED env

\* A worker reads the credential it is asked to use.
load_credential(place) ==
    /\ place \in DOMAIN vaultrows
    /\ LET row == vaultrows[place] IN
       opened' = [got |-> IF Usable(env.worker) THEN open_sealed(env.worker, row.is, aad(place))
                          ELSE None,
                  for |-> row.for, moved |-> row.moved,
                  same |-> Usable(env.worker) /\ build_key_manager(env.worker) = row.under]
    /\ stored' = None
    /\ UNCHANGED <<env, vaultrows, sealed_n>>

\* A row's sealed bytes end up under another row's key.
move_row(from, to) ==
    /\ from \in DOMAIN vaultrows /\ to \in DOMAIN vaultrows /\ from # to
    /\ sealed_n.moves < MaxMoves
    /\ vaultrows' = [vaultrows EXCEPT ![to] = [@ EXCEPT !.is = vaultrows[from].is,
                                                        !.moved = TRUE]]
    /\ sealed_n' = [sealed_n EXCEPT !.moves = @ + 1]
    /\ opened' = None /\ stored' = None
    /\ UNCHANGED env

redeploy_vault(p) ==
    /\ sealed_n.deploys < MaxRedeploys
    /\ \E e \in Environments : env' = [env EXCEPT ![p] = e]
    /\ sealed_n' = [sealed_n EXCEPT !.deploys = @ + 1]
    /\ opened' = None /\ stored' = None
    /\ UNCHANGED vaultrows

VaultNext ==
    \/ \E place \in Places : store_credential(place) \/ load_credential(place)
    \/ \E from, to \in Places : move_row(from, to)
    \/ \E p \in Processes : redeploy_vault(p)

VaultSpec == VaultInit /\ [][VaultNext]_vaultVars

(***************************************************************************)
(* Properties                                                              *)
(***************************************************************************)

\* A worker is never handed another row's secret, however rows were written back
\* over each other: it gets one that was stored for this very place, or none; and
\* it gets the current one while the row is as it was put there and the process
\* holds the key it was sealed under.
OpensItsOwn ==
    opened # None =>
        /\ opened.got # None => opened.got[1] = opened.for[1]
        /\ opened.same /\ ~ opened.moved => opened.got = opened.for

\* Whatever the health document calls ready does seal, and in real mode no
\* credential is ever sealed under a key the process itself holds.
ReadyMeansSealed ==
    /\ stored # None /\ stored.named => stored.ready = stored.ok
    /\ \A p \in DOMAIN vaultrows : vaultrows[p].mode = "real" => vaultrows[p].under[1] = "kms"

VaultHolds == OpensItsOwn /\ ReadyMeansSealed

=============================================================================
