--------------------------------- MODULE Daemon --------------------------------
(***************************************************************************)
(* The requests of the daemon that change its home directory               *)
(* (satspathd: server.rs, router.rs, handlers/profile.rs, wallet.rs,       *)
(* claim.rs, send.rs, transparency.rs; satspath-core: invite_store.rs).    *)
(*                                                                         *)
(* A request spans several files: the wallet, the identity keys, the       *)
(* operator key, the invites and the transparency store.  Each file is     *)
(* replaced atomically, the sequence of replacements is not.  The routes   *)
(* that change the profile hold mutation_lock; broadcast, send, the list   *)
(* of invites and the notifications do not.  A write may fail and the      *)
(* process may die between any two steps.                                  *)
(*                                                                         *)
(* Abstractions.  The transparency store is a log with an atomic commit    *)
(* that fails if the log has moved; TransparencyStore justifies this.  A   *)
(* profile is its key, a wallet its alias, its key and whether it has a    *)
(* receive method.  A claim with a profile signed elsewhere always fails   *)
(* before it writes and is left out.                                       *)
(***************************************************************************)
EXTENDS Naturals, Sequences, FiniteSets

CONSTANTS
    Aliases, Keys, Operators,  \* names, identity keys, operator keys
    Invites,                   \* the ids invites get
    Recipient,                 \* the alias each invite is for
    Requests,                  \* each is sent once
    Permits,                   \* requests served at once
    None                       \* an absent value

ASSUME RecipientAssumption == Recipient \in [Invites -> Aliases]
ASSUME PermitsAssumption == Permits \in Nat
ASSUME NoneAssumption == None \notin Aliases \cup Keys \cup Operators \cup Invites \cup Requests

--------------------------------------------------------------------------------
(* State *)

Wallet == [alias : Aliases \cup {None}, key : Keys \cup {None}, methods : BOOLEAN]

EmptyWallet == [alias |-> None, key |-> None, methods |-> FALSE]

\* An invite with the notification its claim leaves for the sender.
Invite == [status : {"Absent", "Created", "Claimed", "Expired"},
           notice : {"none", "unread", "read"}]

InviteFile == [Invites -> Invite]

NoInvites == [i \in Invites |-> [status |-> "Absent", notice |-> "none"]]

\* What the daemon's models need of an event and its checkpoint.
Event == [alias : Aliases, key : Keys, operator : Operators]

Locked == {"update", "verify", "claim", "rotate"}

Kind == Locked \cup {"broadcast", "send", "list", "read"}

PC == {"new", "lock", "invites", "wallet", "newKey", "newWallet", "open", "operator",
       "newOperator", "rotationKey", "commit", "saveWallet", "saveInvites", "done"}

\* A request with the copies it works on.
Request == [pc : PC, kind : Kind,
            alias : Aliases \cup {None},        \* verify: the alias; claim: the recipient
            invite : Invites \cup {None},
            wallet : Wallet, file : InviteFile,
            seen : Nat,                         \* the length of the log it loaded
            key : Keys \cup {None},             \* the key it publishes
            operator : Operators \cup {None}]

NewRequest == [pc |-> "new", kind |-> "update", alias |-> None, invite |-> None,
               wallet |-> EmptyWallet, file |-> NoInvites, seen |-> 0, key |-> None,
               operator |-> None]

VARIABLES
    wallet,      \* wallet.json
    keyFiles,    \* identity/<key>.key
    operatorKey, \* transparency/operator.key
    log,         \* the events of the transparency store
    invites,     \* invites.json
    issued,      \* the invite ids used so far
    past,        \* the invites whose time is over
    lock,        \* the request that holds mutation_lock
    request

files == <<wallet, keyFiles, operatorKey, log, invites>>
vars == <<files, issued, past, lock, request>>

TypeOK ==
    /\ wallet \in Wallet
    /\ keyFiles \in SUBSET Keys
    /\ operatorKey \in Operators \cup {None}
    /\ log \in Seq(Event)
    /\ invites \in InviteFile
    /\ issued \in SUBSET Invites
    /\ past \in SUBSET Invites
    /\ lock \in Requests \cup {None}
    /\ request \in [Requests -> Request]

Init ==
    /\ wallet = EmptyWallet
    /\ keyFiles = {}
    /\ operatorKey = None
    /\ log = <<>>
    /\ invites = NoInvites
    /\ issued = {}
    /\ past = {}
    /\ lock = None
    /\ request = [r \in Requests |-> NewRequest]

--------------------------------------------------------------------------------
(* Requests, permits and the lock *)

Active == {r \in Requests : request[r].pc \notin {"new", "done"}}

At(r, pc) == request[r].pc = pc

\* The answer: what the request held is dropped, its lock included.
Done(r) ==
    /\ request' = [request EXCEPT ![r] = [NewRequest EXCEPT !.pc = "done"]]
    /\ lock' = IF lock = r THEN None ELSE lock

Goto(r, pc) == request' = [request EXCEPT ![r].pc = pc] /\ lock' = lock

\* A permit is free; the route decides whether the lock is needed.
Arrive(r, kind, alias, invite) ==
    /\ At(r, "new")
    /\ Cardinality(Active) < Permits
    /\ request' = [request EXCEPT ![r] = [NewRequest EXCEPT
          !.kind = kind, !.alias = alias, !.invite = invite,
          !.pc = IF kind \in Locked THEN "lock"
                 ELSE IF kind = "broadcast" THEN "wallet" ELSE "invites"]]
    /\ UNCHANGED <<files, past, lock>>

Update(r) == Arrive(r, "update", None, None) /\ UNCHANGED issued

Verify(r) == \E a \in Aliases : Arrive(r, "verify", a, None) /\ UNCHANGED issued

Rotate(r) == Arrive(r, "rotate", None, None) /\ UNCHANGED issued

Claim(r) == \E i \in issued : Arrive(r, "claim", Recipient[i], i) /\ UNCHANGED issued

Broadcast(r) == Arrive(r, "broadcast", None, None) /\ UNCHANGED issued

\* The recipient could not be resolved; the invite has a fresh id.
Send(r) ==
    \E i \in Invites \ issued :
        /\ Arrive(r, "send", None, i)
        /\ issued' = issued \cup {i}

ListInvites(r) == Arrive(r, "list", None, None) /\ UNCHANGED issued

\* All notifications, or the one of an invite.
MarkRead(r) == \E i \in issued \cup {None} : Arrive(r, "read", None, i) /\ UNCHANGED issued

\* Mutant: the guard is dropped as soon as it is taken.
TakeLock_Dropped(r) ==
    /\ At(r, "lock")
    /\ lock = None
    /\ Goto(r, IF request[r].kind = "claim" THEN "invites" ELSE "wallet")
    /\ UNCHANGED <<files, issued, past>>

TakeLock(r) ==
    /\ At(r, "lock")
    /\ lock = None
    /\ lock' = r
    /\ request' = [request EXCEPT ![r].pc = IF request[r].kind = "claim" THEN "invites"
                                            ELSE "wallet"]
    /\ UNCHANGED <<files, issued, past>>
--------------------------------------------------------------------------------
(* Invites: every handler opens a copy of the file and saves the whole copy *)

Expiring(F) ==
    [i \in Invites |-> IF F[i].status = "Created" /\ i \in past
                       THEN [F[i] EXCEPT !.status = "Expired"] ELSE F[i]]

WithInvite(F, i) == [F EXCEPT ![i] = [status |-> "Created", notice |-> "none"]]

\* The notices of i, or of every invite, are read.
WithRead(F, i) ==
    [j \in Invites |-> IF i \in {j, None} /\ F[j].notice = "unread"
                       THEN [F[j] EXCEPT !.notice = "read"] ELSE F[j]]

\* Mutant: no notification is pushed.
WithClaim_Silent(F, i) ==
    [F EXCEPT ![i].status = IF i \in past THEN "Expired" ELSE "Claimed"]

WithClaim(F, i) ==
    [F EXCEPT ![i] = IF i \in past THEN [@ EXCEPT !.status = "Expired"]
                     ELSE [status |-> "Claimed", notice |-> "unread"]]

\* get: what the handler may go on with.
Claimable(i) == invites[i].status = "Created" /\ i \notin past

Opened(r, F, pc) ==
    /\ request' = [request EXCEPT ![r].pc = pc, ![r].file = F]
    /\ UNCHANGED <<files, issued, past, lock>>

OpenInvites(r) ==
    LET i == request[r].invite
        kind == request[r].kind
    IN /\ At(r, "invites")
       /\ \/ kind = "claim" /\ Claimable(i) /\ Opened(r, invites, "wallet")
          \/ kind = "send" /\ Opened(r, WithInvite(invites, i), "saveInvites")
          \/ kind = "list" /\ Expiring(invites) # invites
                           /\ Opened(r, Expiring(invites), "saveInvites")
          \/ kind = "read" /\ (i # None => invites[i].notice # "none")
                           /\ Opened(r, WithRead(invites, i), "saveInvites")

\* The invite cannot be claimed, nothing has expired, no such notification.
InvitesReject(r) ==
    LET i == request[r].invite
        kind == request[r].kind
    IN /\ At(r, "invites")
       /\ \/ kind = "claim" /\ ~Claimable(i)
          \/ kind = "list" /\ Expiring(invites) = invites
          \/ kind = "read" /\ i # None /\ invites[i].notice = "none"
       /\ Done(r)
       /\ UNCHANGED <<files, issued, past>>

SaveInvites(r) ==
    /\ At(r, "saveInvites")
    /\ invites' = IF request[r].kind = "claim" THEN WithClaim(request[r].file, request[r].invite)
                  ELSE request[r].file
    /\ Done(r)
    /\ UNCHANGED <<wallet, keyFiles, operatorKey, log, issued, past>>

--------------------------------------------------------------------------------
(* The wallet and the identity *)

Fresh == Keys \ keyFiles

LoadWallet(r) ==
    LET kind == request[r].kind IN
    /\ At(r, "wallet")
    /\ kind = "broadcast" => wallet.alias # None
    /\ kind = "rotate" => wallet.alias # None /\ wallet.key \in keyFiles
    /\ request' = [request EXCEPT
          ![r].wallet = wallet,
          ![r].pc = IF kind \in Locked /\ wallet.key = None THEN "newKey" ELSE "open"]
    /\ UNCHANGED <<files, issued, past, lock>>

WalletRejects(r) ==
    /\ At(r, "wallet")
    /\ \/ request[r].kind \in {"broadcast", "rotate"} /\ wallet.alias = None
       \/ request[r].kind = "rotate" /\ wallet.key \notin keyFiles
    /\ Done(r)
    /\ UNCHANGED <<files, issued, past>>

\* ensure_signed_profile: nothing is signed if the registry, which the command line writes into
\* the same directory, has a valid profile for the alias; it may have one at any time.
AlreadySigned(r) ==
    /\ At(r, "wallet")
    /\ request[r].kind = "broadcast" /\ wallet.alias # None
    /\ Done(r)
    /\ UNCHANGED <<files, issued, past>>

\* load_or_create_identity: the secret first, then the wallet that names it.
CreateKey(r) ==
    /\ At(r, "newKey")
    /\ \E k \in Fresh :
         /\ keyFiles' = keyFiles \cup {k}
         /\ request' = [request EXCEPT ![r].pc = "newWallet", ![r].wallet.key = k]
    /\ UNCHANGED <<wallet, operatorKey, log, invites, issued, past, lock>>

CreateWallet(r) ==
    /\ At(r, "newWallet")
    /\ wallet' = request[r].wallet
    /\ Goto(r, "open")
    /\ UNCHANGED <<keyFiles, operatorKey, log, invites, issued, past>>

\* The wallets the handler may go on with: apply_method_updates and the alias.
Edited(r) ==
    LET w == request[r].wallet IN
    CASE request[r].kind = "update" -> {[w EXCEPT !.methods = m] : m \in BOOLEAN}
      [] request[r].kind = "verify" -> {[w EXCEPT !.alias = request[r].alias]}
      [] request[r].kind = "claim" ->
           {[w EXCEPT !.alias = request[r].alias, !.methods = TRUE]}
      [] OTHER -> {w}

SaveWallet(r) ==
    /\ At(r, "saveWallet")
    /\ wallet' = request[r].wallet
    /\ IF request[r].kind = "claim" THEN Goto(r, "saveInvites") ELSE Done(r)
    /\ UNCHANGED <<keyFiles, operatorKey, log, invites, issued, past>>

--------------------------------------------------------------------------------
(* sign_and_store, rotate_profile_key *)

\* The key of the alias's latest event.
Owner(a) ==
    LET I == {i \in DOMAIN log : log[i].alias = a}
    IN IF I = {} THEN None
       ELSE log[CHOOSE i \in I : \A j \in I : j <= i].key

\* What the handler checks up to prepare_append.
Publishable(r, w) ==
    /\ w.alias # None
    /\ w.key \in keyFiles
    /\ IF request[r].kind = "rotate" THEN Owner(w.alias) = w.key
       ELSE w.methods /\ Owner(w.alias) \in {None, w.key}

\* verify_challenge publishes only if there is a method.
SavesOnly(r, w) == request[r].kind = "verify" /\ ~w.methods

OpenStore(r) ==
    /\ At(r, "open")
    /\ \E w \in Edited(r) :
         /\ ~SavesOnly(r, w)
         /\ Publishable(r, w)
         /\ request' = [request EXCEPT ![r].pc = "operator", ![r].wallet = w, ![r].key = w.key,
                                       ![r].seen = Len(log)]
    /\ UNCHANGED <<files, issued, past, lock>>

SkipStore(r) ==
    /\ At(r, "open")
    /\ \E w \in Edited(r) :
         /\ SavesOnly(r, w)
         /\ request' = [request EXCEPT ![r].pc = "saveWallet", ![r].wallet = w]
    /\ UNCHANGED <<files, issued, past, lock>>

StoreRejects(r) ==
    /\ At(r, "open")
    /\ \E w \in Edited(r) : ~SavesOnly(r, w) /\ ~Publishable(r, w)
    /\ Done(r)
    /\ UNCHANGED <<files, issued, past>>

\* After load_or_create_transparency_operator.
AfterOperator(r) == IF request[r].kind = "rotate" THEN "rotationKey" ELSE "commit"

\* Mutant: the file is not looked for.
LoadOperator_Unchecked(r) ==
    /\ At(r, "operator")
    /\ request' = [request EXCEPT ![r].operator = operatorKey, ![r].pc = AfterOperator(r)]
    /\ UNCHANGED <<files, issued, past, lock>>

LoadOperator(r) ==
    /\ At(r, "operator")
    /\ operatorKey # None
    /\ request' = [request EXCEPT ![r].operator = operatorKey, ![r].pc = AfterOperator(r)]
    /\ UNCHANGED <<files, issued, past, lock>>

GenerateOperator(r) ==
    /\ At(r, "operator")
    /\ operatorKey = None
    /\ \E o \in Operators :
         request' = [request EXCEPT ![r].operator = o, ![r].pc = "newOperator"]
    /\ UNCHANGED <<files, issued, past, lock>>

SaveOperator(r) ==
    /\ At(r, "newOperator")
    /\ operatorKey' = request[r].operator
    /\ Goto(r, AfterOperator(r))
    /\ UNCHANGED <<wallet, keyFiles, log, invites, issued, past>>

\* Mutant: the key is generated and saved only after the commit.
SaveRotationKey_Later(r) ==
    /\ At(r, "rotationKey")
    /\ \E k \in Fresh :
         request' = [request EXCEPT ![r].key = k, ![r].pc = "commit"]
    /\ UNCHANGED <<files, issued, past, lock>>

\* Mutant: the new key becomes active with its backup.
SaveRotationKey_Activates(r) ==
    /\ At(r, "rotationKey")
    /\ \E k \in Fresh :
         /\ keyFiles' = keyFiles \cup {k}
         /\ wallet' = [request[r].wallet EXCEPT !.key = k]
         /\ request' = [request EXCEPT ![r].key = k, ![r].pc = "commit"]
    /\ UNCHANGED <<operatorKey, log, invites, issued, past, lock>>

\* The backup of the new key, before the commit and not yet active.
SaveRotationKey(r) ==
    /\ At(r, "rotationKey")
    /\ \E k \in Fresh :
         /\ keyFiles' = keyFiles \cup {k}
         /\ request' = [request EXCEPT ![r].key = k, ![r].pc = "commit"]
    /\ UNCHANGED <<wallet, operatorKey, log, invites, issued, past, lock>>

\* The commit checks that the log has not moved and that the operator continues.
CommitOK(r) ==
    /\ Len(log) = request[r].seen
    /\ log # <<>> => log[Len(log)].operator = request[r].operator

Commit(r) ==
    /\ At(r, "commit")
    /\ CommitOK(r)
    /\ log' = Append(log, [alias |-> request[r].wallet.alias, key |-> request[r].key,
                           operator |-> request[r].operator])
    /\ request' = [request EXCEPT ![r].wallet.key = request[r].key, ![r].pc = "saveWallet"]
    /\ UNCHANGED <<wallet, keyFiles, operatorKey, invites, issued, past, lock>>

CommitRejects(r) ==
    /\ At(r, "commit")
    /\ ~CommitOK(r)
    /\ Done(r)
    /\ UNCHANGED <<files, issued, past>>

--------------------------------------------------------------------------------
(* Failures and time *)

\* Mutant: a failed commit does not stop the handler.
WriteFails_Ignored(r) ==
    /\ At(r, "commit")
    /\ Goto(r, "saveWallet")
    /\ UNCHANGED <<files, issued, past>>

\* A full or read-only device.
WriteFails(r) ==
    /\ request[r].pc \in {"newKey", "newWallet", "newOperator", "rotationKey", "commit",
                          "saveWallet", "saveInvites"}
    /\ Done(r)
    /\ UNCHANGED <<files, issued, past>>

Crash ==
    /\ Active # {}
    /\ request' = [r \in Requests |-> IF r \in Active THEN [NewRequest EXCEPT !.pc = "done"]
                                      ELSE request[r]]
    /\ lock' = None
    /\ UNCHANGED <<files, issued, past>>

Expire(i) ==
    /\ i \in issued \ past
    /\ past' = past \cup {i}
    /\ UNCHANGED <<files, issued, lock, request>>

RequestStep(r) ==
    \/ Update(r) \/ Verify(r) \/ Rotate(r) \/ Claim(r)
    \/ Broadcast(r) \/ Send(r) \/ ListInvites(r) \/ MarkRead(r)
    \/ TakeLock(r)
    \/ OpenInvites(r) \/ InvitesReject(r) \/ SaveInvites(r)
    \/ LoadWallet(r) \/ WalletRejects(r) \/ AlreadySigned(r) \/ CreateKey(r) \/ CreateWallet(r) \/ SaveWallet(r)
    \/ OpenStore(r) \/ SkipStore(r) \/ StoreRejects(r)
    \/ LoadOperator(r) \/ GenerateOperator(r) \/ SaveOperator(r)
    \/ SaveRotationKey(r) \/ Commit(r) \/ CommitRejects(r)
    \/ WriteFails(r)

Next ==
    \/ \E r \in Requests : RequestStep(r)
    \/ Crash
    \/ \E i \in Invites : Expire(i)

Spec == Init /\ [][Next]_vars

--------------------------------------------------------------------------------
(* Properties *)

\* The secret of every key that ever owned a name is on disk, and so is that of the
\* wallet's key: a rotation saves the new key before it commits it, so no crash or
\* failed write leaves a name whose key is lost (rotate_profile_key,
\* load_or_create_identity).
KeyOnDisk ==
    /\ \A i \in DOMAIN log : log[i].key \in keyFiles
    /\ wallet.key \in keyFiles \cup {None}

\* One operator key signs the whole log and is the one on disk, although the check
\* for operator.key and its creation are two steps and broadcast takes no lock
\* (load_or_create_transparency_operator): nothing reaches it unlocked before the
\* first commit.
OneOperator == \A i \in DOMAIN log : log[i].operator = operatorKey

\* An invite is recorded as claimed only after its recipient's profile is published
\* (claim_invite_handler), and every saved state of the invites has a notification for
\* exactly the claimed ones (InviteStore::claim), whatever stale copies of the file are
\* saved, through races, expiry and crashes.
ClaimsAreWhole ==
    \A i \in Invites :
        /\ invites[i].status = "Claimed" => Owner(Recipient[i]) # None
        /\ invites[i].status = "Claimed" <=> invites[i].notice # "none"

\* The wallet's key is replaced only by one the log has accepted: the rotated key
\* is not made active before its commit (rotate_profile_key).
ActiveKeyWasPublished ==
    [][wallet'.key # wallet.key /\ wallet.key # None
         => \E i \in DOMAIN log : log[i].key = wallet'.key]_vars

================================================================================
