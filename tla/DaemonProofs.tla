------------------------------ MODULE DaemonProofs -----------------------------
(***************************************************************************)
(* Machine-checked proofs about the daemon's requests, for any number of   *)
(* requests, permits, names, keys and invites: whatever requests interleave*)
(* and wherever they fail, the files agree with each other.                *)
(***************************************************************************)
EXTENDS Daemon, CommonLemmas

\* The steps that work on a copy of the wallet, and those between the load of the store and
\* its commit.
Publishing == {"operator", "newOperator", "rotationKey", "commit"}
WalletSteps == {"wallet", "newKey", "newWallet", "open", "saveWallet"} \cup Publishing

Settled(k, lg) == \E i \in DOMAIN lg : lg[i].key = k
Published(a, lg) == \E i \in DOMAIN lg : lg[i].alias = a

\* A key that a copy of the wallet w may name: before the first commit there is only one.
Current(k, w, lg) == IF lg = <<>> THEN k = w.key ELSE Settled(k, lg)

\* A wallet that could be broadcast is one that was published.
Announced(w, lg) == w.alias # None /\ w.methods => lg # <<>>

\* The invites, or any copy of them.
FileInv(F, lg) ==
    \A i \in Invites :
        /\ F[i].status = "Claimed" => Published(Recipient[i], lg)
        /\ F[i].status = "Claimed" <=> F[i].notice # "none"

--------------------------------------------------------------------------------
(* What a request in state q knows, given the files w, kf, lg, op and the lock lk *)

Inputs(q) ==
    /\ q.kind \in {"claim", "send"} => q.invite \in Invites
    /\ q.kind = "verify" => q.alias \in Aliases
    /\ q.kind = "claim" => q.alias = Recipient[q.invite]

\* Where a kind of request can get to, and that it holds the lock there.
RouteInv(r, q, lk) ==
    /\ q.pc = "lock" => q.kind \in Locked
    /\ q.pc \in WalletSteps => q.kind \in Locked \cup {"broadcast"}
    /\ q.pc \in {"newKey", "newWallet"} => q.kind \in Locked
    /\ q.pc = "rotationKey" => q.kind = "rotate"
    /\ q.pc \notin {"new", "lock", "done"} /\ q.kind \in Locked => lk = r

ClaimInv(q, lg) ==
    /\ FileInv(q.file, lg)
    /\ q.kind = "claim" =>
          /\ q.pc \in WalletSteps \cup {"saveInvites"} => q.file[q.invite].status = "Created"
          /\ q.pc \in Publishing => q.wallet.alias = q.alias
          /\ q.pc \in {"saveWallet", "saveInvites"} => Published(q.alias, lg)

KeyInv(q, w, kf, lg) ==
    /\ q.wallet.key \in kf \cup {None}
    /\ q.pc \in {"newKey", "newWallet"} => w.key = None
    /\ q.pc \in {"newWallet", "saveWallet"} => q.wallet.key # None
    /\ q.pc = "open" /\ q.kind \in Locked => q.wallet.key # None
    /\ q.pc \in Publishing =>
          /\ q.key \in kf /\ q.wallet.key # None /\ q.wallet.alias # None
          /\ IF q.kind = "rotate" THEN lg # <<>> ELSE q.key = q.wallet.key
    /\ q.wallet.key # None /\ q.pc # "newWallet" => Current(q.wallet.key, w, lg)

OperatorInv(q, lg, op) ==
    /\ q.pc \in {"newKey", "newWallet", "open", "saveWallet"} => Announced(q.wallet, lg)
    /\ q.pc \in Publishing \cup {"saveWallet"} /\ q.kind = "broadcast" => lg # <<>>
    /\ q.pc = "newOperator" => q.kind \in Locked /\ lg = <<>> /\ op = None /\ q.operator \in Operators
    /\ q.pc \in {"rotationKey", "commit"} => op # None /\ q.operator = op

RequestInv(r, q, w, kf, lg, op, lk) ==
    /\ Inputs(q)
    /\ RouteInv(r, q, lk)
    /\ ClaimInv(q, lg)
    /\ KeyInv(q, w, kf, lg)
    /\ OperatorInv(q, lg, op)

\* The files among themselves.
FilesInv(w, kf, lg, op, F) ==
    /\ \A i \in DOMAIN lg : lg[i].key \in kf /\ lg[i].operator = op
    /\ w.key \in kf \cup {None}
    /\ Announced(w, lg)
    /\ lg # <<>> => Settled(w.key, lg)
    /\ FileInv(F, lg)

Inv ==
    /\ TypeOK
    /\ FilesInv(wallet, keyFiles, log, operatorKey, invites)
    /\ \A r \in Requests : RequestInv(r, request[r], wallet, keyFiles, log, operatorKey, lock)

--------------------------------------------------------------------------------
(* Steps of one request *)

\* A log that grows keeps what it shows.
LEMMA LogGrows ==
    ASSUME NEW lg \in Seq(Event), NEW e \in Event
    PROVE  /\ Append(lg, e) # <<>> /\ Append(lg, e) \in Seq(Event)
           /\ \A k : Settled(k, Append(lg, e)) <=> Settled(k, lg) \/ k = e.key
           /\ \A a : Published(a, Append(lg, e)) <=> Published(a, lg) \/ a = e.alias
           /\ \A i \in DOMAIN Append(lg, e) : Append(lg, e)[i] = e \/ (i \in DOMAIN lg /\ Append(lg, e)[i] = lg[i])
<1>1. /\ Append(lg, e) \in Seq(Event) /\ Append(lg, e) # <<>> /\ Len(Append(lg, e)) = Len(lg) + 1
      /\ Append(lg, e)[Len(lg) + 1] = e /\ Len(lg) \in Nat
      /\ \A i \in 1 .. Len(lg) : Append(lg, e)[i] = lg[i]
  BY AppendProperties
<1>2. /\ DOMAIN Append(lg, e) = 1 .. Len(lg) + 1 /\ DOMAIN lg = 1 .. Len(lg)
      /\ Len(lg) + 1 \in DOMAIN Append(lg, e) /\ DOMAIN lg \subseteq DOMAIN Append(lg, e)
  BY <1>1
<1>3. \A i \in DOMAIN Append(lg, e) : Append(lg, e)[i] = e \/ (i \in DOMAIN lg /\ Append(lg, e)[i] = lg[i])
  BY <1>1, <1>2
<1>4. \A k : Settled(k, Append(lg, e)) <=> Settled(k, lg) \/ k = e.key
  BY <1>1, <1>2, <1>3 DEF Settled
<1>5. \A a : Published(a, Append(lg, e)) <=> Published(a, lg) \/ a = e.alias
  BY <1>1, <1>2, <1>3 DEF Published
<1> QED BY <1>1, <1>3, <1>4, <1>5

\* What a step of request r may do to the files and the lock under the others' feet: keys are
\* added; the log grows only once there is an operator key, and its first event is of the
\* wallet's key; the operator key is written once and under the lock; the wallet changes under
\* the lock or once it has a key, and keeps that key until the first commit.
Interferes(r) ==
    /\ keyFiles \subseteq keyFiles'
    /\ \/ log' = log
       \/ /\ operatorKey # None
          /\ \E e \in Event : log' = Append(log, e) /\ (log = <<>> => e.key = wallet.key)
    /\ operatorKey' = operatorKey \/ (operatorKey = None /\ lock = r)
    /\ lock' = lock \/ lock = r \/ lock = None
    /\ wallet' = wallet \/ lock = r \/ wallet.key # None
    /\ log = <<>> /\ wallet.key # None => wallet'.key = wallet.key

\* The other requests are not disturbed.
LEMMA OthersKeep ==
    ASSUME Inv, NEW r \in Requests, Interferes(r), NEW s \in Requests, s # r
    PROVE  RequestInv(s, request[s], wallet', keyFiles', log', operatorKey', lock')
<1> DEFINE q == request[s]
<1>1. /\ RequestInv(s, q, wallet, keyFiles, log, operatorKey, lock) /\ log \in Seq(Event)
      /\ None \notin Requests
  BY NoneAssumption DEF Inv, TypeOK
<1> HIDE DEF q
<1>2. /\ log # <<>> => log' # <<>>
      /\ \A k : Settled(k, log) => Settled(k, log')
      /\ \A a : Published(a, log) => Published(a, log')
  <2>1. ASSUME NEW e \in Event, log' = Append(log, e)
        PROVE  /\ log' # <<>>
               /\ \A k : Settled(k, log) => Settled(k, log')
               /\ \A a : Published(a, log) => Published(a, log')
    BY <1>1, <2>1, LogGrows
  <2>2. CASE log' = log
    BY <2>2
  <2> QED BY <2>1, <2>2 DEF Interferes
<1>3. RouteInv(s, q, lock')
  BY <1>1 DEF RequestInv, RouteInv, Interferes
<1>4. ClaimInv(q, log')
  BY <1>1, <1>2 DEF RequestInv, ClaimInv, FileInv
<1>5. ASSUME q.pc \in {"newKey", "newWallet"} PROVE wallet'.key = None
  <2>1. lock = s /\ wallet.key = None
    BY <1>1, <1>5 DEF RequestInv, RouteInv, KeyInv
  <2> QED BY <2>1 DEF Interferes
<1>6. ASSUME q.wallet.key # None, q.pc # "newWallet" PROVE Current(q.wallet.key, wallet', log')
  <2>1. Current(q.wallet.key, wallet, log)
    BY <1>1, <1>6 DEF RequestInv, KeyInv
  <2>2. CASE log # <<>>
    BY <1>2, <2>1, <2>2 DEF Current
  <2>3. CASE log = <<>>
    <3>1. q.wallet.key = wallet.key
      BY <2>1, <2>3 DEF Current
    <3>2. CASE log' = log
      BY <1>6, <2>3, <3>1, <3>2 DEF Current, Interferes
    <3>3. CASE log' # log
      <4>1. PICK e \in Event : log' = Append(log, e) /\ e.key = wallet.key
        BY <2>3, <3>3 DEF Interferes
      <4>2. Settled(wallet.key, log') /\ log' # <<>>
        BY <1>1, <4>1, LogGrows
      <4> QED BY <3>1, <4>2 DEF Current
    <3> QED BY <3>2, <3>3
  <2> QED BY <2>2, <2>3
<1>7. KeyInv(q, wallet', keyFiles', log')
  BY <1>1, <1>2, <1>5, <1>6 DEF RequestInv, KeyInv, Interferes
<1>8. OperatorInv(q, log', operatorKey')
  <2>1. ASSUME q.pc = "newOperator" PROVE log' = log /\ operatorKey' = operatorKey
    <3>1. lock = s /\ operatorKey = None
      BY <1>1, <2>1 DEF RequestInv, OperatorInv, RouteInv
    <3> QED BY <3>1 DEF Interferes
  <2> QED BY <1>1, <1>2, <2>1 DEF RequestInv, OperatorInv, Announced, Interferes
<1> QED BY <1>1, <1>3, <1>4, <1>7, <1>8 DEF RequestInv, q

\* A step that moves request r to state n.
LEMMA OneRequest ==
    ASSUME Inv, NEW r \in Requests, NEW n \in Request, request' = [request EXCEPT ![r] = n],
           RequestInv(r, n, wallet', keyFiles', log', operatorKey', lock'),
           Interferes(r), FilesInv(wallet', keyFiles', log', operatorKey', invites'),
           wallet' \in Wallet, keyFiles' \in SUBSET Keys, operatorKey' \in Operators \cup {None},
           log' \in Seq(Event), invites' \in InviteFile, issued' \in SUBSET Invites,
           past' = past, lock' \in Requests \cup {None}
    PROVE  Inv'
<1>1. TypeOK'
  BY DEF Inv, TypeOK
<1>2. \A s \in Requests : request'[s] = IF s = r THEN n ELSE request[s]
  BY DEF Inv, TypeOK
<1>3. \A s \in Requests : RequestInv(s, request'[s], wallet', keyFiles', log', operatorKey', lock')
  BY <1>2, OthersKeep
<1> QED BY <1>1, <1>3 DEF Inv

\* A step that changes only the request and, perhaps, the lock.
LEMMA QuietStep ==
    ASSUME Inv, NEW r \in Requests, NEW n \in Request, request' = [request EXCEPT ![r] = n],
           RequestInv(r, n, wallet, keyFiles, log, operatorKey, lock'),
           UNCHANGED <<files, past>>, issued' \in SUBSET Invites,
           lock' = lock \/ lock = r \/ lock = None, lock' \in Requests \cup {None}
    PROVE  Inv'
<1>1. Interferes(r)
  BY DEF Interferes, files
<1> QED BY <1>1, OneRequest DEF Inv, TypeOK, files

--------------------------------------------------------------------------------
(* Requests that begin and end *)

LEMMA EmptyFiles == NoInvites \in InviteFile /\ EmptyWallet \in Wallet /\ \A lg : FileInv(NoInvites, lg)
  BY DEF NoInvites, InviteFile, Invite, EmptyWallet, Wallet, FileInv

\* A request that works on nothing yet.
LEMMA BlankRequest ==
    ASSUME NEW q, q.wallet = EmptyWallet, q.file = NoInvites, Inputs(q),
           q.pc \in {"new", "lock", "wallet", "invites", "done"},
           q.pc = "lock" => q.kind \in Locked,
           q.pc \in {"wallet", "invites"} => q.kind \notin Locked,
           q.pc = "wallet" => q.kind = "broadcast"
    PROVE  \A r, w, kf, lg, op, lk : RequestInv(r, q, w, kf, lg, op, lk)
<1> SUFFICES ASSUME NEW r, NEW w, NEW kf, NEW lg, NEW op, NEW lk
             PROVE  RequestInv(r, q, w, kf, lg, op, lk)
  OBVIOUS
<1>1. q.wallet.key = None
  BY DEF EmptyWallet
<1>2. ClaimInv(q, lg)
  <2>1. q.kind = "claim" => q.pc \notin WalletSteps \cup {"saveInvites"}
    BY DEF WalletSteps, Publishing
  <2>2. FileInv(q.file, lg)
    BY EmptyFiles
  <2> QED BY <2>1, <2>2 DEF ClaimInv, WalletSteps, Publishing
<1>3. RouteInv(r, q, lk)
  BY DEF RouteInv, WalletSteps, Publishing, Locked
<1>4. KeyInv(q, w, kf, lg)
  BY <1>1 DEF KeyInv, Publishing
<1>5. OperatorInv(q, lg, op)
  BY DEF OperatorInv, Publishing
<1> QED BY <1>2, <1>3, <1>4, <1>5 DEF RequestInv

\* A request that is answered.
LEMMA Answered ==
    LET n == [NewRequest EXCEPT !.pc = "done"]
    IN  n \in Request /\ \A r, w, kf, lg, op, lk : RequestInv(r, n, w, kf, lg, op, lk)
<1> DEFINE n == [NewRequest EXCEPT !.pc = "done"]
<1>1. n.kind = "update" /\ n.pc = "done" /\ n.wallet = EmptyWallet /\ n.file = NoInvites
  BY DEF NewRequest
<1>2. n \in Request
  BY EmptyFiles DEF NewRequest, Request, PC, Kind, Locked
<1> HIDE DEF n
<1>3. Inputs(n)
  BY <1>1 DEF Inputs
<1> QED BY <1>1, <1>2, <1>3, BlankRequest DEF n

LEMMA DoneStep ==
    ASSUME Inv, NEW r \in Requests, Done(r), UNCHANGED <<files, issued, past>>
    PROVE  Inv'
<1> DEFINE n == [NewRequest EXCEPT !.pc = "done"]
<1>1. n \in Request /\ RequestInv(r, n, wallet, keyFiles, log, operatorKey, lock')
  BY Answered
<1>2. request' = [request EXCEPT ![r] = n] /\ lock' \in {lock, None} /\ (lock' = lock \/ lock = r)
  BY DEF Done
<1> HIDE DEF n
<1> QED BY <1>1, <1>2, QuietStep DEF Inv, TypeOK

LEMMA ArriveStep ==
    ASSUME Inv, NEW r \in Requests, NEW kind \in Kind, NEW alias \in Aliases \cup {None},
           NEW invite \in Invites \cup {None}, Arrive(r, kind, alias, invite),
           kind \in {"claim", "send"} => invite \in Invites,
           kind = "verify" => alias \in Aliases,
           kind = "claim" => alias = Recipient[invite],
           issued' \in SUBSET Invites
    PROVE  Inv'
<1> DEFINE pc == IF kind \in Locked THEN "lock" ELSE IF kind = "broadcast" THEN "wallet" ELSE "invites"
           n == [NewRequest EXCEPT !.kind = kind, !.alias = alias, !.invite = invite, !.pc = pc]
<1>1. request' = [request EXCEPT ![r] = n] /\ UNCHANGED <<files, past, lock>>
  BY DEF Arrive
<1>2. /\ pc \in {"lock", "wallet", "invites"} /\ pc \in PC
      /\ pc = "lock" => kind \in Locked
      /\ pc \in {"wallet", "invites"} => kind \notin Locked
      /\ pc = "wallet" => kind = "broadcast"
  BY DEF PC
<1> HIDE DEF pc
<1>3. /\ n.kind = kind /\ n.alias = alias /\ n.invite = invite /\ n.pc = pc
      /\ n.wallet = EmptyWallet /\ n.file = NoInvites
  BY DEF NewRequest
<1>4. n \in Request
  BY <1>2, EmptyFiles DEF NewRequest, Request
<1> HIDE DEF n
<1>5. Inputs(n)
  BY <1>3 DEF Inputs
<1>6. RequestInv(r, n, wallet, keyFiles, log, operatorKey, lock)
  BY <1>2, <1>3, <1>5, BlankRequest
<1> QED BY <1>1, <1>4, <1>6, QuietStep DEF Inv, TypeOK

\* Every request that arrives.
LEMMA Arrivals ==
    ASSUME Inv, NEW r \in Requests,
           \/ Update(r) \/ Verify(r) \/ Rotate(r) \/ Claim(r)
           \/ Broadcast(r) \/ Send(r) \/ ListInvites(r) \/ MarkRead(r)
    PROVE  Inv'
<1>0. issued \in SUBSET Invites /\ \A i \in Invites : Recipient[i] \in Aliases
  BY RecipientAssumption DEF Inv, TypeOK
<1> USE DEF Kind, Locked
<1>1. CASE Update(r)
  BY <1>0, <1>1, ArriveStep DEF Update
<1>2. CASE Verify(r)
  BY <1>0, <1>2, ArriveStep DEF Verify
<1>3. CASE Rotate(r)
  BY <1>0, <1>3, ArriveStep DEF Rotate
<1>4. CASE Claim(r)
  BY <1>0, <1>4, ArriveStep DEF Claim
<1>5. CASE Broadcast(r)
  BY <1>0, <1>5, ArriveStep DEF Broadcast
<1>6. CASE Send(r)
  BY <1>0, <1>6, ArriveStep DEF Send
<1>7. CASE ListInvites(r)
  BY <1>0, <1>7, ArriveStep DEF ListInvites
<1>8. CASE MarkRead(r)
  BY <1>0, <1>8, ArriveStep DEF MarkRead
<1> QED BY <1>1, <1>2, <1>3, <1>4, <1>5, <1>6, <1>7, <1>8

\* Every request that ends without a write.
LEMMA Endings ==
    ASSUME Inv, NEW r \in Requests,
           \/ InvitesReject(r) \/ WalletRejects(r) \/ AlreadySigned(r) \/ StoreRejects(r) \/ CommitRejects(r)
           \/ WriteFails(r)
    PROVE  Inv'
<1>1. Done(r) /\ UNCHANGED <<files, issued, past>>
  BY DEF InvitesReject, WalletRejects, AlreadySigned, StoreRejects, CommitRejects, WriteFails
<1> QED BY <1>1, DoneStep

--------------------------------------------------------------------------------
(* Steps that change no file *)

\* What is known of the request that takes a step.
LEMMA Known ==
    ASSUME Inv, NEW r \in Requests
    PROVE  /\ request[r] \in Request /\ request \in [Requests -> Request]
           /\ RequestInv(r, request[r], wallet, keyFiles, log, operatorKey, lock)
           /\ FilesInv(wallet, keyFiles, log, operatorKey, invites)
           /\ wallet \in Wallet /\ keyFiles \in SUBSET Keys /\ operatorKey \in Operators \cup {None}
           /\ log \in Seq(Event) /\ invites \in InviteFile /\ issued \in SUBSET Invites
           /\ lock \in Requests \cup {None}
  BY DEF Inv, TypeOK

LEMMA TakeLockStep ==
    ASSUME Inv, NEW r \in Requests, TakeLock(r)
    PROVE  Inv'
<1> DEFINE q == request[r]
           pc == IF q.kind = "claim" THEN "invites" ELSE "wallet"
           n == [q EXCEPT !.pc = pc]
<1>1. /\ q \in Request /\ RequestInv(r, q, wallet, keyFiles, log, operatorKey, lock)
      /\ q.pc = "lock" /\ lock = None
  BY Known DEF TakeLock, At
<1>2. request' = [request EXCEPT ![r] = n] /\ lock' = r /\ UNCHANGED <<files, issued, past>>
  BY DEF TakeLock
<1>3. pc \in {"invites", "wallet"} /\ pc \in PC /\ (pc = "wallet" => q.kind # "claim")
  BY DEF PC
<1> HIDE DEF q, pc
<1>4. /\ n \in Request /\ n.pc = pc /\ n.kind = q.kind /\ n.alias = q.alias /\ n.invite = q.invite
      /\ n.wallet = q.wallet /\ n.file = q.file
  BY <1>1, <1>3 DEF Request
<1> HIDE DEF n
<1>5. Inputs(n) /\ RouteInv(r, n, r)
  BY <1>1, <1>3, <1>4 DEF RequestInv, Inputs, RouteInv, WalletSteps, Publishing
<1>6. ClaimInv(n, log)
  BY <1>1, <1>3, <1>4 DEF RequestInv, ClaimInv, WalletSteps, Publishing
<1>7. KeyInv(n, wallet, keyFiles, log) /\ OperatorInv(n, log, operatorKey)
  BY <1>1, <1>3, <1>4 DEF RequestInv, KeyInv, OperatorInv, Publishing
<1>8. RequestInv(r, n, wallet, keyFiles, log, operatorKey, lock')
  BY <1>2, <1>5, <1>6, <1>7 DEF RequestInv
<1> QED BY <1>1, <1>2, <1>4, <1>8, Known, QuietStep

\* The file the request goes on with.
LEMMA OpenedStep ==
    ASSUME Inv, NEW r \in Requests, NEW F \in InviteFile, NEW pc \in {"wallet", "saveInvites"},
           Opened(r, F, pc), request[r].pc = "invites", FileInv(F, log),
           request[r].kind = "claim" => pc = "wallet" /\ F[request[r].invite].status = "Created",
           pc = "wallet" => request[r].kind = "claim"
    PROVE  Inv'
<1> DEFINE q == request[r]
           n == [q EXCEPT !.pc = pc, !.file = F]
<1>1. q \in Request /\ RequestInv(r, q, wallet, keyFiles, log, operatorKey, lock) /\ q.pc = "invites"
  BY Known
<1>2. request' = [request EXCEPT ![r] = n] /\ UNCHANGED <<files, issued, past, lock>>
  BY DEF Opened
<1>3. q.kind = "claim" => pc = "wallet" /\ F[q.invite].status = "Created"
  OBVIOUS
<1>4. pc = "wallet" => q.kind = "claim"
  OBVIOUS
<1> HIDE DEF q
<1>5. /\ n \in Request /\ n.pc = pc /\ n.kind = q.kind /\ n.alias = q.alias /\ n.invite = q.invite
      /\ n.wallet = q.wallet /\ n.file = F
  BY <1>1 DEF Request, PC
<1> HIDE DEF n
<1>6. Inputs(n) /\ RouteInv(r, n, lock)
  BY <1>1, <1>5, <1>4 DEF RequestInv, Inputs, RouteInv, WalletSteps, Publishing, Locked
<1>7. ClaimInv(n, log)
  BY <1>3, <1>5 DEF ClaimInv, WalletSteps, Publishing
<1>8. KeyInv(n, wallet, keyFiles, log) /\ OperatorInv(n, log, operatorKey)
  BY <1>1, <1>5 DEF RequestInv, KeyInv, OperatorInv, Publishing
<1>9. RequestInv(r, n, wallet, keyFiles, log, operatorKey, lock)
  BY <1>6, <1>7, <1>8 DEF RequestInv
<1> QED BY <1>2, <1>5, <1>9, Known, QuietStep

\* What a handler makes of the invites is as well formed as what it read.
LEMMA InviteEdits ==
    ASSUME NEW F \in InviteFile, NEW lg, FileInv(F, lg)
    PROVE  /\ \A i \in Invites : WithInvite(F, i) \in InviteFile /\ FileInv(WithInvite(F, i), lg)
           /\ \A i \in Invites \cup {None} : WithRead(F, i) \in InviteFile /\ FileInv(WithRead(F, i), lg)
           /\ Expiring(F) \in InviteFile /\ FileInv(Expiring(F), lg)
<1>0. \A i \in Invites : /\ F[i] \in Invite
                         /\ [F[i] EXCEPT !.status = "Expired"] = [status |-> "Expired", notice |-> F[i].notice]
                         /\ [F[i] EXCEPT !.notice = "read"] = [status |-> F[i].status, notice |-> "read"]
  BY DEF InviteFile, Invite
<1>1. ASSUME NEW i \in Invites PROVE WithInvite(F, i) \in InviteFile /\ FileInv(WithInvite(F, i), lg)
  BY DEF WithInvite, InviteFile, Invite, FileInv
<1>2. ASSUME NEW i \in Invites \cup {None} PROVE WithRead(F, i) \in InviteFile /\ FileInv(WithRead(F, i), lg)
  BY <1>0 DEF WithRead, InviteFile, Invite, FileInv
<1>3. Expiring(F) \in InviteFile /\ FileInv(Expiring(F), lg)
  BY <1>0 DEF Expiring, InviteFile, Invite, FileInv
<1> QED BY <1>1, <1>2, <1>3

LEMMA OpenInvitesStep ==
    ASSUME Inv, NEW r \in Requests, OpenInvites(r)
    PROVE  Inv'
<1> DEFINE i == request[r].invite
           kind == request[r].kind
<1>1. /\ request[r].pc = "invites" /\ i \in Invites \cup {None} /\ (kind \in {"claim", "send"} => i \in Invites)
      /\ invites \in InviteFile /\ FileInv(invites, log)
  BY Known DEF OpenInvites, At, Request, RequestInv, Inputs, FilesInv
<1>2. \/ kind = "claim" /\ Claimable(i) /\ Opened(r, invites, "wallet")
      \/ kind = "send" /\ Opened(r, WithInvite(invites, i), "saveInvites")
      \/ kind = "list" /\ Opened(r, Expiring(invites), "saveInvites")
      \/ kind = "read" /\ Opened(r, WithRead(invites, i), "saveInvites")
  BY DEF OpenInvites
<1>3. CASE kind = "claim" /\ Claimable(i) /\ Opened(r, invites, "wallet")
  BY <1>1, <1>3, OpenedStep DEF Claimable
<1>4. CASE kind = "send" /\ Opened(r, WithInvite(invites, i), "saveInvites")
  BY <1>1, <1>4, OpenedStep, InviteEdits
<1>5. CASE kind = "list" /\ Opened(r, Expiring(invites), "saveInvites")
  BY <1>1, <1>5, OpenedStep, InviteEdits
<1>6. CASE kind = "read" /\ Opened(r, WithRead(invites, i), "saveInvites")
  BY <1>1, <1>6, OpenedStep, InviteEdits
<1> QED BY <1>2, <1>3, <1>4, <1>5, <1>6

LEMMA LoadWalletStep ==
    ASSUME Inv, NEW r \in Requests, LoadWallet(r)
    PROVE  Inv'
<1> DEFINE q == request[r]
           pc == IF q.kind \in Locked /\ wallet.key = None THEN "newKey" ELSE "open"
           n == [q EXCEPT !.wallet = wallet, !.pc = pc]
<1>1. q \in Request /\ RequestInv(r, q, wallet, keyFiles, log, operatorKey, lock) /\ q.pc = "wallet"
  BY Known DEF LoadWallet, At
<1>2. request' = [request EXCEPT ![r] = n] /\ UNCHANGED <<files, issued, past, lock>>
  BY DEF LoadWallet
<1>3. /\ pc \in {"newKey", "open"}
      /\ pc = "newKey" => q.kind \in Locked /\ wallet.key = None
      /\ pc = "open" /\ q.kind \in Locked => wallet.key # None
  OBVIOUS
<1>4. wallet \in Wallet /\ FilesInv(wallet, keyFiles, log, operatorKey, invites)
  BY Known
<1> HIDE DEF q, pc
<1>5. /\ n \in Request /\ n.pc = pc /\ n.kind = q.kind /\ n.alias = q.alias /\ n.invite = q.invite
      /\ n.wallet = wallet /\ n.file = q.file
  BY <1>1, <1>3, <1>4 DEF Request, PC
<1> HIDE DEF n
<1>6. Inputs(n) /\ RouteInv(r, n, lock)
  BY <1>1, <1>3, <1>5 DEF RequestInv, Inputs, RouteInv, WalletSteps, Publishing
<1>7. ClaimInv(n, log)
  BY <1>1, <1>3, <1>5 DEF RequestInv, ClaimInv, WalletSteps, Publishing
<1>8. KeyInv(n, wallet, keyFiles, log)
  BY <1>3, <1>4, <1>5 DEF KeyInv, Publishing, Current, FilesInv
<1>9. OperatorInv(n, log, operatorKey)
  BY <1>3, <1>4, <1>5 DEF OperatorInv, Publishing, FilesInv
<1>10. RequestInv(r, n, wallet, keyFiles, log, operatorKey, lock)
  BY <1>6, <1>7, <1>8, <1>9 DEF RequestInv
<1> QED BY <1>2, <1>5, <1>10, Known, QuietStep

\* An edit keeps the key; a claim takes the alias of its invite, a broadcast the wallet as it is.
LEMMA EditedFacts ==
    ASSUME NEW r \in Requests, request[r] \in Request, Inputs(request[r]), NEW w \in Edited(r)
    PROVE  /\ w \in Wallet /\ w.key = request[r].wallet.key
           /\ request[r].kind = "claim" => w.alias = request[r].alias
           /\ request[r].kind \in {"rotate", "broadcast"} => w = request[r].wallet
<1> DEFINE q == request[r]
<1>1. /\ q.wallet \in Wallet /\ q.alias \in Aliases \cup {None}
      /\ q.kind \in {"update", "verify", "claim", "rotate", "broadcast", "send", "list", "read"}
  BY DEF Request, Kind, Locked
<1>2. CASE q.kind = "update"
  <2>1. PICK m \in BOOLEAN : w = [q.wallet EXCEPT !.methods = m]
    BY <1>2 DEF Edited
  <2> QED BY <1>1, <1>2, <2>1 DEF Wallet
<1>3. CASE q.kind = "verify"
  <2>1. w = [q.wallet EXCEPT !.alias = q.alias]
    BY <1>3 DEF Edited
  <2> QED BY <1>1, <1>3, <2>1 DEF Wallet
<1>4. CASE q.kind = "claim"
  <2>1. w = [q.wallet EXCEPT !.alias = q.alias, !.methods = TRUE]
    BY <1>4 DEF Edited
  <2> QED BY <1>1, <1>4, <2>1 DEF Wallet
<1>5. CASE q.kind \notin {"update", "verify", "claim"}
  <2>1. w = q.wallet
    BY <1>5 DEF Edited
  <2> QED BY <1>1, <1>5, <2>1
<1> QED BY <1>2, <1>3, <1>4, <1>5

LEMMA OpenStoreStep ==
    ASSUME Inv, NEW r \in Requests, OpenStore(r)
    PROVE  Inv'
<1> PICK w \in Edited(r) :
        /\ Publishable(r, w)
        /\ request' = [request EXCEPT ![r].pc = "operator", ![r].wallet = w, ![r].key = w.key,
                                      ![r].seen = Len(log)]
  BY DEF OpenStore
<1> DEFINE q == request[r]
           n == [q EXCEPT !.pc = "operator", !.wallet = w, !.key = w.key, !.seen = Len(log)]
<1>1. /\ q \in Request /\ RequestInv(r, q, wallet, keyFiles, log, operatorKey, lock) /\ q.pc = "open"
      /\ keyFiles \in SUBSET Keys /\ log \in Seq(Event)
  BY Known DEF OpenStore, At
<1>2. request' = [request EXCEPT ![r] = n] /\ UNCHANGED <<files, issued, past, lock>>
  BY DEF OpenStore
<1>3. /\ w \in Wallet /\ w.key = q.wallet.key
      /\ q.kind = "claim" => w.alias = q.alias
      /\ q.kind \in {"rotate", "broadcast"} => w = q.wallet
  BY <1>1, EditedFacts DEF RequestInv
<1>4. /\ w.alias # None /\ w.key \in keyFiles /\ w.key # None
      /\ q.kind = "rotate" => Owner(w.alias) = w.key
      /\ q.kind # "rotate" => w.methods
  BY <1>1, NoneAssumption DEF Publishable
<1>5. q.kind = "rotate" => log # <<>>
  <2>1. log = <<>> => Owner(w.alias) = None
    BY DEF Owner
  <2> QED BY <1>4, <2>1
<1>6. q.kind = "broadcast" => log # <<>>
  BY <1>1, <1>3, <1>4 DEF RequestInv, OperatorInv, Announced
<1>0. w.key \in Keys /\ Len(log) \in Nat /\ "operator" \in PC
  BY <1>1, <1>4, LenProperties DEF PC
<1> HIDE DEF q
<1>7. /\ n \in Request /\ n.pc = "operator" /\ n.kind = q.kind /\ n.alias = q.alias /\ n.invite = q.invite
      /\ n.wallet = w /\ n.file = q.file /\ n.key = w.key
  BY <1>0, <1>1, <1>3 DEF Request
<1> HIDE DEF n
<1>8. Inputs(n) /\ RouteInv(r, n, lock)
  BY <1>1, <1>7 DEF RequestInv, Inputs, RouteInv, WalletSteps, Publishing
<1>9. ClaimInv(n, log)
  BY <1>1, <1>3, <1>7 DEF RequestInv, ClaimInv, WalletSteps, Publishing
<1>10. KeyInv(n, wallet, keyFiles, log)
  BY <1>1, <1>3, <1>4, <1>5, <1>7 DEF RequestInv, KeyInv, Publishing
<1>11. OperatorInv(n, log, operatorKey)
  BY <1>6, <1>7 DEF OperatorInv, Publishing
<1>12. RequestInv(r, n, wallet, keyFiles, log, operatorKey, lock)
  BY <1>8, <1>9, <1>10, <1>11 DEF RequestInv
<1> QED BY <1>2, <1>7, <1>12, Known, QuietStep

LEMMA SkipStoreStep ==
    ASSUME Inv, NEW r \in Requests, SkipStore(r)
    PROVE  Inv'
<1> PICK w \in Edited(r) :
        SavesOnly(r, w) /\ request' = [request EXCEPT ![r].pc = "saveWallet", ![r].wallet = w]
  BY DEF SkipStore
<1> DEFINE q == request[r]
           n == [q EXCEPT !.pc = "saveWallet", !.wallet = w]
<1>1. /\ q \in Request /\ RequestInv(r, q, wallet, keyFiles, log, operatorKey, lock) /\ q.pc = "open"
      /\ q.kind = "verify" /\ ~w.methods
  BY Known DEF SkipStore, At, SavesOnly
<1>2. request' = [request EXCEPT ![r] = n] /\ UNCHANGED <<files, issued, past, lock>>
  BY DEF SkipStore
<1>3. w \in Wallet /\ w.key = q.wallet.key
  BY <1>1, EditedFacts DEF RequestInv
<1> HIDE DEF q
<1>4. /\ n \in Request /\ n.pc = "saveWallet" /\ n.kind = q.kind /\ n.alias = q.alias /\ n.invite = q.invite
      /\ n.wallet = w /\ n.file = q.file
  BY <1>1, <1>3 DEF Request, PC
<1> HIDE DEF n
<1>5. Inputs(n) /\ RouteInv(r, n, lock)
  BY <1>1, <1>4 DEF RequestInv, Inputs, RouteInv, WalletSteps, Publishing
<1>6. ClaimInv(n, log)
  BY <1>1, <1>4 DEF RequestInv, ClaimInv
<1>7. KeyInv(n, wallet, keyFiles, log)
  BY <1>1, <1>3, <1>4 DEF RequestInv, KeyInv, Publishing, Locked
<1>8. OperatorInv(n, log, operatorKey)
  BY <1>1, <1>4 DEF OperatorInv, Publishing, Announced
<1>9. RequestInv(r, n, wallet, keyFiles, log, operatorKey, lock)
  BY <1>5, <1>6, <1>7, <1>8 DEF RequestInv
<1> QED BY <1>2, <1>4, <1>9, Known, QuietStep

LEMMA LoadOperatorStep ==
    ASSUME Inv, NEW r \in Requests, LoadOperator(r)
    PROVE  Inv'
<1> DEFINE q == request[r]
           n == [q EXCEPT !.operator = operatorKey, !.pc = AfterOperator(r)]
<1>1. /\ q \in Request /\ RequestInv(r, q, wallet, keyFiles, log, operatorKey, lock) /\ q.pc = "operator"
      /\ operatorKey \in Operators /\ operatorKey # None
  BY Known DEF LoadOperator, At
<1>2. request' = [request EXCEPT ![r] = n] /\ UNCHANGED <<files, issued, past, lock>>
  BY DEF LoadOperator
<1>3. AfterOperator(r) \in {"rotationKey", "commit"} /\ (AfterOperator(r) = "rotationKey" => q.kind = "rotate")
  BY DEF AfterOperator
<1> HIDE DEF q
<1>4. /\ n \in Request /\ n.pc = AfterOperator(r) /\ n.kind = q.kind /\ n.alias = q.alias
      /\ n.invite = q.invite /\ n.wallet = q.wallet /\ n.file = q.file /\ n.key = q.key
      /\ n.operator = operatorKey
  BY <1>1, <1>3 DEF Request, PC
<1> HIDE DEF n
<1>5. Inputs(n) /\ RouteInv(r, n, lock)
  BY <1>1, <1>3, <1>4 DEF RequestInv, Inputs, RouteInv, WalletSteps, Publishing
<1>6. ClaimInv(n, log)
  BY <1>1, <1>3, <1>4 DEF RequestInv, ClaimInv, WalletSteps, Publishing
<1>7. KeyInv(n, wallet, keyFiles, log)
  BY <1>1, <1>3, <1>4 DEF RequestInv, KeyInv, Publishing
<1>8. OperatorInv(n, log, operatorKey)
  BY <1>1, <1>3, <1>4 DEF RequestInv, OperatorInv, Publishing
<1>9. RequestInv(r, n, wallet, keyFiles, log, operatorKey, lock)
  BY <1>5, <1>6, <1>7, <1>8 DEF RequestInv
<1> QED BY <1>2, <1>4, <1>9, Known, QuietStep

\* Without an operator key there is no event yet, so the request is not a broadcast.
LEMMA GenerateOperatorStep ==
    ASSUME Inv, NEW r \in Requests, GenerateOperator(r)
    PROVE  Inv'
<1> PICK o \in Operators : request' = [request EXCEPT ![r].operator = o, ![r].pc = "newOperator"]
  BY DEF GenerateOperator
<1> DEFINE q == request[r]
           n == [q EXCEPT !.operator = o, !.pc = "newOperator"]
<1>1. /\ q \in Request /\ RequestInv(r, q, wallet, keyFiles, log, operatorKey, lock) /\ q.pc = "operator"
      /\ operatorKey = None /\ log \in Seq(Event)
      /\ FilesInv(wallet, keyFiles, log, operatorKey, invites)
  BY Known DEF GenerateOperator, At
<1>2. request' = [request EXCEPT ![r] = n] /\ UNCHANGED <<files, issued, past, lock>>
  BY DEF GenerateOperator
<1>3. log = <<>>
  <2>1. ASSUME log # <<>> PROVE 1 \in DOMAIN log /\ log[1].operator \in Operators
    <3>1. 1 \in 1 .. Len(log) /\ log[1] \in Event
      BY <1>1, <2>1, EmptySeq, LenProperties, ElementOfSeq
    <3> QED BY <1>1, <3>1, LenProperties DEF Event
  <2> QED BY <1>1, <2>1, NoneAssumption DEF FilesInv
<1> HIDE DEF q
<1>4. /\ n \in Request /\ n.pc = "newOperator" /\ n.kind = q.kind /\ n.alias = q.alias
      /\ n.invite = q.invite /\ n.wallet = q.wallet /\ n.file = q.file /\ n.key = q.key
      /\ n.operator = o
  BY <1>1 DEF Request, PC
<1> HIDE DEF n
<1>5. Inputs(n) /\ RouteInv(r, n, lock)
  BY <1>1, <1>4 DEF RequestInv, Inputs, RouteInv, WalletSteps, Publishing
<1>6. ClaimInv(n, log)
  BY <1>1, <1>4 DEF RequestInv, ClaimInv, WalletSteps, Publishing
<1>7. KeyInv(n, wallet, keyFiles, log)
  BY <1>1, <1>4 DEF RequestInv, KeyInv, Publishing
<1>8. OperatorInv(n, log, operatorKey)
  BY <1>1, <1>3, <1>4 DEF RequestInv, RouteInv, OperatorInv, Publishing, WalletSteps
<1>9. RequestInv(r, n, wallet, keyFiles, log, operatorKey, lock)
  BY <1>5, <1>6, <1>7, <1>8 DEF RequestInv
<1> QED BY <1>2, <1>4, <1>9, Known, QuietStep

--------------------------------------------------------------------------------
(* Steps that write a file *)

\* Only keys are published: a published log has a wallet with a key.
LEMMA SettledKey ==
    ASSUME NEW lg \in Seq(Event), NEW k, Settled(k, lg)
    PROVE  k \in Keys /\ k # None
<1>1. PICK i \in DOMAIN lg : lg[i].key = k
  BY DEF Settled
<1>2. lg[i] \in Event
  BY <1>1, ElementOfSeq, LenProperties
<1> QED BY <1>1, <1>2, NoneAssumption DEF Event

\* The invites are saved as they were opened, or with the claim.
LEMMA SaveInvitesStep ==
    ASSUME Inv, NEW r \in Requests, SaveInvites(r)
    PROVE  Inv'
<1> DEFINE q == request[r]
           n == [NewRequest EXCEPT !.pc = "done"]
<1>1. /\ q \in Request /\ RequestInv(r, q, wallet, keyFiles, log, operatorKey, lock) /\ q.pc = "saveInvites"
      /\ FilesInv(wallet, keyFiles, log, operatorKey, invites)
  BY Known DEF SaveInvites, At
<1>2. /\ request' = [request EXCEPT ![r] = n] /\ lock' \in {lock, None} /\ (lock' = lock \/ lock = r)
      /\ UNCHANGED <<wallet, keyFiles, operatorKey, log, issued, past>>
  BY DEF SaveInvites, Done
<1>3. n \in Request /\ RequestInv(r, n, wallet', keyFiles', log', operatorKey', lock')
  BY Answered
<1>4. q.file \in InviteFile /\ FileInv(q.file, log)
  BY <1>1 DEF Request, RequestInv, ClaimInv
<1>5. invites' \in InviteFile /\ FileInv(invites', log)
  <2>1. CASE q.kind # "claim"
    BY <1>4, <2>1 DEF SaveInvites
  <2>2. CASE q.kind = "claim"
    <3>1. /\ invites' = WithClaim(q.file, q.invite) /\ q.invite \in Invites
          /\ q.file[q.invite].status = "Created" /\ Published(Recipient[q.invite], log)
      BY <1>1, <2>2 DEF SaveInvites, RequestInv, Inputs, ClaimInv
    <3> DEFINE F == q.file
               i == q.invite
               v == IF i \in past THEN [F[i] EXCEPT !.status = "Expired"]
                    ELSE [status |-> "Claimed", notice |-> "unread"]
    <3>2. F[i] \in Invite /\ F[i].notice = "none"
      BY <1>4, <3>1 DEF InviteFile, Invite, FileInv
    <3>3. v \in Invite /\ (v.status = "Claimed" <=> v.notice # "none")
      BY <3>2 DEF Invite
    <3>4. invites' = [F EXCEPT ![i] = v]
      BY <3>1 DEF WithClaim
    <3> HIDE DEF F, i, v
    <3> QED BY <1>4, <3>1, <3>3, <3>4 DEF InviteFile, FileInv, F, i
  <2> QED BY <2>1, <2>2
<1>6. Interferes(r)
  BY <1>2 DEF Interferes
<1>7. FilesInv(wallet', keyFiles', log', operatorKey', invites')
  BY <1>1, <1>2, <1>5 DEF FilesInv
<1> HIDE DEF n
<1> QED BY <1>2, <1>3, <1>5, <1>6, <1>7, Known, OneRequest

LEMMA CreateKeyStep ==
    ASSUME Inv, NEW r \in Requests, CreateKey(r)
    PROVE  Inv'
<1> PICK k \in Fresh :
        /\ keyFiles' = keyFiles \cup {k}
        /\ request' = [request EXCEPT ![r].pc = "newWallet", ![r].wallet.key = k]
  BY DEF CreateKey
<1> DEFINE q == request[r]
           n == [q EXCEPT !.pc = "newWallet", !.wallet.key = k]
<1>1. /\ q \in Request /\ RequestInv(r, q, wallet, keyFiles, log, operatorKey, lock) /\ q.pc = "newKey"
      /\ FilesInv(wallet, keyFiles, log, operatorKey, invites) /\ k \in Keys /\ k # None
      /\ UNCHANGED <<wallet, operatorKey, log, invites, issued, past, lock>>
  BY Known, NoneAssumption DEF CreateKey, At, Fresh
<1>2. request' = [request EXCEPT ![r] = n]
  OBVIOUS
<1> HIDE DEF q
<1>3. /\ n \in Request /\ n.pc = "newWallet" /\ n.kind = q.kind /\ n.alias = q.alias /\ n.invite = q.invite
      /\ n.wallet.key = k /\ n.wallet.alias = q.wallet.alias /\ n.wallet.methods = q.wallet.methods
      /\ n.file = q.file
  BY <1>1 DEF Request, PC, Wallet
<1> HIDE DEF n
<1>4. Inputs(n) /\ RouteInv(r, n, lock)
  BY <1>1, <1>3 DEF RequestInv, Inputs, RouteInv, WalletSteps, Publishing
<1>5. ClaimInv(n, log)
  BY <1>1, <1>3 DEF RequestInv, ClaimInv, WalletSteps, Publishing
<1>6. KeyInv(n, wallet, keyFiles', log)
  BY <1>1, <1>3 DEF RequestInv, KeyInv, Publishing
<1>7. OperatorInv(n, log, operatorKey)
  BY <1>1, <1>3 DEF RequestInv, OperatorInv, Publishing, Announced
<1>8. RequestInv(r, n, wallet', keyFiles', log', operatorKey', lock')
  BY <1>1, <1>4, <1>5, <1>6, <1>7 DEF RequestInv
<1>9. Interferes(r) /\ FilesInv(wallet', keyFiles', log', operatorKey', invites')
  BY <1>1 DEF Interferes, FilesInv
<1> QED BY <1>1, <1>2, <1>3, <1>8, <1>9, Known, OneRequest

\* The first wallet: nothing is published yet and the lock keeps the others away.
LEMMA CreateWalletStep ==
    ASSUME Inv, NEW r \in Requests, CreateWallet(r)
    PROVE  Inv'
<1> DEFINE q == request[r]
           n == [q EXCEPT !.pc = "open"]
<1>1. /\ q \in Request /\ RequestInv(r, q, wallet, keyFiles, log, operatorKey, lock) /\ q.pc = "newWallet"
      /\ FilesInv(wallet, keyFiles, log, operatorKey, invites) /\ log \in Seq(Event)
      /\ UNCHANGED <<keyFiles, operatorKey, log, invites, issued, past, lock>> /\ wallet' = q.wallet
  BY Known DEF CreateWallet, At, Goto
<1>2. request' = [request EXCEPT ![r] = n]
  BY DEF CreateWallet, Goto
<1>3. wallet.key = None /\ q.wallet.key # None /\ q.kind \in Locked /\ lock = r
  BY <1>1 DEF RequestInv, KeyInv, RouteInv
<1>4. log = <<>>
  BY <1>1, <1>3, SettledKey DEF FilesInv
<1> HIDE DEF q
<1>5. /\ n \in Request /\ n.pc = "open" /\ n.kind = q.kind /\ n.alias = q.alias /\ n.invite = q.invite
      /\ n.wallet = q.wallet /\ n.file = q.file
  BY <1>1 DEF Request, PC
<1> HIDE DEF n
<1>6. Inputs(n) /\ RouteInv(r, n, lock)
  BY <1>1, <1>5 DEF RequestInv, Inputs, RouteInv, WalletSteps, Publishing
<1>7. ClaimInv(n, log)
  BY <1>1, <1>5 DEF RequestInv, ClaimInv, WalletSteps, Publishing
<1>8. KeyInv(n, wallet', keyFiles, log)
  BY <1>1, <1>3, <1>4, <1>5 DEF RequestInv, KeyInv, Publishing, Current
<1>9. OperatorInv(n, log, operatorKey)
  BY <1>1, <1>5 DEF RequestInv, OperatorInv, Publishing
<1>10. RequestInv(r, n, wallet', keyFiles', log', operatorKey', lock')
  BY <1>1, <1>6, <1>7, <1>8, <1>9 DEF RequestInv
<1>11. Interferes(r) /\ FilesInv(wallet', keyFiles', log', operatorKey', invites')
  BY <1>1, <1>3, <1>4 DEF Interferes, FilesInv, RequestInv, KeyInv, OperatorInv
<1>12. wallet' \in Wallet
  BY <1>1 DEF Request
<1> QED BY <1>1, <1>2, <1>5, <1>10, <1>11, <1>12, Known, OneRequest

\* A copy of the wallet is saved under the lock, or by a broadcast after the first commit.
LEMMA SaveWalletStep ==
    ASSUME Inv, NEW r \in Requests, SaveWallet(r)
    PROVE  Inv'
<1> DEFINE q == request[r]
           m == [q EXCEPT !.pc = "saveInvites"]
           n == [NewRequest EXCEPT !.pc = "done"]
<1>1. /\ q \in Request /\ RequestInv(r, q, wallet, keyFiles, log, operatorKey, lock) /\ q.pc = "saveWallet"
      /\ FilesInv(wallet, keyFiles, log, operatorKey, invites) /\ log \in Seq(Event)
      /\ UNCHANGED <<keyFiles, operatorKey, log, invites, issued, past>> /\ wallet' = q.wallet
  BY Known DEF SaveWallet, At
<1>2. /\ q.kind = "claim" => request' = [request EXCEPT ![r] = m] /\ lock' = lock
      /\ q.kind # "claim" => /\ request' = [request EXCEPT ![r] = n] /\ lock' \in {lock, None}
                             /\ lock' = lock \/ lock = r
  BY DEF SaveWallet, Goto, Done
<1>3. /\ n \in Request /\ RequestInv(r, n, wallet', keyFiles', log', operatorKey', lock')
  BY Answered
<1>4. q.wallet.key # None /\ Current(q.wallet.key, wallet, log) /\ Announced(q.wallet, log)
  BY <1>1 DEF RequestInv, KeyInv, OperatorInv
<1>5. lock = r \/ wallet.key # None
  <2>1. CASE q.kind \in Locked
    BY <1>1, <2>1 DEF RequestInv, RouteInv
  <2>2. CASE q.kind = "broadcast"
    BY <1>1, <2>2, SettledKey DEF RequestInv, OperatorInv, FilesInv
  <2> QED BY <1>1, <2>1, <2>2 DEF RequestInv, RouteInv, WalletSteps
<1>6. Interferes(r)
  BY <1>1, <1>2, <1>4, <1>5 DEF Interferes, Current
<1>7. FilesInv(wallet', keyFiles', log', operatorKey', invites')
  BY <1>1, <1>4 DEF FilesInv, RequestInv, KeyInv, Current
<1>8. wallet' \in Wallet
  BY <1>1 DEF Request
<1> HIDE DEF q, n
<1>9. CASE q.kind # "claim"
  BY <1>1, <1>2, <1>3, <1>6, <1>7, <1>8, <1>9, Known, OneRequest
<1>10. CASE q.kind = "claim"
  <2>1. /\ m \in Request /\ m.pc = "saveInvites" /\ m.kind = q.kind /\ m.alias = q.alias
        /\ m.invite = q.invite /\ m.wallet = q.wallet /\ m.file = q.file
    BY <1>1 DEF Request, PC
  <2> HIDE DEF m
  <2>2. Inputs(m) /\ RouteInv(r, m, lock)
    BY <1>1, <2>1 DEF RequestInv, Inputs, RouteInv, WalletSteps, Publishing
  <2>3. ClaimInv(m, log)
    BY <1>1, <2>1 DEF RequestInv, ClaimInv, WalletSteps, Publishing
  <2>4. KeyInv(m, wallet', keyFiles, log)
    BY <1>1, <1>4, <2>1 DEF RequestInv, KeyInv, Publishing, Current
  <2>5. OperatorInv(m, log, operatorKey)
    BY <2>1 DEF OperatorInv, Publishing
  <2>6. RequestInv(r, m, wallet', keyFiles', log', operatorKey', lock')
    BY <1>1, <1>2, <1>10, <2>2, <2>3, <2>4, <2>5 DEF RequestInv
  <2> QED BY <1>1, <1>2, <1>6, <1>7, <1>8, <1>10, <2>1, <2>6, Known, OneRequest
<1> QED BY <1>9, <1>10

\* operator.key is created under the lock and before the first commit.
LEMMA SaveOperatorStep ==
    ASSUME Inv, NEW r \in Requests, SaveOperator(r)
    PROVE  Inv'
<1> DEFINE q == request[r]
           n == [q EXCEPT !.pc = AfterOperator(r)]
<1>1. /\ q \in Request /\ RequestInv(r, q, wallet, keyFiles, log, operatorKey, lock) /\ q.pc = "newOperator"
      /\ FilesInv(wallet, keyFiles, log, operatorKey, invites)
      /\ UNCHANGED <<wallet, keyFiles, log, invites, issued, past, lock>> /\ operatorKey' = q.operator
  BY Known DEF SaveOperator, At, Goto
<1>2. request' = [request EXCEPT ![r] = n]
  BY DEF SaveOperator, Goto
<1>3. AfterOperator(r) \in {"rotationKey", "commit"} /\ (AfterOperator(r) = "rotationKey" => q.kind = "rotate")
  BY DEF AfterOperator
<1>4. /\ q.kind \in Locked /\ lock = r /\ log = <<>> /\ operatorKey = None
      /\ q.operator \in Operators /\ q.operator # None
  BY <1>1, NoneAssumption DEF RequestInv, OperatorInv, RouteInv
<1> HIDE DEF q
<1>5. /\ n \in Request /\ n.pc = AfterOperator(r) /\ n.kind = q.kind /\ n.alias = q.alias
      /\ n.invite = q.invite /\ n.wallet = q.wallet /\ n.file = q.file /\ n.key = q.key
      /\ n.operator = q.operator
  BY <1>1, <1>3 DEF Request, PC
<1> HIDE DEF n
<1>6. Inputs(n) /\ RouteInv(r, n, lock)
  BY <1>1, <1>3, <1>5 DEF RequestInv, Inputs, RouteInv, WalletSteps, Publishing
<1>7. ClaimInv(n, log)
  BY <1>1, <1>3, <1>5 DEF RequestInv, ClaimInv, WalletSteps, Publishing
<1>8. KeyInv(n, wallet, keyFiles, log)
  BY <1>1, <1>3, <1>5 DEF RequestInv, KeyInv, Publishing
<1>9. OperatorInv(n, log, operatorKey')
  BY <1>1, <1>3, <1>4, <1>5 DEF RequestInv, OperatorInv, Publishing, Locked
<1>10. RequestInv(r, n, wallet', keyFiles', log', operatorKey', lock')
  BY <1>1, <1>6, <1>7, <1>8, <1>9 DEF RequestInv
<1>11. Interferes(r) /\ FilesInv(wallet', keyFiles', log', operatorKey', invites')
  BY <1>1, <1>4 DEF Interferes, FilesInv
<1> QED BY <1>1, <1>2, <1>4, <1>5, <1>10, <1>11, Known, OneRequest

\* The secret of the rotated key is on disk before the key is committed.
LEMMA SaveRotationKeyStep ==
    ASSUME Inv, NEW r \in Requests, SaveRotationKey(r)
    PROVE  Inv'
<1> PICK k \in Fresh :
        /\ keyFiles' = keyFiles \cup {k}
        /\ request' = [request EXCEPT ![r].key = k, ![r].pc = "commit"]
  BY DEF SaveRotationKey
<1> DEFINE q == request[r]
           n == [q EXCEPT !.key = k, !.pc = "commit"]
<1>1. /\ q \in Request /\ RequestInv(r, q, wallet, keyFiles, log, operatorKey, lock) /\ q.pc = "rotationKey"
      /\ FilesInv(wallet, keyFiles, log, operatorKey, invites) /\ k \in Keys
      /\ UNCHANGED <<wallet, operatorKey, log, invites, issued, past, lock>>
  BY Known DEF SaveRotationKey, At, Fresh
<1>2. request' = [request EXCEPT ![r] = n]
  OBVIOUS
<1> HIDE DEF q
<1>3. /\ n \in Request /\ n.pc = "commit" /\ n.kind = q.kind /\ n.alias = q.alias /\ n.invite = q.invite
      /\ n.wallet = q.wallet /\ n.file = q.file /\ n.key = k /\ n.operator = q.operator
  BY <1>1 DEF Request, PC
<1> HIDE DEF n
<1>4. Inputs(n) /\ RouteInv(r, n, lock)
  BY <1>1, <1>3 DEF RequestInv, Inputs, RouteInv, WalletSteps, Publishing
<1>5. ClaimInv(n, log)
  BY <1>1, <1>3 DEF RequestInv, ClaimInv, WalletSteps, Publishing
<1>6. KeyInv(n, wallet, keyFiles', log)
  BY <1>1, <1>3 DEF RequestInv, RouteInv, KeyInv, Publishing
<1>7. OperatorInv(n, log, operatorKey)
  BY <1>1, <1>3 DEF RequestInv, OperatorInv, Publishing
<1>8. RequestInv(r, n, wallet', keyFiles', log', operatorKey', lock')
  BY <1>1, <1>4, <1>5, <1>6, <1>7 DEF RequestInv
<1>9. Interferes(r) /\ FilesInv(wallet', keyFiles', log', operatorKey', invites')
  BY <1>1 DEF Interferes, FilesInv
<1> QED BY <1>1, <1>2, <1>3, <1>8, <1>9, Known, OneRequest

\* The commit: the event is signed with the operator key on disk, for a key whose secret is
\* on disk, and the first one is for the wallet's key.
LEMMA CommitStep ==
    ASSUME Inv, NEW r \in Requests, Commit(r)
    PROVE  Inv'
<1> DEFINE q == request[r]
           e == [alias |-> q.wallet.alias, key |-> q.key, operator |-> q.operator]
           n == [q EXCEPT !.wallet.key = q.key, !.pc = "saveWallet"]
<1>1. /\ q \in Request /\ RequestInv(r, q, wallet, keyFiles, log, operatorKey, lock) /\ q.pc = "commit"
      /\ FilesInv(wallet, keyFiles, log, operatorKey, invites)
      /\ keyFiles \in SUBSET Keys /\ log \in Seq(Event) /\ operatorKey \in Operators \cup {None}
      /\ UNCHANGED <<wallet, keyFiles, operatorKey, invites, issued, past, lock>>
      /\ log' = Append(log, e)
  BY Known DEF Commit, At
<1>2. request' = [request EXCEPT ![r] = n]
  BY DEF Commit
<1> HIDE DEF q
<1>3. /\ q.key \in keyFiles /\ q.key \in Keys /\ q.key # None /\ q.wallet.key # None
      /\ q.wallet.alias \in Aliases /\ operatorKey # None /\ q.operator = operatorKey
  BY <1>1, NoneAssumption DEF RequestInv, KeyInv, OperatorInv, Publishing, Request, Wallet
<1>4. e \in Event /\ e.key = q.key /\ e.alias = q.wallet.alias /\ e.operator = operatorKey
  BY <1>1, <1>3 DEF Event
<1> HIDE DEF e
<1>5. log = <<>> => e.key = wallet.key
  BY <1>1, <1>4 DEF RequestInv, KeyInv, Publishing, Current
<1>6. /\ log' # <<>> /\ log' \in Seq(Event)
      /\ \A k : Settled(k, log') <=> Settled(k, log) \/ k = e.key
      /\ \A a : Published(a, log') <=> Published(a, log) \/ a = e.alias
      /\ \A i \in DOMAIN log' : log'[i] = e \/ (i \in DOMAIN log /\ log'[i] = log[i])
  BY <1>1, <1>4, LogGrows
<1>7. Interferes(r)
  BY <1>1, <1>3, <1>4, <1>5 DEF Interferes
<1>8. FilesInv(wallet', keyFiles', log', operatorKey', invites')
  <2>1. \A i \in DOMAIN log' : log'[i].key \in keyFiles /\ log'[i].operator = operatorKey
    BY <1>1, <1>3, <1>4, <1>6 DEF FilesInv
  <2>2. Settled(wallet.key, log')
    BY <1>1, <1>5, <1>6 DEF FilesInv
  <2>3. FileInv(invites, log')
    BY <1>1, <1>6 DEF FilesInv, FileInv
  <2> QED BY <1>1, <1>6, <2>1, <2>2, <2>3 DEF FilesInv, Announced
<1>9. /\ n \in Request /\ n.pc = "saveWallet" /\ n.kind = q.kind /\ n.alias = q.alias /\ n.invite = q.invite
      /\ n.wallet.key = q.key /\ n.file = q.file
  BY <1>1, <1>3 DEF Request, PC, Wallet
<1> HIDE DEF n
<1>10. Inputs(n) /\ RouteInv(r, n, lock)
  BY <1>1, <1>9 DEF RequestInv, Inputs, RouteInv, WalletSteps, Publishing
<1>11. ClaimInv(n, log')
  BY <1>1, <1>4, <1>6, <1>9 DEF RequestInv, ClaimInv, FileInv, WalletSteps, Publishing
<1>12. KeyInv(n, wallet, keyFiles, log')
  BY <1>3, <1>4, <1>6, <1>9 DEF KeyInv, Publishing, Current
<1>13. OperatorInv(n, log', operatorKey)
  BY <1>6, <1>9 DEF OperatorInv, Publishing, Announced
<1>14. RequestInv(r, n, wallet', keyFiles', log', operatorKey', lock')
  BY <1>1, <1>10, <1>11, <1>12, <1>13 DEF RequestInv
<1> QED BY <1>1, <1>2, <1>6, <1>7, <1>8, <1>9, <1>14, Known, OneRequest

--------------------------------------------------------------------------------
(* The invariant and the theorems *)

\* A crash ends every request between any two of its steps.
LEMMA CrashStep ==
    ASSUME Inv, Crash
    PROVE  Inv'
<1> DEFINE n == [NewRequest EXCEPT !.pc = "done"]
<1>1. n \in Request /\ \A r, w, kf, lg, op, lk : RequestInv(r, n, w, kf, lg, op, lk)
  BY Answered
<1>2. /\ request' = [r \in Requests |-> IF r \in Active THEN n ELSE request[r]]
      /\ lock' = None /\ UNCHANGED <<wallet, keyFiles, operatorKey, log, invites, issued, past>>
  BY DEF Crash, files
<1> HIDE DEF n
<1>3. TypeOK'
  BY <1>1, <1>2 DEF Inv, TypeOK
<1>4. ASSUME NEW r \in Requests
      PROVE  RequestInv(r, request'[r], wallet', keyFiles', log', operatorKey', lock')
  <2>1. CASE r \in Active
    BY <1>1, <1>2, <2>1
  <2>2. CASE r \notin Active
    <3> DEFINE q == request[r]
    <3>1. /\ q.pc \in {"new", "done"} /\ request'[r] = q
          /\ RequestInv(r, q, wallet, keyFiles, log, operatorKey, lock)
      BY <1>2, <2>2, Known DEF Active
    <3> HIDE DEF q
    <3>2. RouteInv(r, q, lock')
      BY <3>1 DEF RequestInv, RouteInv
    <3> QED BY <1>2, <3>1, <3>2 DEF RequestInv
  <2> QED BY <2>1, <2>2
<1> QED BY <1>2, <1>3, <1>4 DEF Inv

LEMMA InitInv == Init => Inv
<1> SUFFICES ASSUME Init PROVE Inv
  OBVIOUS
<1> DEFINE n == NewRequest
<1>1. /\ n \in Request /\ n.kind = "update" /\ n.pc = "new" /\ n.wallet = EmptyWallet /\ n.file = NoInvites
  BY EmptyFiles DEF NewRequest, Request, PC, Kind, Locked
<1>2. request = [r \in Requests |-> n]
  BY DEF Init
<1> HIDE DEF n
<1>3. TypeOK
  BY <1>1, <1>2, EmptyFiles DEF Init, TypeOK
<1>4. FilesInv(wallet, keyFiles, log, operatorKey, invites)
  BY EmptyFiles DEF Init, FilesInv, EmptyWallet, Announced
<1>5. Inputs(n)
  BY <1>1 DEF Inputs
<1>6. \A r \in Requests : RequestInv(r, request[r], wallet, keyFiles, log, operatorKey, lock)
  BY <1>1, <1>2, <1>5, BlankRequest
<1> QED BY <1>3, <1>4, <1>6 DEF Inv

LEMMA NextInv == Inv /\ [Next]_vars => Inv'
<1> SUFFICES ASSUME Inv, [Next]_vars PROVE Inv'
  OBVIOUS
<1>1. ASSUME NEW r \in Requests, RequestStep(r) PROVE Inv'
  <2>1. CASE \/ Update(r) \/ Verify(r) \/ Rotate(r) \/ Claim(r)
             \/ Broadcast(r) \/ Send(r) \/ ListInvites(r) \/ MarkRead(r)
    BY <2>1, Arrivals
  <2>2. CASE \/ InvitesReject(r) \/ WalletRejects(r) \/ AlreadySigned(r) \/ StoreRejects(r)
             \/ CommitRejects(r) \/ WriteFails(r)
    BY <2>2, Endings
  <2>3. CASE \/ TakeLock(r) \/ OpenInvites(r) \/ LoadWallet(r) \/ OpenStore(r) \/ SkipStore(r)
             \/ LoadOperator(r) \/ GenerateOperator(r)
    BY <2>3, TakeLockStep, OpenInvitesStep, LoadWalletStep, OpenStoreStep, SkipStoreStep,
       LoadOperatorStep, GenerateOperatorStep
  <2>4. CASE \/ SaveInvites(r) \/ CreateKey(r) \/ CreateWallet(r) \/ SaveWallet(r) \/ SaveOperator(r)
             \/ SaveRotationKey(r) \/ Commit(r)
    BY <2>4, SaveInvitesStep, CreateKeyStep, CreateWalletStep, SaveWalletStep, SaveOperatorStep,
       SaveRotationKeyStep, CommitStep
  <2> QED BY <1>1, <2>1, <2>2, <2>3, <2>4 DEF RequestStep
<1>2. CASE Crash
  BY <1>2, CrashStep
<1>3. ASSUME NEW i \in Invites, Expire(i) PROVE Inv'
  BY <1>3 DEF Expire, files, Inv, TypeOK
<1>4. CASE UNCHANGED vars
  BY <1>4 DEF vars, files, Inv, TypeOK
<1> QED BY <1>1, <1>2, <1>3, <1>4 DEF Next

LEMMA Invariance == Spec => []Inv
  BY InitInv, NextInv, PTL DEF Spec

\* A published name has an owner.
LEMMA PublishedOwner ==
    ASSUME NEW a, log \in Seq(Event), Published(a, log)
    PROVE  Owner(a) # None
<1> DEFINE I == {i \in DOMAIN log : log[i].alias = a}
           last == CHOOSE i \in I : \A j \in I : j <= i
<1>1. I # {} /\ Len(log) \in Nat /\ I \in SUBSET (1 .. Len(log))
  BY LenProperties DEF Published
<1> HIDE DEF I
<1>2. \E i \in I : \A j \in I : j <= i
  BY <1>1, LastIndex
<1>3. last \in I
  BY <1>2
<1>4. Owner(a) = log[last].key
  BY <1>1 DEF Owner, I
<1> HIDE DEF last
<1>5. log[last] \in Event
  BY <1>1, <1>3, ElementOfSeq
<1> QED BY <1>4, <1>5, NoneAssumption DEF Event

\* The files and the copies the requests work on keep their types (satspathd handlers).
THEOREM DaemonTypeCorrect == Spec => []TypeOK
<1>1. Inv => TypeOK
  BY DEF Inv
<1> QED BY <1>1, Invariance, PTL

\* However requests interleave, fail and crash, the secret of every key that owned a name and
\* of the wallet's key is on disk (rotate_profile_key, load_or_create_identity).
THEOREM KeyOnDiskHolds == Spec => []KeyOnDisk
<1>1. Inv => KeyOnDisk
  BY DEF Inv, FilesInv, KeyOnDisk
<1> QED BY <1>1, Invariance, PTL

\* One operator key signs the whole log and is the one on disk, although it is looked for and
\* created in two steps and broadcast takes no lock (load_or_create_transparency_operator).
THEOREM OneOperatorHolds == Spec => []OneOperator
<1>1. Inv => OneOperator
  BY DEF Inv, FilesInv, OneOperator
<1> QED BY <1>1, Invariance, PTL

\* A claimed invite has a published recipient, and exactly the claimed ones have a notification,
\* whichever stale copy of the file is saved last (claim_invite_handler, InviteStore::claim).
THEOREM ClaimsAreWholeHolds == Spec => []ClaimsAreWhole
<1>1. Inv => ClaimsAreWhole
  BY PublishedOwner DEF Inv, TypeOK, FilesInv, FileInv, ClaimsAreWhole
<1> QED BY <1>1, Invariance, PTL

\* Only a key the log has accepted replaces the wallet's key (rotate_profile_key).
THEOREM ActiveKeyWasPublishedHolds == Spec => ActiveKeyWasPublished
<1> DEFINE Step == wallet'.key # wallet.key /\ wallet.key # None
                     => \E i \in DOMAIN log : log[i].key = wallet'.key
<1>1. Inv /\ [Next]_vars => [Step]_vars
  <2> SUFFICES ASSUME Inv, Next, wallet'.key # wallet.key, wallet.key # None
               PROVE  Settled(wallet'.key, log)
    BY DEF Settled
  <2>1. PICK r \in Requests : CreateWallet(r) \/ SaveWallet(r)
    <3>1. ASSUME NEW r \in Requests, RequestStep(r) PROVE CreateWallet(r) \/ SaveWallet(r)
      BY <3>1 DEF RequestStep, files, Arrive, Update, Verify, Rotate, Claim, Broadcast, Send, ListInvites,
         MarkRead, TakeLock, OpenInvites, Opened, InvitesReject, SaveInvites, LoadWallet,
         WalletRejects, AlreadySigned, CreateKey, OpenStore, SkipStore, StoreRejects, LoadOperator,
         GenerateOperator, SaveOperator, SaveRotationKey, Commit, CommitRejects, WriteFails
    <3>2. ~Crash /\ \A i \in Invites : ~Expire(i)
      BY DEF Crash, Expire, files
    <3> QED BY <3>1, <3>2 DEF Next
  <2> DEFINE q == request[r]
  <2>2. RequestInv(r, q, wallet, keyFiles, log, operatorKey, lock)
    BY Known
  <2>3. ~CreateWallet(r)
    BY <2>2 DEF CreateWallet, At, RequestInv, KeyInv
  <2>4. wallet' = q.wallet /\ q.pc = "saveWallet"
    BY <2>1, <2>3 DEF SaveWallet, At
  <2>5. Current(q.wallet.key, wallet, log)
    BY <2>2, <2>4 DEF RequestInv, KeyInv
  <2> QED BY <2>4, <2>5 DEF Current
<1>2. Spec => [][Step]_vars
  BY <1>1, Invariance, PTL DEF Spec
<1> QED BY <1>2 DEF ActiveKeyWasPublished

================================================================================
