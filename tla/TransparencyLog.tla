---------------------------- MODULE TransparencyLog ----------------------------
(***************************************************************************)
(* The data of the transparency log and the pure checks on it: name        *)
(* events, signed checkpoints, the replay that every open of the store     *)
(* performs, and the preparation of the next event and checkpoint          *)
(* (crates/satspath-core/src/transparency: event.rs, checkpoint.rs,        *)
(* verifier.rs, log.rs).                                                   *)
(*                                                                         *)
(* Abstractions.  A hash is identified with what it commits to (SHA-256    *)
(* has no collisions here): the hash of an event is its chain of cores,    *)
(* the root of a Merkle tree is the sequence of its leaves.  A signature   *)
(* is the key that made it.  <<>> is the absent hash.                      *)
(***************************************************************************)
EXTENDS Integers, Sequences, SequencesExt

CONSTANTS
    Ids,        \* identifier hashes
    Keys,       \* identity public keys
    Operators,  \* operator keys of the log
    Handlers,   \* request handlers; a profile's random nonce is told apart by
                \* the handler that drew it
    None        \* an absent value

NoHash == <<>>

NameAction == {"Register", "UpdateProfile", "RotateKey", "Revoke", "RecoverKey"}

\* A signed payment profile; its hash is the profile itself.
Profile == [id : Ids, key : Keys, sequence : Nat, nonce : Handlers]

ASSUME NoneAssumption == None \notin Keys \cup Operators /\ None \notin Profile

\* What the hash of an event commits to besides its predecessor.  rotation is
\* the set of keys whose signature on the rotation statement verifies, signer
\* the key of the owner signature.
EventCore ==
    [id : Ids, action : NameAction, key : Keys, sequence : Nat,
     profile : Profile, rotation : SUBSET Keys, signer : Keys]

EventHash == Seq(EventCore)

NameEvent ==
    [id : Ids, action : NameAction, key : Keys, sequence : Nat,
     profile : Profile, rotation : SUBSET Keys, signer : Keys,
     prev : EventHash]

\* signed_event_hash: the chain of cores up to and including this event.
SignedEventHash(e) ==
    Append(e.prev,
           [id |-> e.id, action |-> e.action, key |-> e.key,
            sequence |-> e.sequence, profile |-> e.profile,
            rotation |-> e.rotation, signer |-> e.signer])

StateMap == [Ids -> EventHash]

CheckpointCore ==
    [size : Nat, root : Seq(NameEvent), map : StateMap, created_at : Int,
     operator : Operators, operator_sequence : Nat, rotated_from : Operators \cup {None}]

CheckpointHash == Seq(CheckpointCore)

\* rotated_from stands for the OperatorKeyRotation statement: the operator that
\* hands over, or None.  The statement's other fields are those of the
\* checkpoint that carries it.
Checkpoint ==
    [size : Nat, root : Seq(NameEvent), map : StateMap, created_at : Int,
     operator : Operators, operator_sequence : Nat, rotated_from : Operators \cup {None},
     prev : CheckpointHash, signer : Operators, anchor : CheckpointHash]

\* checkpoint_hash: leaves out the signature and the Bitcoin anchor.
HashOf(c) ==
    Append(c.prev,
           [size |-> c.size, root |-> c.root, map |-> c.map,
            created_at |-> c.created_at, operator |-> c.operator,
            operator_sequence |-> c.operator_sequence,
            rotated_from |-> c.rotated_from])

LatestHash(cps) == IF cps = <<>> THEN NoHash ELSE HashOf(cps[Len(cps)])

--------------------------------------------------------------------------------
(* Histories *)

Prefix(log, n) == SubSeq(log, 1, n)

HasHistory(log, id) == \E i \in 1..Len(log) : log[i].id = id

IsLatest(log, id, i) ==
    /\ log[i].id = id
    /\ \A j \in 1..Len(log) : log[j].id = id => j <= i

\* history(id).last()
Latest(log, id) == log[CHOOSE i \in 1..Len(log) : IsLatest(log, id, i)]

VerifyGenesis(e) ==
    /\ e.action = "Register"
    /\ e.sequence = 0
    /\ e.prev = NoHash
    /\ e.signer = e.key

\* Mutants: a revoked name goes on; an event need only be signed by its own key.
VerifyTransition_AfterRevoke(p, e) ==
    /\ e.sequence = p.sequence + 1
    /\ e.prev = SignedEventHash(p)
    /\ e.action # "RecoverKey"
    /\ IF e.action = "RotateKey" THEN {p.key, e.key} \subseteq e.rotation ELSE e.key = p.key
    /\ e.signer = p.key

VerifyTransition_SelfSigned(p, e) ==
    /\ e.sequence = p.sequence + 1
    /\ e.prev = SignedEventHash(p)
    /\ p.action # "Revoke"
    /\ e.action # "RecoverKey"
    /\ e.signer = e.key

\* One round of the loop of verify_identifier_history: p is the event before e.
VerifyTransition(p, e) ==
    /\ e.sequence = p.sequence + 1
    /\ e.prev = SignedEventHash(p)
    /\ p.action # "Revoke"
    /\ e.action # "RecoverKey"
    /\ IF e.action = "RotateKey"
       THEN {p.key, e.key} \subseteq e.rotation
       ELSE e.key = p.key
    /\ e.signer = p.key

\* The history of e.id in log, followed by e, is a history.
VerifyNext(log, e) ==
    IF HasHistory(log, e.id) THEN VerifyTransition(Latest(log, e.id), e)
                             ELSE VerifyGenesis(e)

VerifyHistories(log) ==
    \A i \in 1..Len(log) : VerifyNext(Prefix(log, i - 1), log[i])

ProfileMatches(e, profile) ==
    /\ e.profile = profile
    /\ profile.sequence = e.sequence
    /\ profile.key = e.key

\* The state map of a log: the hash of the latest event of every identifier.
StateMapOf(log) ==
    [id \in Ids |-> IF HasHistory(log, id) THEN SignedEventHash(Latest(log, id))
                                           ELSE NoHash]

--------------------------------------------------------------------------------
(* Checkpoints *)

VerifyCheckpoint(c) == c.size > 0 /\ c.signer = c.operator

\* The proof the log generates between two of its sizes; it verifies when the
\* old tree is not empty and its leaves are the first leaves of the new one.
Consistency(log, m, n) == [old_root |-> Prefix(log, m), new_root |-> Prefix(log, n)]

VerifyConsistencyProof(proof) ==
    proof.old_root # <<>> /\ IsPrefix(proof.old_root, proof.new_root)

\* The operator of c continues the one of the earlier checkpoint p.
OperatorContinuity(p, c) ==
    IF c.operator # p.operator
    THEN /\ c.rotated_from = p.operator
         /\ c.prev = HashOf(p)
         /\ c.operator_sequence = p.operator_sequence + 1
    ELSE /\ c.operator_sequence = p.operator_sequence
         /\ c.rotated_from = None

VerifyCheckpointTransition(p, c, proof) ==
    /\ VerifyCheckpoint(c)
    /\ OperatorContinuity(p, c)
    /\ c.size >= p.size
    /\ c.size = p.size => c.root = p.root
    /\ c.size > p.size =>
         /\ proof.old_root = p.root
         /\ proof.new_root = c.root
         /\ VerifyConsistencyProof(proof)

\* c is a sound member of a chain over log, in which p precedes it.
VerifySuccessor(log, p, c) ==
    /\ c.size >= p.size
    /\ c.created_at >= p.created_at
    /\ c.prev = HashOf(p)
    /\ VerifyCheckpointTransition(p, c, Consistency(log, p.size, c.size))

\* The checks on one checkpoint that do not look at its predecessor.
VerifyAgainstLog(log, c) ==
    /\ VerifyCheckpoint(c)
    /\ c.size <= Len(log)
    /\ c.root = Prefix(log, c.size)
    /\ c.anchor \in {NoHash, HashOf(c)}

VerifyChain(log, cps) ==
    \A i \in 1..Len(cps) :
        /\ VerifyAgainstLog(log, cps[i])
        /\ \A j \in 1..(i - 1) :
             cps[j].size = cps[i].size => HashOf(cps[j]) = HashOf(cps[i])
        /\ IF i = 1
           THEN cps[i].prev = NoHash /\ cps[i].operator_sequence = 0
           ELSE VerifySuccessor(log, cps[i - 1], cps[i])

VerifyFullReplay(log, cps) == VerifyHistories(log) /\ VerifyChain(log, cps)

--------------------------------------------------------------------------------
(* Preparing the next event and checkpoint *)

\* prepare_append: the event is bound to the profile and extends its history.
PrepareAppend(log, e) == ProfileMatches(e, e.profile) /\ VerifyNext(log, e)

\* Mutant: the state map is read before the new event is applied to it.
PrepareCheckpoint_StaleMap(log, cps, op, now) ==
    [size |-> Len(log), root |-> log, map |-> StateMapOf(Front(log)), created_at |-> now,
     operator |-> op,
     operator_sequence |-> IF cps = <<>> THEN 0 ELSE cps[Len(cps)].operator_sequence,
     rotated_from |-> None,
     prev |-> LatestHash(cps), signer |-> op, anchor |-> NoHash]

\* prepare_checkpoint over log, after the checkpoints cps, at time now.
PrepareCheckpoint(log, cps, op, now) ==
    [size |-> Len(log), root |-> log, map |-> StateMapOf(log), created_at |-> now,
     operator |-> op,
     operator_sequence |-> IF cps = <<>> THEN 0 ELSE cps[Len(cps)].operator_sequence,
     rotated_from |-> None,
     prev |-> LatestHash(cps), signer |-> op, anchor |-> NoHash]

MayRotateOperator(log, cps, old) ==
    /\ cps # <<>>
    /\ Len(log) > cps[Len(cps)].size
    /\ cps[Len(cps)].operator = old

\* prepare_operator_rotation_checkpoint, which never moves the time back.
PrepareOperatorRotation(log, cps, new, now) ==
    LET last == cps[Len(cps)] IN
    [size |-> Len(log), root |-> log, map |-> StateMapOf(log),
     created_at |-> IF now >= last.created_at THEN now ELSE last.created_at,
     operator |-> new,
     operator_sequence |-> last.operator_sequence + 1,
     rotated_from |-> last.operator,
     prev |-> HashOf(last), signer |-> new, anchor |-> NoHash]

================================================================================
