--------------------------- MODULE TransparencyStore ---------------------------
(***************************************************************************)
(* The daemon's transactional transparency store and the request handlers  *)
(* that use it concurrently: publishing a profile, rotating or revoking an *)
(* identity key, rotating the operator key and anchoring a checkpoint      *)
(* (satspath-core/src/transparency/database.rs and log.rs,                 *)
(* satspathd/src/handlers/profile.rs and transparency.rs).                 *)
(*                                                                         *)
(* A handler reads the database in separate statements, each its own read  *)
(* transaction: events, then checkpoints, then profiles (load_log).  It    *)
(* loads once to build its event and checkpoint and once more inside       *)
(* commit_profile_event_checkpoint, whose write transaction then checks    *)
(* again that nothing moved.  Other handlers may run between any two of    *)
(* these steps; a crash of the daemon forgets every handler and keeps the  *)
(* database.                                                               *)
(***************************************************************************)
EXTENDS TransparencyLog, FiniteSets

CONSTANTS
    MaxEvents,        \* bound: no handler starts publishing beyond this size
    MaxTime,          \* bound on the wall clock
    ClockMayStepBack  \* whether the wall clock may be set back

ASSUME BoundsAssumption ==
    /\ MaxEvents \in Nat
    /\ MaxTime \in Nat
    /\ ClockMayStepBack \in BOOLEAN

VARIABLES
    events,          \* table name_events, by event_index
    checkpoints,     \* table checkpoints, by checkpoint_index
    profiles,        \* table profiles, by identifier hash
    operator_state,  \* the row of table operator_state
    anchors,         \* table anchors: the checkpoint hashes with a receipt
    job,             \* the local state of each handler
    clock            \* Utc::now()

db == <<events, checkpoints, profiles, operator_state, anchors>>
vars == <<events, checkpoints, profiles, operator_state, anchors, job, clock>>

(***************************************************************************)
(* pc is the handler's next step; goal is what its load_log is for: to     *)
(* prepare an event, to commit it, to anchor the latest checkpoint, or to  *)
(* answer a resolution (Resolution).                                       *)
(***************************************************************************)
PC == {"idle", "events", "checkpoints", "profiles", "loaded", "transaction", "anchor"}
Goal == {"prepare", "commit", "anchor", "resolve"}

Job == [pc : PC, goal : Goal,
        id : Ids \cup {None},                \* the alias being published
        existing : Profile \cup {None},      \* its row, read before the load
        events : Seq(NameEvent),             \* the loaded log
        checkpoints : Seq(Checkpoint),
        event : NameEvent \cup {None},       \* what is to be committed
        checkpoint : Checkpoint \cup {None}]

IdleJob == [pc |-> "idle", goal |-> "prepare", id |-> None, existing |-> None,
            events |-> <<>>, checkpoints |-> <<>>, event |-> None, checkpoint |-> None]

OperatorRow == [operator : Operators \cup {None}, sequence : Nat]

TypeOK ==
    /\ events \in Seq(NameEvent)
    /\ checkpoints \in Seq(Checkpoint)
    /\ profiles \in [Ids -> Profile \cup {None}]
    /\ operator_state \in OperatorRow
    /\ anchors \in SUBSET CheckpointHash
    /\ job \in [Handlers -> Job]
    /\ clock \in Nat

\* TransactionalTransparencyStore::open on an empty directory.
Init ==
    /\ events = <<>>
    /\ checkpoints = <<>>
    /\ profiles = [id \in Ids |-> None]
    /\ operator_state = [operator |-> None, sequence |-> 0]
    /\ anchors = {}
    /\ job = [h \in Handlers |-> IdleJob]
    /\ clock = 0

--------------------------------------------------------------------------------
(* load_log *)

At(h, pc, goal) == job[h].pc = pc /\ job[h].goal = goal

Goto(h, pc) == job' = [job EXCEPT ![h].pc = pc]

Fail(h) == job' = [job EXCEPT ![h] = IdleJob]

\* Every profile row is the profile of the latest event of its identifier.
VerifyProfiles(log, rows) ==
    \A id \in Ids :
        rows[id] # None =>
            /\ HasHistory(log, id)
            /\ ProfileMatches(Latest(log, id), rows[id])

\* Mutant: only the histories are replayed.
VerifyLoad_HistoriesOnly(log, cps, rows) == VerifyHistories(log)

VerifyLoad(log, cps, rows) == VerifyFullReplay(log, cps) /\ VerifyProfiles(log, rows)

ReadEvents(h) ==
    /\ job[h].pc = "events"
    /\ job' = [job EXCEPT ![h].pc = "checkpoints", ![h].events = events]
    /\ UNCHANGED <<db, clock>>

\* Mutant: the rows of the wrong table.
ReadCheckpoints_WrongTable(h) ==
    /\ job[h].pc = "checkpoints"
    /\ job' = [job EXCEPT ![h].pc = "profiles", ![h].checkpoints = events]
    /\ UNCHANGED <<db, clock>>

ReadCheckpoints(h) ==
    /\ job[h].pc = "checkpoints"
    /\ job' = [job EXCEPT ![h].pc = "profiles", ![h].checkpoints = checkpoints]
    /\ UNCHANGED <<db, clock>>

LoadSucceeds(h) ==
    /\ job[h].pc = "profiles"
    /\ VerifyLoad(job[h].events, job[h].checkpoints, profiles)
    /\ Goto(h, "loaded")
    /\ UNCHANGED <<db, clock>>

LoadFails(h) ==
    /\ job[h].pc = "profiles"
    /\ ~VerifyLoad(job[h].events, job[h].checkpoints, profiles)
    /\ Fail(h)
    /\ UNCHANGED <<db, clock>>

--------------------------------------------------------------------------------
(* Publishing: sign_and_store, rotate_profile_key *)

BeginPublish(h, id) ==
    /\ job[h].pc = "idle"
    /\ Len(events) < MaxEvents
    /\ job' = [job EXCEPT ![h] = [IdleJob EXCEPT !.pc = "events",
                                                 !.id = id,
                                                 !.existing = profiles[id]]]
    /\ UNCHANGED <<db, clock>>

\* next_identifier_sequence: the row read first agrees with the loaded history.
ProfileAligned(j) ==
    IF HasHistory(j.events, j.id)
    THEN j.existing # None /\ ProfileMatches(Latest(j.events, j.id), j.existing)
    ELSE j.existing = None

NextSequence(j) == IF j.existing = None THEN 0 ELSE j.existing.sequence + 1

PreviousEventHash(j) ==
    IF HasHistory(j.events, j.id) THEN SignedEventHash(Latest(j.events, j.id)) ELSE NoHash

\* The event of handler h for a profile under key, signed by signer.
BuildEvent(h, action, key, signer, rotation) ==
    LET j == job[h] IN
    [id |-> j.id, action |-> action, key |-> key, sequence |-> NextSequence(j),
     profile |-> [id |-> j.id, key |-> key, sequence |-> NextSequence(j), nonce |-> h],
     rotation |-> rotation, signer |-> signer, prev |-> PreviousEventHash(j)]

\* What the callers of the store build: a first or a later profile under the
\* wallet's key k; a rotation from the wallet's key, which must control the
\* row, to a fresh key; a revocation.
Proposals(h) ==
    LET j == job[h] IN
    {BuildEvent(h, IF j.existing = None THEN "Register" ELSE "UpdateProfile", k, k, {}) : k \in Keys}
    \cup (IF j.existing = None THEN {}
          ELSE {BuildEvent(h, "RotateKey", k, j.existing.key, {j.existing.key, k}) :
                    k \in Keys \ {j.existing.key}}
               \cup {BuildEvent(h, "Revoke", k, k, {}) : k \in Keys})

\* The event is accepted on the handler's own log, and the operator key the
\* caller holds signs the checkpoint that covers it: an ordinary one, or one
\* that hands over to the key op.
Prepare(h) ==
    /\ At(h, "loaded", "prepare")
    /\ ProfileAligned(job[h])
    /\ \E e \in Proposals(h), op \in Operators :
         LET log == Append(job[h].events, e)
             cps == job[h].checkpoints
         IN /\ PrepareAppend(job[h].events, e)
            /\ \E c \in {PrepareCheckpoint(log, cps, op, clock)}
                        \cup {PrepareOperatorRotation(log, cps, op, clock) :
                                 old \in {o \in Operators : MayRotateOperator(log, cps, o)}} :
                 job' = [job EXCEPT ![h].pc = "events", ![h].goal = "commit",
                                    ![h].event = e, ![h].checkpoint = c]
    /\ UNCHANGED <<db, clock>>

PrepareRejects(h) ==
    /\ At(h, "loaded", "prepare")
    /\ \/ ~ProfileAligned(job[h])
       \/ \E e \in Proposals(h) : ~PrepareAppend(job[h].events, e)
    /\ Fail(h)
    /\ UNCHANGED <<db, clock>>

--------------------------------------------------------------------------------
(* commit_profile_event_checkpoint *)

\* The checks on the second load, before the write transaction.
CandidateOK(log, cps, e, c) ==
    LET candidate == Append(log, e) IN
    /\ PrepareAppend(log, e)
    /\ c.size = Len(candidate)
    /\ c.root = candidate
    /\ VerifyCheckpoint(c)
    /\ c.prev = LatestHash(cps)
    /\ IF cps = <<>>
       THEN c.operator_sequence = 0 /\ c.rotated_from = None
       ELSE LET last == cps[Len(cps)] IN
            VerifyCheckpointTransition(last, c, Consistency(candidate, last.size, c.size))

Validate(h) ==
    /\ At(h, "loaded", "commit")
    /\ CandidateOK(job[h].events, job[h].checkpoints, job[h].event, job[h].checkpoint)
    /\ Goto(h, "transaction")
    /\ UNCHANGED <<db, clock>>

CommitRejects(h) ==
    /\ At(h, "loaded", "commit")
    /\ ~CandidateOK(job[h].events, job[h].checkpoints, job[h].event, job[h].checkpoint)
    /\ Fail(h)
    /\ UNCHANGED <<db, clock>>

\* Mutant: the transaction trusts the earlier load.
Unmoved_Trusting(j) == TRUE

\* The re-check inside BEGIN IMMEDIATE: the row counts and the latest hash.
Unmoved(j) ==
    /\ Len(events) = Len(j.events)
    /\ Len(checkpoints) = Len(j.checkpoints)
    /\ LatestHash(checkpoints) = LatestHash(j.checkpoints)

\* Mutant: an existing profile row is left as it is (INSERT OR IGNORE).
Commit_KeepsRow(h) ==
    /\ job[h].pc = "transaction"
    /\ Unmoved(job[h])
    /\ LET e == job[h].event
           c == job[h].checkpoint
       IN /\ events' = Append(events, e)
          /\ profiles' = [profiles EXCEPT ![job[h].id] = IF @ = None THEN e.profile ELSE @]
          /\ checkpoints' = Append(checkpoints, c)
          /\ operator_state' = [operator |-> c.operator, sequence |-> c.operator_sequence]
    /\ Fail(h)
    /\ UNCHANGED <<anchors, clock>>

Commit(h) ==
    /\ job[h].pc = "transaction"
    /\ Unmoved(job[h])
    /\ LET e == job[h].event
           c == job[h].checkpoint
       IN /\ events' = Append(events, e)
          /\ profiles' = [profiles EXCEPT ![job[h].id] = e.profile]
          /\ checkpoints' = Append(checkpoints, c)
          /\ operator_state' = [operator |-> c.operator, sequence |-> c.operator_sequence]
    /\ Fail(h)
    /\ UNCHANGED <<anchors, clock>>

CommitConflicts(h) ==
    /\ job[h].pc = "transaction"
    /\ ~Unmoved(job[h])
    /\ Fail(h)
    /\ UNCHANGED <<db, clock>>

--------------------------------------------------------------------------------
(* anchor_latest_checkpoint, replace_latest_checkpoint *)

BeginAnchor(h) ==
    /\ job[h].pc = "idle"
    /\ job' = [job EXCEPT ![h] = [IdleJob EXCEPT !.pc = "events", !.goal = "anchor"]]
    /\ UNCHANGED <<db, clock>>

\* The handler takes the latest checkpoint and awaits the Bitcoin transaction.
TakeLatest(h) ==
    /\ At(h, "loaded", "anchor")
    /\ LET cps == job[h].checkpoints IN
       /\ cps # <<>>
       /\ job' = [job EXCEPT ![h].pc = "anchor",
                             ![h].checkpoint = [cps[Len(cps)] EXCEPT !.anchor = HashOf(cps[Len(cps)])]]
    /\ UNCHANGED <<db, clock>>

NothingToAnchor(h) ==
    /\ At(h, "loaded", "anchor")
    /\ job[h].checkpoints = <<>>
    /\ Fail(h)
    /\ UNCHANGED <<db, clock>>

\* The Bitcoin client is unavailable, or its receipt does not verify.
AnchorFails(h) ==
    /\ job[h].pc = "anchor"
    /\ Fail(h)
    /\ UNCHANGED <<db, clock>>

\* Mutant: whatever is the latest now is replaced.
AnchorCurrent_Any(c) == checkpoints # <<>>

\* The stored latest checkpoint still has the hash that was anchored.
AnchorCurrent(c) == LatestHash(checkpoints) = HashOf(c)

\* Mutant: the anchored checkpoint is stamped again.
Anchored_Restamped(h, op) == [job[h].checkpoint EXCEPT !.signer = op, !.created_at = clock]

\* The operator key at hand signs the anchored checkpoint.
Anchored(h, op) == [job[h].checkpoint EXCEPT !.signer = op]

AnchorLatest(h, op) ==
    /\ job[h].pc = "anchor"
    /\ VerifyCheckpoint(Anchored(h, op))
    /\ AnchorCurrent(job[h].checkpoint)
    /\ checkpoints' = [checkpoints EXCEPT ![Len(checkpoints)] = Anchored(h, op)]
    /\ anchors' = anchors \cup {job[h].checkpoint.anchor}
    /\ Fail(h)
    /\ UNCHANGED <<events, profiles, operator_state, clock>>

AnchorConflicts(h, op) ==
    /\ job[h].pc = "anchor"
    /\ ~(VerifyCheckpoint(Anchored(h, op)) /\ AnchorCurrent(job[h].checkpoint))
    /\ Fail(h)
    /\ UNCHANGED <<db, clock>>

--------------------------------------------------------------------------------
(* The environment *)

\* The daemon dies; SQLite keeps what was committed.
Crash ==
    /\ \E h \in Handlers : job[h].pc # "idle"
    /\ job' = [h \in Handlers |-> IdleJob]
    /\ UNCHANGED <<db, clock>>

Tick ==
    /\ clock < MaxTime
    /\ clock' = clock + 1
    /\ UNCHANGED <<db, job>>

StepBack ==
    /\ ClockMayStepBack
    /\ clock > 0
    /\ clock' = clock - 1
    /\ UNCHANGED <<db, job>>

HandlerStep(h) ==
    \/ \E id \in Ids : BeginPublish(h, id)
    \/ BeginAnchor(h)
    \/ ReadEvents(h)
    \/ ReadCheckpoints(h)
    \/ LoadSucceeds(h)
    \/ LoadFails(h)
    \/ Prepare(h)
    \/ PrepareRejects(h)
    \/ Validate(h)
    \/ CommitRejects(h)
    \/ Commit(h)
    \/ CommitConflicts(h)
    \/ TakeLatest(h)
    \/ NothingToAnchor(h)
    \/ AnchorFails(h)
    \/ \E op \in Operators : AnchorLatest(h, op) \/ AnchorConflicts(h, op)

Next == (\E h \in Handlers : HandlerStep(h)) \/ Crash \/ Tick \/ StepBack

Spec == Init /\ [][Next]_vars

--------------------------------------------------------------------------------
(* Properties *)

\* Every committed state opens: the replay of load_log, with its check of every
\* profile row against the latest event, succeeds on the database
\* (verify_full_replay, TransactionalTransparencyStore::load_log).
StoreReplays == VerifyLoad(events, checkpoints, profiles)

\* Every committed event has its own checkpoint, and every checkpoint commits to
\* the state map of exactly the events it covers, although map_root is checked
\* neither by the commit nor by the replay (prepare_checkpoint).
CheckpointsCoverState ==
    /\ Len(checkpoints) = Len(events)
    /\ \A i \in 1..Len(checkpoints) :
         /\ checkpoints[i].size = i
         /\ checkpoints[i].map = StateMapOf(Prefix(events, i))

\* A log that load_log hands out is one committed state, not a mixture: its
\* three reads are separate statements, and the replay rejects every torn
\* combination of them.
LoadedIsCommitted ==
    \A h \in Handlers :
        job[h].pc \in {"loaded", "transaction"} =>
            LET j == job[h] IN
            /\ IsPrefix(j.events, events)
            /\ Len(j.checkpoints) = Len(j.events)
            /\ LatestHash(j.checkpoints) = LatestHash(Prefix(checkpoints, Len(j.checkpoints)))

\* No step rewrites history: events are only appended, and the hash of the
\* latest checkpoint commits to every checkpoint published before it (commit
\* and anchoring, which replaces the latest row).
AppendOnly ==
    [][/\ IsPrefix(events, events')
       /\ IsPrefix(LatestHash(checkpoints), LatestHash(checkpoints'))]_vars

\* A commit replaces exactly the profile its event was derived from: no handler
\* overwrites an update it has not seen (the row is read before the load, the
\* commit loads again, and the transaction compares only counts and one hash).
NoLostUpdate ==
    [][\A h \in Handlers : Commit(h) => job[h].existing = profiles[job[h].id]]_vars

\* A published name changes only with the signature of the key that owned it
\* until then, and gets a new key only if both keys signed the rotation: the
\* verifier decides on the log it has loaded, the row changes in the store.
OwnerAuthorises ==
    [][\A id \in Ids :
          profiles[id] # None /\ profiles'[id] # profiles[id] =>
              LET e == Latest(events', id) IN
              /\ e.signer = profiles[id].key
              /\ profiles'[id].key # profiles[id].key =>
                   {profiles[id].key, profiles'[id].key} \subseteq e.rotation]_vars

\* While the wall clock does not go back, a handler fails to load, and a write
\* transaction is refused, only when another commit overtook it: the error "corrupt"
\* or "retry required" never appears without one.
FailsOnlyIfOvertaken ==
    [][\A h \in Handlers :
          LoadFails(h) \/ CommitConflicts(h) => Len(events) > Len(job[h].events)]_vars

(***************************************************************************)
(* The store implements the directory of NameDirectory: the owner of a     *)
(* name is the key of its profile row, its version counts its events.      *)
(***************************************************************************)
Revoked(id) == HasHistory(events, id) /\ Latest(events, id).action = "Revoke"

DirectoryOwner == [id \in Ids |-> IF profiles[id] = None THEN None ELSE profiles[id].key]

DirectoryVersion == [id \in Ids |-> IF profiles[id] = None THEN 0 ELSE profiles[id].sequence + 1]

DirectoryRevoked == [id \in Ids |-> Revoked(id)]

Directory == INSTANCE NameDirectory WITH
    Names <- Ids, owner <- DirectoryOwner, version <- DirectoryVersion, revoked <- DirectoryRevoked

\* Seen through the profile rows, the concurrent store is the atomic directory:
\* one name moves at a time, by one version, under its owner's authority, and a
\* revoked name never moves again.
ImplementsDirectory == Directory!Spec

================================================================================
