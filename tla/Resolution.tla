------------------------------- MODULE Resolution ------------------------------
(***************************************************************************)
(* Resolving a name against the transparency store and the pinned          *)
(* checkpoint (satspathd/src/handlers/resolve.rs resolve_profile,          *)
(* satspath-core/src/transparency/store.rs and verifier.rs).               *)
(*                                                                         *)
(* A resolver reads the row of the name, loads the log as every handler    *)
(* does, checks the row against the log and the latest checkpoint against  *)
(* the pin, and then pins that checkpoint: it loads the pin file again,    *)
(* writes a temporary file that all resolvers share, and renames it.  No   *)
(* resolver takes a lock.  Publishers commit and anchor meanwhile, and     *)
(* between two lives of the daemon its database may be put back to an      *)
(* earlier state, after which it grows another branch: what the pin is     *)
(* there to notice.                                                        *)
(*                                                                         *)
(* A pin is the checkpoint it was taken from, without its anchor; a daemon *)
(* has one log, so its pin file has one entry.  Writing the temporary file *)
(* is one step.  The clock stands still: no check of a resolution looks at *)
(* it.                                                                     *)
(***************************************************************************)
EXTENDS TransparencyStore

CONSTANT Resolvers  \* the handlers that resolve; the others publish and anchor

ASSUME ResolversAssumption == Resolvers \subseteq Handlers

VARIABLES
    pins,     \* transparency-pins.json
    tmp,      \* transparency-pins.json.tmp
    stage,    \* how far a resolver is with its pin
    answers,  \* what resolvers have answered, ever
    \* History: the resolvers past their check whose check no longer stands, because
    \* another has replaced the pin or their temporary file since, and whether one of
    \* them has pinned all the same.
    stale,
    raced

pinVars == <<pins, tmp, stage, answers, stale, raced>>
resolutionVars == <<vars, pinVars>>

Stage == {"none", "pin", "write", "rename"}

\* What is told: the profile of a name and the log of the checkpoint that proves it.
Answer == [id : Ids, profile : Profile, log : Seq(NameEvent)]

ResolutionTypeOK ==
    /\ TypeOK
    /\ pins \in Checkpoint \cup {None}
    /\ tmp \in Checkpoint \cup {None}
    /\ stage \in [Resolvers -> Stage]
    /\ answers \in SUBSET Answer
    /\ stale \in SUBSET Resolvers
    /\ raced \in BOOLEAN

ResolutionInit ==
    /\ Init
    /\ pins = None
    /\ tmp = None
    /\ stage = [h \in Resolvers |-> "none"]
    /\ answers = {}
    /\ stale = {}
    /\ raced = FALSE

--------------------------------------------------------------------------------
(* resolve_profile *)

\* The row of the alias, read before the log; without one there is no answer.
BeginResolve(h, id) ==
    /\ job[h].pc = "idle"
    /\ profiles[id] # None
    /\ job' = [job EXCEPT ![h] = [IdleJob EXCEPT !.pc = "events", !.goal = "resolve",
                                                 !.id = id, !.existing = profiles[id]]]
    /\ UNCHANGED <<db, clock, pinVars>>

\* The steps of load_log.
Load(h) ==
    /\ ReadEvents(h) \/ ReadCheckpoints(h) \/ LoadSucceeds(h) \/ LoadFails(h)
    /\ UNCHANGED pinVars

LatestCheckpoint(j) == j.checkpoints[Len(j.checkpoints)]

AnswerOf(j) == [id |-> j.id, profile |-> j.existing, log |-> LatestCheckpoint(j).root]

\* Mutant: the row is not compared with the log.
Proved_AnyRow(j) ==
    /\ j.checkpoints # <<>>
    /\ VerifyCheckpoint(LatestCheckpoint(j))
    /\ LatestCheckpoint(j).root = j.events

\* verify_event_profile and verify_checkpoint_inclusion: the row is the profile of
\* the latest event, and the latest checkpoint covers the whole loaded log.
Proved(j) ==
    /\ HasHistory(j.events, j.id)
    /\ Latest(j.events, j.id).profile = j.existing
    /\ Latest(j.events, j.id).key = j.existing.key
    /\ j.checkpoints # <<>>
    /\ VerifyCheckpoint(LatestCheckpoint(j))
    /\ LatestCheckpoint(j).root = j.events

\* Mutant: only the size is compared with the pin.
ExtendsPin_SizeOnly(j) == pins # None => LatestCheckpoint(j).size >= pins.size

ExtendsPin(j) ==
    pins # None =>
        LET c == LatestCheckpoint(j) IN
        VerifyCheckpointTransition(pins, c, Consistency(j.events, pins.size, c.size))

CheckPin(h) ==
    /\ At(h, "loaded", "resolve")
    /\ stage[h] = "none"
    /\ Proved(job[h])
    /\ ExtendsPin(job[h])
    /\ stage' = [stage EXCEPT ![h] = "pin"]
    /\ UNCHANGED <<vars, pins, tmp, answers, stale, raced>>

ResolveRejects(h) ==
    /\ At(h, "loaded", "resolve")
    /\ stage[h] = "none"
    /\ ~(Proved(job[h]) /\ ExtendsPin(job[h]))
    /\ Fail(h)
    /\ UNCHANGED <<db, clock, pinVars>>

--------------------------------------------------------------------------------
(* pin_verified *)

\* Of the pin it loads again only the operator is compared.
MayReplace(p, c) ==
    c.operator # p.operator =>
        /\ c.rotated_from = p.operator
        /\ c.prev = HashOf(p)
        /\ c.operator_sequence = p.operator_sequence + 1

LoadPin(h) ==
    /\ stage[h] = "pin"
    /\ pins # None => MayReplace(pins, LatestCheckpoint(job[h]))
    /\ stage' = [stage EXCEPT ![h] = "write"]
    /\ UNCHANGED <<vars, pins, tmp, answers, stale, raced>>

\* The operator of the pin has changed meanwhile, the temporary file cannot be
\* written, or another resolver has renamed it.
PinFails(h) ==
    /\ \/ stage[h] = "pin" /\ pins # None /\ ~MayReplace(pins, LatestCheckpoint(job[h]))
       \/ stage[h] = "write"
       \/ stage[h] = "rename" /\ tmp = None
    /\ stage' = [stage EXCEPT ![h] = "none"]
    /\ Fail(h)
    /\ stale' = stale \ {h}
    /\ UNCHANGED <<db, clock, pins, tmp, answers, raced>>

\* PinnedCheckpoint: the pin keeps no anchor.
PinOf(c) == [c EXCEPT !.anchor = NoHash]

\* Mutant: the pin has no operator.
WriteTmp_NoOperator(h) ==
    /\ stage[h] = "write"
    /\ tmp' = [size |-> LatestCheckpoint(job[h]).size, root |-> LatestCheckpoint(job[h]).root]
    /\ stage' = [stage EXCEPT ![h] = "rename"]
    /\ stale' = stale \cup {g \in Resolvers \ {h} : stage[g] = "rename"}
    /\ UNCHANGED <<vars, pins, answers, raced>>

WriteTmp(h) ==
    /\ stage[h] = "write"
    /\ tmp' = PinOf(LatestCheckpoint(job[h]))
    /\ stage' = [stage EXCEPT ![h] = "rename"]
    /\ stale' = stale \cup {g \in Resolvers \ {h} : stage[g] = "rename"}
    /\ UNCHANGED <<vars, pins, answers, raced>>

\* Mutant: the answer does not wait for the rename.
RenameTmp_Unsaved(h) ==
    /\ stage[h] = "rename"
    /\ answers' = answers \cup {AnswerOf(job[h])}
    /\ stage' = [stage EXCEPT ![h] = "none"]
    /\ Fail(h)
    /\ UNCHANGED <<db, clock, pins, tmp, stale, raced>>

\* The answer follows, unless the identifier's attestation does not verify.
RenameTmp(h) ==
    /\ stage[h] = "rename"
    /\ tmp # None
    /\ pins' = tmp
    /\ tmp' = None
    /\ answers' \in {answers, answers \cup {AnswerOf(job[h])}}
    /\ stage' = [stage EXCEPT ![h] = "none"]
    /\ Fail(h)
    /\ stale' = {g \in Resolvers \ {h} : stage[g] # "none"}
    /\ raced' = (raced \/ h \in stale)
    /\ UNCHANGED <<db, clock>>

--------------------------------------------------------------------------------
(* The environment *)

\* The daemon dies with all its handlers; the files stay.
Die ==
    /\ Crash
    /\ stage' = [h \in Resolvers |-> "none"]
    /\ stale' = {}
    /\ UNCHANGED <<pins, tmp, answers, raced>>

RowsOf(log) ==
    [id \in Ids |-> IF HasHistory(log, id) THEN Latest(log, id).profile ELSE None]

\* While the daemon is down its database is replaced by one of n events ago.
Restore(n) ==
    /\ \A h \in Handlers : job[h].pc = "idle"
    /\ n < Len(events) /\ n < Len(checkpoints)
    /\ events' = Prefix(events, n)
    /\ checkpoints' = Prefix(checkpoints, n)
    /\ profiles' = RowsOf(Prefix(events, n))
    /\ operator_state' = IF n = 0 THEN [operator |-> None, sequence |-> 0]
                         ELSE [operator |-> checkpoints[n].operator,
                               sequence |-> checkpoints[n].operator_sequence]
    /\ anchors' = {a \in anchors : Len(a) <= n}
    /\ UNCHANGED <<job, clock, pinVars>>

ResolverStep(h) ==
    \/ \E id \in Ids : BeginResolve(h, id)
    \/ Load(h)
    \/ CheckPin(h)
    \/ ResolveRejects(h)
    \/ LoadPin(h)
    \/ PinFails(h)
    \/ WriteTmp(h)
    \/ RenameTmp(h)

ResolutionNext ==
    \/ \E h \in Resolvers : ResolverStep(h)
    \/ \E h \in Handlers \ Resolvers : HandlerStep(h) /\ UNCHANGED pinVars
    \/ Die
    \/ \E n \in 0..MaxEvents : Restore(n)

ResolutionSpec == ResolutionInit /\ [][ResolutionNext]_resolutionVars

--------------------------------------------------------------------------------
(* Properties *)

\* An answer is proved by its checkpoint: the profile is that of the latest event
\* of its name in exactly the log the checkpoint commits to, although row and log
\* are read in four statements while publishers commit (resolve_profile).
AnswerIsProved ==
    \A a \in answers :
        /\ HasHistory(a.log, a.id)
        /\ Latest(a.log, a.id).profile = a.profile

\* Whatever was answered is in the log of the durable pin: no crash between the
\* check, the temporary file, the rename and the answer, and no restored database,
\* leaves an answer the next resolution would not be held to, however resolutions
\* overlap, until one pins over a pin it has not checked (pin_verified).
AnsweredIsPinned ==
    raced \/ \A a \in answers : pins # None /\ IsPrefix(a.log, pins.root)

\* A client never sees two branches: the logs of any two answers agree, whatever
\* the database was put back to in between (verify_checkpoint_transition).
AnswersAgree ==
    \A a, b \in answers :
        \/ IsPrefix(a.log, b.log)
        \/ IsPrefix(b.log, a.log)

\* The overlap of two resolutions is all that can show a client two branches, and
\* only by one of them pinning over a pin the other has moved since the check
\* (resolve_profile, pin_verified).
BranchesNeedARace == raced \/ AnswersAgree

================================================================================
