-------------------------------- MODULE Witness --------------------------------
(***************************************************************************)
(* The checkpoint witnesses and the quorum policy of a client              *)
(* (satspath-witness/src/lib.rs, transparency/resolver.rs).                *)
(*                                                                         *)
(* A log operator, honest or not, offers signed checkpoints of one log to  *)
(* N witnesses.  process_checkpoint reads the durable pin, checks the      *)
(* checkpoint against it, saves the new pin (FilePinStore: a temporary     *)
(* file, then a rename) and cosigns.  A witness may serve several calls at *)
(* once and may crash between any two of these steps.  A faulty witness    *)
(* cosigns anything.  A client accepts a checkpoint that K of the          *)
(* authorised witnesses cosigned.                                          *)
(*                                                                         *)
(* Abstractions.  A Merkle root is the sequence of its leaves, a           *)
(* cosignature is the fact that it was made, and a consistency proof       *)
(* exists between two trees when the older one is a prefix of the newer.   *)
(***************************************************************************)
EXTENDS Integers, Sequences, SequencesExt, FiniteSets

CONSTANTS
    Witnesses,    \* the authorised witnesses of the policy
    Faulty,       \* those that are compromised
    K,            \* required_quorum
    Calls,        \* the calls of process_checkpoint a witness may serve at once
    Leaves,       \* leaf hashes
    Maps,         \* state map roots
    Checkpoints,  \* the checkpoints the operator signs
    MaxTime,      \* bound on the wall clock, in seconds
    None          \* an absent value

Checkpoint == [root : Seq(Leaves), map : Maps]

ASSUME WitnessAssumption ==
    /\ IsFiniteSet(Witnesses)
    /\ Faulty \subseteq Witnesses
    /\ K \in Nat \ {0}
    /\ MaxTime \in Nat
    /\ None \notin Checkpoint
    /\ \A c \in Checkpoints : c \in Checkpoint

VARIABLES
    pin,            \* pins/<log>.json of each witness
    tmp,            \* pins/<log>.tmp
    equivocations,  \* the files of equivocations/
    call,           \* the calls under way
    cosigned,       \* the cosignatures handed out
    now,            \* Utc::now().timestamp()
    \* History: the calls of each witness whose check no longer stands, because another
    \* call has replaced the pin or their temporary file since, and the witnesses where
    \* one of them has saved its pin all the same.
    stale,
    raced

history == <<stale, raced>>
vars == <<pin, tmp, equivocations, call, cosigned, now, history>>

Honest == Witnesses \ Faulty

PC == {"idle", "get_pin", "write", "rename", "cosign"}

Call == [pc : PC, checkpoint : Checkpoint \cup {None}]

IdleCall == [pc |-> "idle", checkpoint |-> None]

EquivocationRecord ==
    [first_seen : Checkpoint, conflicting : Checkpoint, detected_at : Nat]

TypeOK ==
    /\ pin \in [Witnesses -> Checkpoint \cup {None}]
    /\ tmp \in [Witnesses -> Checkpoint \cup {None}]
    /\ equivocations \in [Witnesses -> SUBSET EquivocationRecord]
    /\ call \in [Witnesses -> [Calls -> Call]]
    /\ cosigned \in [Witnesses -> SUBSET Checkpoint]
    /\ now \in Nat
    /\ stale \in [Witnesses -> SUBSET Calls]
    /\ raced \in SUBSET Witnesses

Init ==
    /\ pin = [w \in Witnesses |-> None]
    /\ tmp = [w \in Witnesses |-> None]
    /\ equivocations = [w \in Witnesses |-> {}]
    /\ call = [w \in Witnesses |-> [r \in Calls |-> IdleCall]]
    /\ cosigned = [w \in Witnesses |-> {}]
    /\ now = 0
    /\ stale = [w \in Witnesses |-> {}]
    /\ raced = {}

--------------------------------------------------------------------------------
(* process_checkpoint *)

Size(c) == Len(c.root)

Goto(w, r, pc) == call' = [call EXCEPT ![w][r].pc = pc]

Return(w, r) == call' = [call EXCEPT ![w][r] = IdleCall]

\* The operator's signature and a size above zero: verify_checkpoint.
Submit(w, r, c) ==
    /\ call[w][r].pc = "idle"
    /\ Size(c) > 0
    /\ call' = [call EXCEPT ![w][r] = [pc |-> "get_pin", checkpoint |-> c]]
    /\ UNCHANGED <<pin, tmp, equivocations, cosigned, now, history>>

\* c passes the checks against the pin p, given the right proof.
Acceptable(p, c) ==
    p # None => \/ Size(c) = Size(p) /\ c.root = p.root
                \/ Size(c) > Size(p) /\ IsPrefix(p.root, c.root)

\* Mutant: the cosignature is made before the pin is saved.
Check_CosignFirst(w, r) ==
    /\ call[w][r].pc = "get_pin"
    /\ Acceptable(pin[w], call[w][r].checkpoint)
    /\ cosigned' = [cosigned EXCEPT ![w] = @ \cup {call[w][r].checkpoint}]
    /\ Goto(w, r, "write")
    /\ UNCHANGED <<pin, tmp, equivocations, now, history>>

Check(w, r) ==
    /\ call[w][r].pc = "get_pin"
    /\ Acceptable(pin[w], call[w][r].checkpoint)
    /\ Goto(w, r, "write")
    /\ UNCHANGED <<pin, tmp, equivocations, cosigned, now, history>>

\* A smaller tree, or a larger one with a missing or wrong consistency proof.
Reject(w, r) ==
    /\ call[w][r].pc = "get_pin"
    /\ pin[w] # None
    /\ Size(call[w][r].checkpoint) # Size(pin[w])
    /\ Return(w, r)
    /\ UNCHANGED <<pin, tmp, equivocations, cosigned, now, history>>

\* Mutant: the record misses the pinned state.
Record_NoPin(records, p, c, at) ==
    records \cup {[first_seen |-> None, conflicting |-> c, detected_at |-> at]}

\* record_equivocation: the file is named after the size and the second, and
\* takes the place of a file with that name.
Record(records, p, c, at) ==
    {e \in records : Size(e.conflicting) # Size(c) \/ e.detected_at # at}
    \cup {[first_seen |-> p, conflicting |-> c, detected_at |-> at]}

Equivocation(w, r) ==
    LET c == call[w][r].checkpoint IN
    /\ call[w][r].pc = "get_pin"
    /\ pin[w] # None
    /\ Size(c) = Size(pin[w])
    /\ c.root # pin[w].root
    /\ equivocations' = [equivocations EXCEPT ![w] = Record(@, pin[w], c, now)]
    /\ Return(w, r)
    /\ UNCHANGED <<pin, tmp, cosigned, now, history>>

\* The calls of w that are at one of these points.
Saving(w, pcs) == {r \in Calls : call[w][r].pc \in pcs}

\* save_pin: every call for this log writes the same temporary file.
WritePin(w, r) ==
    /\ call[w][r].pc = "write"
    /\ tmp' = [tmp EXCEPT ![w] = call[w][r].checkpoint]
    /\ Goto(w, r, "rename")
    /\ stale' = [stale EXCEPT ![w] = @ \cup (Saving(w, {"rename"}) \ {r})]
    /\ UNCHANGED <<pin, equivocations, cosigned, now, raced>>

RenamePin(w, r) ==
    /\ call[w][r].pc = "rename"
    /\ tmp[w] # None
    /\ pin' = [pin EXCEPT ![w] = tmp[w]]
    /\ tmp' = [tmp EXCEPT ![w] = None]
    /\ Goto(w, r, "cosign")
    /\ stale' = [stale EXCEPT ![w] = Saving(w, {"write", "rename"}) \ {r}]
    /\ raced' = IF r \in stale[w] THEN raced \cup {w} ELSE raced
    /\ UNCHANGED <<equivocations, cosigned, now>>

\* Mutant: an error of the rename goes unnoticed.
RenameFails_Unnoticed(w, r) ==
    /\ call[w][r].pc = "rename"
    /\ tmp[w] = None
    /\ Goto(w, r, "cosign")
    /\ UNCHANGED <<pin, tmp, equivocations, cosigned, now, history>>

\* Another call renamed the temporary file first.
RenameFails(w, r) ==
    /\ call[w][r].pc = "rename"
    /\ tmp[w] = None
    /\ Return(w, r)
    /\ stale' = [stale EXCEPT ![w] = @ \ {r}]
    /\ UNCHANGED <<pin, tmp, equivocations, cosigned, now, raced>>

Cosign(w, r) ==
    /\ call[w][r].pc = "cosign"
    /\ cosigned' = [cosigned EXCEPT ![w] = @ \cup {call[w][r].checkpoint}]
    /\ Return(w, r)
    /\ UNCHANGED <<pin, tmp, equivocations, now, history>>

--------------------------------------------------------------------------------
(* The environment *)

\* The witness process dies; its files stay.
Crash(w) ==
    /\ \E r \in Calls : call[w][r].pc # "idle"
    /\ call' = [call EXCEPT ![w] = [r \in Calls |-> IdleCall]]
    /\ stale' = [stale EXCEPT ![w] = {}]
    /\ UNCHANGED <<pin, tmp, equivocations, cosigned, now, raced>>

\* A compromised witness signs what the operator asks for.
Collude(w, c) ==
    /\ cosigned' = [cosigned EXCEPT ![w] = @ \cup {c}]
    /\ UNCHANGED <<pin, tmp, equivocations, call, now, history>>

Tick ==
    /\ now < MaxTime
    /\ now' = now + 1
    /\ UNCHANGED <<pin, tmp, equivocations, call, cosigned, history>>

CallStep(w, r) ==
    \/ \E c \in Checkpoints : Submit(w, r, c)
    \/ Check(w, r)
    \/ Reject(w, r)
    \/ Equivocation(w, r)
    \/ WritePin(w, r)
    \/ RenamePin(w, r)
    \/ RenameFails(w, r)
    \/ Cosign(w, r)

Next ==
    \/ \E w \in Honest : Crash(w) \/ \E r \in Calls : CallStep(w, r)
    \/ \E w \in Faulty, c \in Checkpoints : Collude(w, c)
    \/ Tick

Spec == Init /\ [][Next]_vars

--------------------------------------------------------------------------------
(* The client *)

Cosigners(c) == {w \in Witnesses : c \in cosigned[w]}

\* Mutant: one cosignature less is enough.
VerifyQuorum_OffByOne(c) == Cardinality(Cosigners(c)) + 1 >= K

\* verify_quorum: K distinct authorised witnesses signed this checkpoint.
VerifyQuorum(c) == Cardinality(Cosigners(c)) >= K

--------------------------------------------------------------------------------
(* Properties *)

\* Everything an honest witness ever cosigned lies on one history, the one its
\* durable pin extends, however many calls of process_checkpoint it serves at once
\* and whatever crashes interrupt them, until a call saves its pin over one that it
\* has not checked.
CosignedIsPinned ==
    \A w \in Honest \ raced :
        \A c \in cosigned[w] : pin[w] # None /\ IsPrefix(c.root, pin[w].root)

\* No two checkpoints that clients accept are on different branches, as long as the
\* witnesses that are compromised, or where calls have raced, are fewer than any two
\* quorums share.
NoSplitView ==
    Cardinality(Faulty \cup raced) < 2 * K - Cardinality(Witnesses) =>
        \A c, d \in Checkpoints :
            VerifyQuorum(c) /\ VerifyQuorum(d)
                => IsPrefix(c.root, d.root) \/ IsPrefix(d.root, c.root)

================================================================================
