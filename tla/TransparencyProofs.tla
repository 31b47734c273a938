-------------------------- MODULE TransparencyProofs ---------------------------
(***************************************************************************)
(* Machine-checked proofs about the transparency log, its store and the    *)
(* resolution of names, for every set of names, keys, operators, handlers  *)
(* and resolvers and every bound.  Three parts: the pure operators of      *)
(* TransparencyLog (prefixes, hashes, histories, checkpoint chains), the   *)
(* store with its handlers, the resolvers with their pin.                  *)
(***************************************************************************)
EXTENDS Resolution, CommonLemmas

\* a and b agree on everything their hash commits to.
SameHash(a, b) == HashOf(a) = HashOf(b)

--------------------------------------------------------------------------------
(* Sequences *)

\* The first n elements do not change when an element is appended.
LEMMA PrefixOfAppend ==
    ASSUME NEW S, NEW s \in Seq(S), NEW e \in S, NEW n \in 0..Len(s)
    PROVE  Prefix(Append(s, e), n) = Prefix(s, n)
  BY DEF Prefix

\* All elements of a sequence are the sequence.
LEMMA PrefixFull ==
    ASSUME NEW S, NEW s \in Seq(S)
    PROVE  Prefix(s, Len(s)) = s
  BY DEF Prefix

\* A prefix of a sequence is a sequence over the same set.
LEMMA PrefixType ==
    ASSUME NEW S, NEW s \in Seq(S), NEW n \in 0..Len(s)
    PROVE  /\ Prefix(s, n) \in Seq(S)
           /\ Len(Prefix(s, n)) = n
           /\ \A i \in 1..n : Prefix(s, n)[i] = s[i]
  BY DEF Prefix

--------------------------------------------------------------------------------
(* Hashes *)

\* The hash of an event is a chain of cores.
LEMMA SignedEventHashType ==
    ASSUME NEW e \in NameEvent
    PROVE  SignedEventHash(e) \in EventHash
  BY DEF NameEvent, EventHash, EventCore, SignedEventHash

\* The hash of a checkpoint is a chain of cores; its last link is the checkpoint's own.
LEMMA HashOfType ==
    ASSUME NEW c \in Checkpoint
    PROVE  /\ HashOf(c) \in CheckpointHash
           /\ HashOf(c) # NoHash
           /\ HashOf(c)[Len(HashOf(c))].created_at = c.created_at
<1> DEFINE core == [size |-> c.size, root |-> c.root, map |-> c.map,
                    created_at |-> c.created_at, operator |-> c.operator,
                    operator_sequence |-> c.operator_sequence,
                    rotated_from |-> c.rotated_from]
<1>1. core \in CheckpointCore /\ c.prev \in Seq(CheckpointCore)
  BY DEF Checkpoint, CheckpointCore, CheckpointHash
<1>2. HashOf(c) = Append(c.prev, core)
  BY DEF HashOf
<1>3. core.created_at = c.created_at
  OBVIOUS
<1> HIDE DEF core
<1>4. Append(c.prev, core) \in Seq(CheckpointCore)
      /\ Len(Append(c.prev, core)) = Len(c.prev) + 1
      /\ Append(c.prev, core)[Len(c.prev) + 1] = core
  BY <1>1, AppendProperties
<1>5. Append(c.prev, core) # <<>>
  BY <1>4, <1>1
<1> QED BY <1>2, <1>3, <1>4, <1>5 DEF CheckpointHash, NoHash

\* Two checkpoints with one hash differ at most in signature and anchor.
LEMMA HashInjective ==
    ASSUME NEW a \in Checkpoint, NEW b \in Checkpoint, SameHash(a, b)
    PROVE  /\ a.size = b.size /\ a.root = b.root /\ a.map = b.map
           /\ a.created_at = b.created_at /\ a.operator = b.operator
           /\ a.operator_sequence = b.operator_sequence
           /\ a.rotated_from = b.rotated_from /\ a.prev = b.prev
<1> DEFINE core(c) == [size |-> c.size, root |-> c.root, map |-> c.map,
                       created_at |-> c.created_at, operator |-> c.operator,
                       operator_sequence |-> c.operator_sequence,
                       rotated_from |-> c.rotated_from]
<1>1. \A c \in Checkpoint : core(c) \in CheckpointCore /\ c.prev \in Seq(CheckpointCore)
  BY DEF Checkpoint, CheckpointCore, CheckpointHash
<1>2. Append(a.prev, core(a)) = Append(b.prev, core(b))
  BY DEF SameHash, HashOf
<1>3. a.prev = b.prev /\ core(a) = core(b)
  <2> DEFINE ca == core(a)
             cb == core(b)
  <2>1. ca \in CheckpointCore /\ cb \in CheckpointCore
        /\ a.prev \in Seq(CheckpointCore) /\ b.prev \in Seq(CheckpointCore)
    BY <1>1
  <2>2. Append(a.prev, ca) = Append(b.prev, cb)
    BY <1>2
  <2> HIDE DEF ca, cb
  <2>3. a.prev = b.prev /\ ca = cb
    BY <2>1, <2>2, AppendInjective
  <2> QED BY <2>3 DEF ca, cb
<1> QED BY <1>3

--------------------------------------------------------------------------------
(* Histories *)

\* A name with a history has a latest event.
LEMMA LatestExists ==
    ASSUME NEW log \in Seq(NameEvent), NEW id, HasHistory(log, id)
    PROVE  \E i \in 1..Len(log) : IsLatest(log, id, i)
<1> DEFINE I == {i \in 1..Len(log) : log[i].id = id}
<1>1. I # {} /\ Len(log) \in Nat
  BY LenProperties DEF HasHistory
<1>2. PICK i \in I : \A j \in I : j <= i
  BY <1>1, LastIndex
<1> QED BY <1>2 DEF IsLatest

\* The latest event is an event of the name, and no index is later.
LEMMA LatestIsLatest ==
    ASSUME NEW log \in Seq(NameEvent), NEW id, HasHistory(log, id)
    PROVE  /\ Latest(log, id) \in NameEvent
           /\ \E i \in 1..Len(log) : IsLatest(log, id, i) /\ Latest(log, id) = log[i]
<1>1. \E i \in 1..Len(log) : IsLatest(log, id, i)
  BY LatestExists
<1> DEFINE n == CHOOSE i \in 1..Len(log) : IsLatest(log, id, i)
<1>2. n \in 1..Len(log) /\ IsLatest(log, id, n)
  BY <1>1
<1>3. Latest(log, id) = log[n]
  BY DEF Latest
<1> HIDE DEF n
<1>4. log[n] \in NameEvent
  BY <1>2
<1> QED BY <1>2, <1>3, <1>4

\* Only one index is the latest.
LEMMA LatestUnique ==
    ASSUME NEW log \in Seq(NameEvent), NEW id, NEW i \in 1..Len(log), IsLatest(log, id, i)
    PROVE  HasHistory(log, id) /\ Latest(log, id) = log[i]
<1>1. HasHistory(log, id)
  BY DEF HasHistory, IsLatest
<1>2. PICK k \in 1..Len(log) : IsLatest(log, id, k) /\ Latest(log, id) = log[k]
  BY <1>1, LatestIsLatest
<1>3. k = i
  BY <1>2 DEF IsLatest
<1> QED BY <1>1, <1>2, <1>3

\* The appended event is the latest of its own name.
LEMMA LatestOfAppendSame ==
    ASSUME NEW log \in Seq(NameEvent), NEW e \in NameEvent
    PROVE  HasHistory(Append(log, e), e.id) /\ Latest(Append(log, e), e.id) = e
<1> DEFINE n == Len(log) + 1
<1>1. Append(log, e) \in Seq(NameEvent) /\ Len(Append(log, e)) = n /\ Append(log, e)[n] = e
  OBVIOUS
<1>2. IsLatest(Append(log, e), e.id, n)
  BY <1>1 DEF IsLatest
<1>3. n \in 1..Len(Append(log, e))
  BY <1>1
<1> QED BY <1>1, <1>2, <1>3, LatestUnique

\* Appending an event leaves the history of every other name alone.
LEMMA LatestOfAppendOther ==
    ASSUME NEW log \in Seq(NameEvent), NEW e \in NameEvent, NEW id, id # e.id
    PROVE  /\ HasHistory(Append(log, e), id) <=> HasHistory(log, id)
           /\ HasHistory(log, id) => Latest(Append(log, e), id) = Latest(log, id)
<1>1. /\ Append(log, e) \in Seq(NameEvent)
      /\ Len(Append(log, e)) = Len(log) + 1
      /\ Append(log, e)[Len(log) + 1] = e
      /\ \A i \in 1..Len(log) : Append(log, e)[i] = log[i]
  OBVIOUS
<1>2. HasHistory(Append(log, e), id) <=> HasHistory(log, id)
  BY <1>1 DEF HasHistory
<1>3. ASSUME HasHistory(log, id)
      PROVE  Latest(Append(log, e), id) = Latest(log, id)
  <2>1. PICK i \in 1..Len(log) : IsLatest(log, id, i) /\ Latest(log, id) = log[i]
    BY <1>3, LatestIsLatest
  <2>2. IsLatest(Append(log, e), id, i) /\ i \in 1..Len(Append(log, e))
    BY <1>1, <2>1 DEF IsLatest
  <2> QED BY <1>1, <2>1, <2>2, LatestUnique
<1> QED BY <1>2, <1>3

\* A sound log followed by an event that continues its history is sound.
LEMMA HistoriesAppend ==
    ASSUME NEW log \in Seq(NameEvent), NEW e \in NameEvent,
           VerifyHistories(log), VerifyNext(log, e)
    PROVE  VerifyHistories(Append(log, e))
<1> DEFINE new == Append(log, e)
<1>1. /\ Len(new) = Len(log) + 1
      /\ new[Len(log) + 1] = e
      /\ \A i \in 1..Len(log) : new[i] = log[i]
  OBVIOUS
<1>2. \A i \in 1..(Len(log) + 1) : Prefix(new, i - 1) = Prefix(log, i - 1)
  BY PrefixOfAppend
<1>3. Prefix(new, Len(log)) = log
  BY PrefixOfAppend, PrefixFull
<1> HIDE DEF new
<1>4. ASSUME NEW i \in 1..Len(new)
      PROVE  VerifyNext(Prefix(new, i - 1), new[i])
  <2>1. CASE i = Len(log) + 1
    BY <2>1, <1>1, <1>3
  <2>2. CASE i # Len(log) + 1
    <3>1. i \in 1..Len(log)
      BY <2>2, <1>1
    <3> QED BY <3>1, <1>1, <1>2 DEF VerifyHistories
  <2> QED BY <2>1, <2>2
<1>5. VerifyHistories(new)
  BY <1>4 DEF VerifyHistories
<1> QED BY <1>5 DEF new

--------------------------------------------------------------------------------
(* Checkpoint chains *)

\* A transition looks at its predecessor only through the hash.
LEMMA TransitionSameHash ==
    ASSUME NEW p \in Checkpoint, NEW q \in Checkpoint, NEW c \in Checkpoint, NEW proof,
           SameHash(p, q), VerifyCheckpointTransition(p, c, proof)
    PROVE  VerifyCheckpointTransition(q, c, proof)
<1>1. /\ p.size = q.size /\ p.root = q.root /\ p.operator = q.operator
      /\ p.operator_sequence = q.operator_sequence
      /\ HashOf(p) = HashOf(q)
  BY HashInjective DEF SameHash
<1> QED BY <1>1 DEF VerifyCheckpointTransition, OperatorContinuity

\* A checkpoint that is sound against a log is sound against a longer one.
LEMMA AgainstLogGrows ==
    ASSUME NEW log \in Seq(NameEvent), NEW e \in NameEvent, NEW c \in Checkpoint,
           VerifyAgainstLog(log, c)
    PROVE  VerifyAgainstLog(Append(log, e), c)
<1>1. c.size \in 0..Len(log)
  BY DEF VerifyAgainstLog, Checkpoint
<1>2. Prefix(Append(log, e), c.size) = Prefix(log, c.size)
  BY <1>1, PrefixOfAppend
<1> QED BY <1>1, <1>2 DEF VerifyAgainstLog

\* A link of the chain that is sound over a log is sound over a longer one.
LEMMA SuccessorGrows ==
    ASSUME NEW log \in Seq(NameEvent), NEW e \in NameEvent,
           NEW p \in Checkpoint, NEW c \in Checkpoint,
           p.size <= Len(log), c.size <= Len(log), VerifySuccessor(log, p, c)
    PROVE  VerifySuccessor(Append(log, e), p, c)
<1>1. p.size \in 0..Len(log) /\ c.size \in 0..Len(log)
  BY DEF Checkpoint
<1>2. Consistency(Append(log, e), p.size, c.size) = Consistency(log, p.size, c.size)
  BY <1>1, PrefixOfAppend DEF Consistency
<1> QED BY <1>2 DEF VerifySuccessor

\* The numbering of the chains the store builds: one checkpoint per event.
Numbered(cps) == \A i \in 1..Len(cps) : cps[i].size = i

\* A sound numbered chain followed by a checkpoint that covers one more event
\* and continues it is a sound chain over the longer log.
LEMMA ChainAppend ==
    ASSUME NEW log \in Seq(NameEvent), NEW e \in NameEvent,
           NEW cps \in Seq(Checkpoint), NEW c \in Checkpoint,
           VerifyChain(log, cps), Numbered(cps), Len(cps) = Len(log),
           c.size = Len(log) + 1, c.root = Append(log, e), c.anchor = NoHash,
           VerifyCheckpoint(c),
           cps = <<>> => c.prev = NoHash /\ c.operator_sequence = 0,
           cps # <<>> => VerifySuccessor(Append(log, e), cps[Len(cps)], c)
    PROVE  VerifyChain(Append(log, e), Append(cps, c)) /\ Numbered(Append(cps, c))
<1> DEFINE L == Append(log, e)
           C == Append(cps, c)
<1>1. /\ L \in Seq(NameEvent) /\ Len(L) = Len(log) + 1
      /\ Len(C) = Len(cps) + 1 /\ C[Len(cps) + 1] = c
      /\ \A i \in 1..Len(cps) : C[i] = cps[i] /\ C[i] \in Checkpoint
  OBVIOUS
<1>2. Prefix(L, c.size) = L
  BY <1>1, PrefixFull
<1>3. \A i \in 1..Len(C) : C[i].size = i
  BY <1>1 DEF Numbered
<1>4. VerifyAgainstLog(L, c)
  BY <1>1, <1>2 DEF VerifyAgainstLog
<1>5. ASSUME NEW i \in 1..Len(cps) PROVE VerifyAgainstLog(L, C[i])
  <2>1. VerifyAgainstLog(log, cps[i])
    BY DEF VerifyChain
  <2> QED BY <2>1, <1>1, AgainstLogGrows
<1>6. ASSUME NEW i \in 1..Len(cps), i # 1 PROVE VerifySuccessor(L, C[i - 1], C[i])
  <2>1. i - 1 \in 1..Len(cps) /\ cps[i - 1] \in Checkpoint /\ cps[i] \in Checkpoint
    BY <1>6
  <2>2. VerifySuccessor(log, cps[i - 1], cps[i])
    BY <1>6 DEF VerifyChain
  <2>3. cps[i - 1].size <= Len(log) /\ cps[i].size <= Len(log)
    BY <2>1 DEF Numbered
  <2> QED BY <2>1, <2>2, <2>3, <1>1, SuccessorGrows
<1> HIDE DEF L, C
<1>7. ASSUME NEW i \in 1..Len(C)
      PROVE  /\ VerifyAgainstLog(L, C[i])
             /\ \A j \in 1..(i - 1) : C[j].size = C[i].size => HashOf(C[j]) = HashOf(C[i])
             /\ IF i = 1 THEN C[i].prev = NoHash /\ C[i].operator_sequence = 0
                         ELSE VerifySuccessor(L, C[i - 1], C[i])
  <2>1. \A j \in 1..(i - 1) : C[j].size # C[i].size
    BY <1>3
  <2>2. CASE i \in 1..Len(cps)
    <3>1. i = 1 => C[i].prev = NoHash /\ C[i].operator_sequence = 0
      BY <2>2, <1>1 DEF VerifyChain
    <3> QED BY <2>1, <2>2, <3>1, <1>5, <1>6
  <2>3. CASE i = Len(cps) + 1
    <3>1. CASE cps = <<>>
      BY <2>1, <2>3, <3>1, <1>1, <1>4
    <3>2. CASE cps # <<>>
      <4>1. i # 1 /\ i - 1 = Len(cps) /\ Len(cps) \in 1..Len(cps)
        BY <2>3, <3>2, EmptySeq
      <4>2. VerifySuccessor(L, C[i - 1], C[i])
        BY <4>1, <3>2, <2>3, <1>1 DEF L
      <4> QED BY <2>1, <2>3, <4>1, <4>2, <1>1, <1>4
    <3> QED BY <3>1, <3>2
  <2> QED BY <2>2, <2>3, <1>1
<1>8. VerifyChain(L, C) /\ Numbered(C)
  BY <1>3, <1>7 DEF VerifyChain, Numbered
<1> QED BY <1>8 DEF L, C

\* Replacing the last checkpoint of a sound numbered chain by an anchored copy
\* with the same hash keeps the chain sound.
LEMMA ChainReplaceLast ==
    ASSUME NEW log \in Seq(NameEvent), NEW cps \in Seq(Checkpoint), NEW c \in Checkpoint,
           cps # <<>>, VerifyChain(log, cps), Numbered(cps),
           SameHash(c, cps[Len(cps)]), VerifyCheckpoint(c), c.anchor = HashOf(c)
    PROVE  /\ VerifyChain(log, [cps EXCEPT ![Len(cps)] = c])
           /\ Numbered([cps EXCEPT ![Len(cps)] = c])
<1> DEFINE n == Len(cps)
           C == [cps EXCEPT ![n] = c]
<1>1. n \in 1..Len(cps) /\ cps[n] \in Checkpoint
  BY EmptySeq
<1>2. /\ Len(C) = n /\ C[n] = c
      /\ \A i \in 1..n : i # n => C[i] = cps[i]
      /\ \A i \in 1..n : C[i] \in Checkpoint
  BY <1>1
<1>3. /\ c.size = cps[n].size /\ c.root = cps[n].root /\ c.created_at = cps[n].created_at
      /\ c.operator = cps[n].operator /\ c.prev = cps[n].prev
      /\ c.operator_sequence = cps[n].operator_sequence
      /\ c.rotated_from = cps[n].rotated_from
  BY <1>1, HashInjective
<1>4. \A i \in 1..n : C[i].size = i
  BY <1>1, <1>2, <1>3 DEF Numbered
<1>5. VerifyAgainstLog(log, c)
  <2>1. VerifyAgainstLog(log, cps[n])
    BY <1>1 DEF VerifyChain
  <2> QED BY <2>1, <1>3 DEF VerifyAgainstLog
<1>6. n = 1 => c.prev = NoHash /\ c.operator_sequence = 0
  BY <1>1, <1>3 DEF VerifyChain
<1>7. ASSUME n # 1 PROVE VerifySuccessor(log, cps[n - 1], c)
  <2>1. VerifySuccessor(log, cps[n - 1], cps[n])
    BY <1>1, <1>7 DEF VerifyChain
  <2> QED BY <2>1, <1>3 DEF VerifySuccessor, VerifyCheckpointTransition, OperatorContinuity
<1> HIDE DEF C, n
<1>8. ASSUME NEW i \in 1..n
      PROVE  /\ VerifyAgainstLog(log, C[i])
             /\ \A j \in 1..(i - 1) : C[j].size = C[i].size => HashOf(C[j]) = HashOf(C[i])
             /\ IF i = 1 THEN C[i].prev = NoHash /\ C[i].operator_sequence = 0
                         ELSE VerifySuccessor(log, C[i - 1], C[i])
  <2>1. \A j \in 1..(i - 1) : C[j].size # C[i].size
    BY <1>4, <1>1 DEF n
  <2>2. CASE i = n
    <3>1. i # 1 => C[i - 1] = cps[n - 1]
      BY <2>2, <1>2, <1>1 DEF n
    <3> QED BY <2>1, <2>2, <3>1, <1>2, <1>5, <1>6, <1>7
  <2>3. CASE i # n
    <3>1. i \in 1..Len(cps) /\ C[i] = cps[i] /\ (i # 1 => C[i - 1] = cps[i - 1])
      BY <2>3, <1>2, <1>1 DEF n
    <3> QED BY <2>1, <3>1 DEF VerifyChain
  <2> QED BY <2>2, <2>3
<1>9. VerifyChain(log, C) /\ Numbered(C)
  BY <1>2, <1>4, <1>8 DEF VerifyChain, Numbered
<1> QED BY <1>9 DEF C, n

--------------------------------------------------------------------------------
(* What the handlers prepare *)

\* The state map of a log maps every name to a hash.
LEMMA StateMapOfType ==
    ASSUME NEW log \in Seq(NameEvent)
    PROVE  StateMapOf(log) \in StateMap
<1>1. ASSUME NEW id \in Ids
      PROVE  (IF HasHistory(log, id) THEN SignedEventHash(Latest(log, id)) ELSE NoHash) \in EventHash
  <2>1. CASE HasHistory(log, id)
    BY <2>1, LatestIsLatest, SignedEventHashType
  <2>2. CASE ~HasHistory(log, id)
    BY <2>2 DEF NoHash, EventHash
  <2> QED BY <2>1, <2>2
<1> QED BY <1>1 DEF StateMapOf, StateMap

\* The hash of the latest checkpoint of a chain.
LEMMA LatestHashType ==
    ASSUME NEW cps \in Seq(Checkpoint)
    PROVE  /\ LatestHash(cps) \in CheckpointHash
           /\ cps = <<>> <=> LatestHash(cps) = NoHash
           /\ cps # <<>> => /\ Len(cps) \in 1..Len(cps)
                            /\ cps[Len(cps)] \in Checkpoint
                            /\ LatestHash(cps) = HashOf(cps[Len(cps)])
<1>1. CASE cps = <<>>
  BY <1>1 DEF LatestHash, NoHash, CheckpointHash
<1>2. CASE cps # <<>>
  <2>1. Len(cps) \in 1..Len(cps) /\ cps[Len(cps)] \in Checkpoint
    BY <1>2, EmptySeq
  <2> QED BY <1>2, <2>1, HashOfType DEF LatestHash
<1> QED BY <1>1, <1>2

\* Both ways to prepare a checkpoint give one whose predecessor is the latest
\* of the chain and that has no anchor; it carries the time of the clock, unless
\* the clock is behind the predecessor.
LEMMA PreparedCheckpoint ==
    ASSUME NEW log \in Seq(NameEvent), NEW cps \in Seq(Checkpoint), NEW op \in Operators,
           NEW now \in Nat,
           NEW c \in {PrepareCheckpoint(log, cps, op, now)}
                     \cup (IF cps = <<>> THEN {} ELSE {PrepareOperatorRotation(log, cps, op, now)})
    PROVE  /\ c \in Checkpoint /\ c.anchor = NoHash /\ c.prev = LatestHash(cps)
           /\ c.map = StateMapOf(c.root)
           /\ (cps # <<>> => cps[Len(cps)].created_at <= now) => c.created_at = now
<1>1. /\ StateMapOf(log) \in StateMap
      /\ LatestHash(cps) \in CheckpointHash
      /\ Len(log) \in Nat /\ log \in Seq(NameEvent) /\ NoHash \in CheckpointHash
  BY StateMapOfType, LatestHashType DEF NoHash, CheckpointHash
<1>2. /\ cps # <<>> => /\ cps[Len(cps)] \in Checkpoint
                       /\ cps[Len(cps)].operator_sequence \in Nat
                       /\ cps[Len(cps)].operator \in Operators
                       /\ cps[Len(cps)].created_at \in Int
                       /\ LatestHash(cps) = HashOf(cps[Len(cps)])
  BY LatestHashType DEF Checkpoint
<1>3. CASE c = PrepareCheckpoint(log, cps, op, now)
  <2>1. (IF cps = <<>> THEN 0 ELSE cps[Len(cps)].operator_sequence) \in Nat
    BY <1>2
  <2> QED BY <1>1, <1>3, <2>1 DEF PrepareCheckpoint, Checkpoint
<1>4. CASE cps # <<>> /\ c = PrepareOperatorRotation(log, cps, op, now)
  <2> DEFINE t == IF now >= cps[Len(cps)].created_at THEN now ELSE cps[Len(cps)].created_at
  <2>1. t \in Int /\ (cps[Len(cps)].created_at <= now => t = now)
    BY <1>4, <1>2
  <2>2. cps[Len(cps)].operator_sequence + 1 \in Nat
    BY <1>4, <1>2
  <2>3. HashOf(cps[Len(cps)]) = LatestHash(cps) /\ HashOf(cps[Len(cps)]) \in CheckpointHash
    BY <1>4, <1>2, <1>1
  <2>4. c = [size |-> Len(log), root |-> log, map |-> StateMapOf(log), created_at |-> t,
             operator |-> op, operator_sequence |-> cps[Len(cps)].operator_sequence + 1,
             rotated_from |-> cps[Len(cps)].operator, prev |-> HashOf(cps[Len(cps)]),
             signer |-> op, anchor |-> NoHash]
    BY <1>4 DEF PrepareOperatorRotation
  <2> HIDE DEF t
  <2>5. c \in Checkpoint /\ c.anchor = NoHash /\ c.prev = LatestHash(cps)
        /\ c.map = StateMapOf(c.root) /\ c.created_at = t
    BY <1>1, <1>2, <1>4, <2>1, <2>2, <2>3, <2>4 DEF Checkpoint
  <2> QED BY <2>1, <2>5, <1>4
<1> QED BY <1>3, <1>4

--------------------------------------------------------------------------------
(* Types *)

\* What the local state of a handler holds at each of its steps.
JobInv(j) ==
    /\ j.pc \notin {"idle", "anchor"} /\ j.goal # "anchor" => j.id \in Ids
    /\ j.pc \notin {"idle", "anchor"} /\ j.goal = "commit" =>
         /\ j.event \in NameEvent /\ j.event.id = j.id
         /\ j.checkpoint \in Checkpoint /\ j.checkpoint.anchor = NoHash
         /\ j.checkpoint.map = StateMapOf(j.checkpoint.root)
    /\ j.pc = "transaction" =>
         /\ j.goal = "commit"
         /\ CandidateOK(j.events, j.checkpoints, j.event, j.checkpoint)
    /\ j.pc = "anchor" =>
         /\ j.checkpoint \in Checkpoint
         /\ j.checkpoint.anchor = HashOf(j.checkpoint)

TypeInv == TypeOK /\ \A h \in Handlers : JobInv(job[h])

\* The idle state is well typed and satisfies every invariant of a handler.
LEMMA IdleJobOK == IdleJob \in Job /\ JobInv(IdleJob) /\ IdleJob.pc = "idle"
<1>1. IdleJob \in Job
  BY EmptySeq DEF IdleJob, Job, PC, Goal
<1> QED BY <1>1 DEF IdleJob, JobInv

\* A handler that changes its own state to a well-typed one keeps the types.
LEMMA JobUpdate ==
    ASSUME TypeInv, NEW h \in Handlers, NEW j \in Job, JobInv(j),
           job' = [job EXCEPT ![h] = j]
    PROVE  job' \in [Handlers -> Job] /\ \A g \in Handlers : JobInv(job'[g])
  BY DEF TypeInv, TypeOK

\* A step that only moves a handler, leaving the database, keeps the types.
LEMMA LocalStep ==
    ASSUME TypeInv, NEW h \in Handlers, NEW j \in Job, JobInv(j),
           job' = [job EXCEPT ![h] = j], UNCHANGED <<db, clock>>
    PROVE  TypeInv'
<1>1. job' \in [Handlers -> Job] /\ \A g \in Handlers : JobInv(job'[g])
  BY JobUpdate
<1>2. TypeOK'
  BY <1>1 DEF TypeInv, TypeOK, db
<1>3. \A g \in Handlers : JobInv(job[g])'
  BY <1>1 DEF JobInv
<1> QED BY <1>2, <1>3 DEF TypeInv

\* The events the handlers propose are events of the name they publish.
LEMMA ProposalType ==
    ASSUME TypeInv, NEW h \in Handlers, job[h].id \in Ids, NEW e \in Proposals(h)
    PROVE  e \in NameEvent /\ e.id = job[h].id /\ e.prev = PreviousEventHash(job[h])
<1> DEFINE j == job[h]
<1>1. j \in Job
  BY DEF TypeInv, TypeOK
<1>2. j.events \in Seq(NameEvent) /\ j.existing \in Profile \cup {None}
  BY <1>1 DEF Job
<1>3. NextSequence(j) \in Nat
  BY <1>2 DEF NextSequence, Profile
<1>4. PreviousEventHash(j) \in EventHash
  <2>1. CASE HasHistory(j.events, j.id)
    BY <2>1, <1>2, LatestIsLatest, SignedEventHashType DEF PreviousEventHash
  <2>2. CASE ~HasHistory(j.events, j.id)
    BY <2>2 DEF PreviousEventHash, NoHash, EventHash
  <2> QED BY <2>1, <2>2
<1>5. ASSUME NEW action \in NameAction, NEW key \in Keys, NEW signer \in Keys,
             NEW rotation \in SUBSET Keys
      PROVE  /\ BuildEvent(h, action, key, signer, rotation) \in NameEvent
             /\ BuildEvent(h, action, key, signer, rotation).id = j.id
             /\ BuildEvent(h, action, key, signer, rotation).prev = PreviousEventHash(j)
  BY <1>3, <1>4 DEF BuildEvent, NameEvent, Profile
<1>6. j.existing # None => j.existing.key \in Keys
  BY <1>2 DEF Profile
<1>7. PICK action \in NameAction, key \in Keys, signer \in Keys, rotation \in SUBSET Keys :
         e = BuildEvent(h, action, key, signer, rotation)
  <2>1. CASE \E k \in Keys :
               e = BuildEvent(h, IF j.existing = None THEN "Register" ELSE "UpdateProfile", k, k, {})
    BY <2>1 DEF NameAction
  <2>2. CASE /\ j.existing # None
             /\ \E k \in Keys : e = BuildEvent(h, "RotateKey", k, j.existing.key, {j.existing.key, k})
    BY <2>2, <1>6 DEF NameAction
  <2>3. CASE \E k \in Keys : e = BuildEvent(h, "Revoke", k, k, {})
    BY <2>3 DEF NameAction
  <2> QED BY <2>1, <2>2, <2>3 DEF Proposals
<1> QED BY <1>5, <1>7

\* A failing or finishing handler that leaves the database alone keeps the types.
LEMMA FailStep ==
    ASSUME TypeInv, NEW h \in Handlers, Fail(h), UNCHANGED <<db, clock>>
    PROVE  TypeInv'
  BY IdleJobOK, LocalStep DEF Fail

\* Moving on to the next step keeps the types when the step's invariant holds.
LEMMA GotoStep ==
    ASSUME TypeInv, NEW h \in Handlers, NEW pc \in PC, Goto(h, pc),
           JobInv([job[h] EXCEPT !.pc = pc]), UNCHANGED <<db, clock>>
    PROVE  TypeInv'
<1>1. [job[h] EXCEPT !.pc = pc] \in Job
  BY DEF TypeInv, TypeOK, Job
<1>2. job' = [job EXCEPT ![h] = [job[h] EXCEPT !.pc = pc]]
  BY DEF Goto
<1> QED BY <1>1, <1>2, LocalStep

\* The checkpoint a handler prepares.
LEMMA PrepareStep ==
    ASSUME TypeInv, NEW h \in Handlers, Prepare(h)
    PROVE  \E e \in NameEvent, c \in Checkpoint :
              /\ job' = [job EXCEPT ![h] = [job[h] EXCEPT !.pc = "events", !.goal = "commit",
                                                          !.event = e, !.checkpoint = c]]
              /\ e.id = job[h].id /\ e.prev = PreviousEventHash(job[h])
              /\ c.anchor = NoHash /\ c.map = StateMapOf(c.root)
              /\ c.prev = LatestHash(job[h].checkpoints)
              /\ (job[h].checkpoints # <<>> =>
                     job[h].checkpoints[Len(job[h].checkpoints)].created_at <= clock)
                 => c.created_at = clock
<1>1. /\ job[h].id \in Ids
      /\ job[h].events \in Seq(NameEvent) /\ job[h].checkpoints \in Seq(Checkpoint)
      /\ clock \in Nat
  BY DEF TypeInv, TypeOK, Job, JobInv, Prepare, At
<1>2. PICK e \in Proposals(h), op \in Operators :
         \E c \in {PrepareCheckpoint(Append(job[h].events, e), job[h].checkpoints, op, clock)}
                  \cup {PrepareOperatorRotation(Append(job[h].events, e), job[h].checkpoints, op, clock) :
                           old \in {o \in Operators :
                                       MayRotateOperator(Append(job[h].events, e), job[h].checkpoints, o)}} :
            job' = [job EXCEPT ![h].pc = "events", ![h].goal = "commit",
                               ![h].event = e, ![h].checkpoint = c]
  BY DEF Prepare
<1>3. e \in NameEvent /\ e.id = job[h].id /\ e.prev = PreviousEventHash(job[h])
  BY <1>1, ProposalType
<1> DEFINE log == Append(job[h].events, e)
           cps == job[h].checkpoints
<1>4. log \in Seq(NameEvent)
  BY <1>1, <1>3
<1>5. PICK c \in {PrepareCheckpoint(log, cps, op, clock)}
                 \cup (IF cps = <<>> THEN {} ELSE {PrepareOperatorRotation(log, cps, op, clock)}) :
         job' = [job EXCEPT ![h].pc = "events", ![h].goal = "commit",
                            ![h].event = e, ![h].checkpoint = c]
  BY <1>2 DEF MayRotateOperator
<1>6. /\ c \in Checkpoint /\ c.anchor = NoHash /\ c.prev = LatestHash(cps)
      /\ c.map = StateMapOf(c.root)
      /\ (cps # <<>> => cps[Len(cps)].created_at <= clock) => c.created_at = clock
  <2> HIDE DEF log, cps
  <2>1. cps \in Seq(Checkpoint)
    BY <1>1 DEF cps
  <2> QED BY <1>1, <1>4, <1>5, <2>1, PreparedCheckpoint
<1>7. job' = [job EXCEPT ![h] = [job[h] EXCEPT !.pc = "events", !.goal = "commit",
                                               !.event = e, !.checkpoint = c]]
  BY <1>5
<1> QED BY <1>3, <1>6, <1>7

\* Every step of a handler keeps the types.
LEMMA HandlerType ==
    ASSUME TypeInv, NEW h \in Handlers, HandlerStep(h)
    PROVE  TypeInv'
<1> DEFINE j == job[h]
<1>0. /\ j \in Job /\ JobInv(j)
      /\ events \in Seq(NameEvent) /\ checkpoints \in Seq(Checkpoint)
      /\ profiles \in [Ids -> Profile \cup {None}]
  BY DEF TypeInv, TypeOK
<1>1. ASSUME NEW id \in Ids, BeginPublish(h, id) PROVE TypeInv'
  <2> DEFINE n == [IdleJob EXCEPT !.pc = "events", !.id = id, !.existing = profiles[id]]
  <2>1. n \in Job /\ JobInv(n)
    BY <1>0, EmptySeq DEF IdleJob, Job, PC, Goal, JobInv
  <2>2. job' = [job EXCEPT ![h] = n] /\ UNCHANGED <<db, clock>>
    BY <1>1 DEF BeginPublish
  <2> QED BY <2>1, <2>2, LocalStep
<1>2. CASE BeginAnchor(h)
  <2> DEFINE n == [IdleJob EXCEPT !.pc = "events", !.goal = "anchor"]
  <2>1. n \in Job /\ JobInv(n)
    BY <1>0, EmptySeq DEF IdleJob, Job, PC, Goal, JobInv
  <2>2. job' = [job EXCEPT ![h] = n] /\ UNCHANGED <<db, clock>>
    BY <1>2 DEF BeginAnchor
  <2> QED BY <2>1, <2>2, LocalStep
<1>3. CASE ReadEvents(h)
  <2> DEFINE n == [j EXCEPT !.pc = "checkpoints", !.events = events]
  <2>1. n \in Job /\ JobInv(n)
    BY <1>0, <1>3 DEF ReadEvents, Job, PC, JobInv
  <2>2. job' = [job EXCEPT ![h] = n] /\ UNCHANGED <<db, clock>>
    BY <1>3 DEF ReadEvents
  <2> QED BY <2>1, <2>2, LocalStep
<1>4. CASE ReadCheckpoints(h)
  <2> DEFINE n == [j EXCEPT !.pc = "profiles", !.checkpoints = checkpoints]
  <2>1. n \in Job /\ JobInv(n)
    BY <1>0, <1>4 DEF ReadCheckpoints, Job, PC, JobInv
  <2>2. job' = [job EXCEPT ![h] = n] /\ UNCHANGED <<db, clock>>
    BY <1>4 DEF ReadCheckpoints
  <2> QED BY <2>1, <2>2, LocalStep
<1>5. CASE LoadSucceeds(h)
  <2>1. JobInv([j EXCEPT !.pc = "loaded"])
    BY <1>0, <1>5 DEF LoadSucceeds, Job, JobInv
  <2> QED BY <1>5, <2>1, GotoStep DEF LoadSucceeds, PC
<1>6. CASE Prepare(h)
  <2>1. PICK e \in NameEvent, c \in Checkpoint :
           /\ job' = [job EXCEPT ![h] = [job[h] EXCEPT !.pc = "events", !.goal = "commit",
                                                       !.event = e, !.checkpoint = c]]
           /\ e.id = job[h].id /\ c.anchor = NoHash /\ c.map = StateMapOf(c.root)
    BY <1>6, PrepareStep
  <2> DEFINE n == [j EXCEPT !.pc = "events", !.goal = "commit", !.event = e, !.checkpoint = c]
  <2>2. j.id \in Ids
    BY <1>0, <1>6 DEF JobInv, Prepare, At
  <2>3. n \in Job /\ JobInv(n)
    BY <1>0, <2>1, <2>2 DEF Job, PC, Goal, JobInv
  <2> QED BY <1>6, <2>1, <2>3, LocalStep DEF Prepare
<1>7. CASE Validate(h)
  <2>1. JobInv([j EXCEPT !.pc = "transaction"])
    BY <1>0, <1>7 DEF Validate, At, Job, JobInv
  <2> QED BY <1>7, <2>1, GotoStep DEF Validate, PC
<1>8. CASE Commit(h)
  <2>1. j.id \in Ids /\ j.event \in NameEvent /\ j.checkpoint \in Checkpoint
    BY <1>0, <1>8 DEF Commit, JobInv
  <2>2. job' \in [Handlers -> Job] /\ \A g \in Handlers : JobInv(job'[g])
    BY <1>8, IdleJobOK, JobUpdate DEF Commit, Fail
  <2>3. events' \in Seq(NameEvent) /\ checkpoints' \in Seq(Checkpoint)
    BY <1>0, <1>8, <2>1 DEF Commit
  <2>4. profiles' \in [Ids -> Profile \cup {None}] /\ operator_state' \in OperatorRow
    BY <1>0, <1>8, <2>1 DEF Commit, NameEvent, Checkpoint, OperatorRow
  <2>5. TypeOK'
    BY <1>8, <2>2, <2>3, <2>4 DEF TypeInv, TypeOK, Commit
  <2>6. \A g \in Handlers : JobInv(job[g])'
    BY <2>2 DEF JobInv
  <2> QED BY <2>5, <2>6 DEF TypeInv
<1>9. CASE TakeLatest(h)
  <2> DEFINE last == j.checkpoints[Len(j.checkpoints)]
             c == [last EXCEPT !.anchor = HashOf(last)]
             n == [j EXCEPT !.pc = "anchor", !.checkpoint = c]
  <2>1. last \in Checkpoint /\ HashOf(last) \in CheckpointHash
    BY <1>0, <1>9, LatestHashType, HashOfType DEF TakeLatest, Job
  <2>2. c \in Checkpoint /\ c.anchor = HashOf(last) /\ HashOf(c) = HashOf(last)
    <3> HIDE DEF last
    <3> QED BY <2>1 DEF Checkpoint, HashOf
  <2>3. n \in Job /\ JobInv(n)
    <3> HIDE DEF c
    <3> QED BY <1>0, <2>2 DEF Job, PC, JobInv
  <2>4. job' = [job EXCEPT ![h] = n] /\ UNCHANGED <<db, clock>>
    BY <1>9 DEF TakeLatest
  <2> QED BY <2>3, <2>4, LocalStep
<1>10. ASSUME NEW op \in Operators, AnchorLatest(h, op) PROVE TypeInv'
  <2>1. Anchored(h, op) \in Checkpoint /\ j.checkpoint.anchor \in CheckpointHash
    BY <1>0, <1>10 DEF AnchorLatest, Anchored, JobInv, Checkpoint
  <2>2. job' \in [Handlers -> Job] /\ \A g \in Handlers : JobInv(job'[g])
    BY <1>10, IdleJobOK, JobUpdate DEF AnchorLatest, Fail
  <2>3. checkpoints' \in Seq(Checkpoint)
    <3>1. checkpoints' = [checkpoints EXCEPT ![Len(checkpoints)] = Anchored(h, op)]
      BY <1>10 DEF AnchorLatest
    <3>2. HashOf(j.checkpoint) # NoHash
      BY <1>0, <1>10, HashOfType DEF AnchorLatest, JobInv
    <3>3. checkpoints # <<>>
      BY <1>10, <3>2 DEF AnchorLatest, AnchorCurrent, LatestHash
    <3> QED BY <1>0, <2>1, <3>1, <3>3, LatestHashType, ExceptSeq
  <2>4. anchors' \in SUBSET CheckpointHash
    BY <1>10, <2>1 DEF AnchorLatest, TypeInv, TypeOK
  <2>5. TypeOK'
    BY <1>10, <2>2, <2>3, <2>4 DEF TypeInv, TypeOK, AnchorLatest
  <2>6. \A g \in Handlers : JobInv(job[g])'
    BY <2>2 DEF JobInv
  <2> QED BY <2>5, <2>6 DEF TypeInv
<1>11. CASE \/ LoadFails(h) \/ PrepareRejects(h) \/ CommitRejects(h) \/ CommitConflicts(h)
            \/ NothingToAnchor(h) \/ AnchorFails(h) \/ \E op \in Operators : AnchorConflicts(h, op)
  BY <1>11, FailStep DEF LoadFails, PrepareRejects, CommitRejects, CommitConflicts,
                         NothingToAnchor, AnchorFails, AnchorConflicts
<1> QED
  BY <1>1, <1>2, <1>3, <1>4, <1>5, <1>6, <1>7, <1>8, <1>9, <1>10, <1>11 DEF HandlerStep

\* The initial state is well typed.
LEMMA TypeInit == Init => TypeInv
<1> SUFFICES ASSUME Init PROVE TypeInv
  OBVIOUS
<1>1. TypeOK
  BY EmptySeq, IdleJobOK DEF Init, TypeOK, OperatorRow
<1>2. \A h \in Handlers : JobInv(job[h])
  BY IdleJobOK DEF Init
<1> QED BY <1>1, <1>2 DEF TypeInv

\* Every step keeps the types.
LEMMA TypeStep == TypeInv /\ [Next]_vars => TypeInv'
<1> SUFFICES ASSUME TypeInv, [Next]_vars PROVE TypeInv'
  OBVIOUS
<1>1. ASSUME NEW h \in Handlers, HandlerStep(h) PROVE TypeInv'
  BY <1>1, HandlerType
<1>2. CASE Crash
  BY <1>2, IdleJobOK DEF Crash, db, TypeInv, TypeOK, JobInv
<1>3. CASE Tick
  BY <1>3 DEF Tick, db, TypeInv, TypeOK, JobInv
<1>4. CASE StepBack
  BY <1>4 DEF StepBack, db, TypeInv, TypeOK, JobInv
<1>5. CASE UNCHANGED vars
  BY <1>5 DEF vars, TypeInv, TypeOK, JobInv
<1> QED BY <1>1, <1>2, <1>3, <1>4, <1>5 DEF Next

\* Every variable of the store keeps its type, whatever the clock does, and each
\* handler holds what its next step needs.
THEOREM TypeCorrect == Spec => []TypeOK
<1>1. TypeInv => TypeOK
  BY DEF TypeInv
<1> QED BY <1>1, TypeInit, TypeStep, PTL DEF Spec

--------------------------------------------------------------------------------
(* No step rewrites history *)

\* Steps that leave both tables alone rewrite nothing.
LEMMA UnchangedAppends ==
    ASSUME TypeInv, UNCHANGED <<events, checkpoints>>
    PROVE  /\ IsPrefix(events, events')
           /\ IsPrefix(LatestHash(checkpoints), LatestHash(checkpoints'))
<1>1. events \in Seq(NameEvent) /\ LatestHash(checkpoints) \in CheckpointHash
  BY LatestHashType DEF TypeInv, TypeOK
<1> QED BY <1>1 DEF IsPrefix, CheckpointHash

\* The commit appends to both tables, and its checkpoint names the latest one.
LEMMA CommitAppends ==
    ASSUME TypeInv, NEW h \in Handlers, Commit(h)
    PROVE  /\ IsPrefix(events, events')
           /\ IsPrefix(LatestHash(checkpoints), LatestHash(checkpoints'))
<1> DEFINE e == job[h].event
           c == job[h].checkpoint
<1>1. /\ e \in NameEvent /\ c \in Checkpoint
      /\ events \in Seq(NameEvent) /\ checkpoints \in Seq(Checkpoint)
      /\ CandidateOK(job[h].events, job[h].checkpoints, e, c)
      /\ JobInv(job[h])
  BY DEF TypeInv, TypeOK, JobInv, Commit
<1>2. c.prev = LatestHash(checkpoints)
  BY <1>1 DEF CandidateOK, Commit, Unmoved
<1>3. IsPrefix(events, events')
  BY <1>1, PrefixOfLonger DEF Commit
<1>4. checkpoints' = Append(checkpoints, c)
  BY DEF Commit
<1> HIDE DEF c
<1>5. LatestHash(checkpoints') = HashOf(c)
  <2>1. Append(checkpoints, c) # <<>> /\ Append(checkpoints, c)[Len(Append(checkpoints, c))] = c
    BY <1>1
  <2> QED BY <1>4, <2>1 DEF LatestHash
<1>6. IsPrefix(c.prev, HashOf(c))
  <2> DEFINE core == [size |-> c.size, root |-> c.root, map |-> c.map,
                      created_at |-> c.created_at, operator |-> c.operator,
                      operator_sequence |-> c.operator_sequence,
                      rotated_from |-> c.rotated_from]
  <2>1. core \in CheckpointCore /\ c.prev \in Seq(CheckpointCore)
    BY <1>1 DEF Checkpoint, CheckpointCore, CheckpointHash
  <2>2. HashOf(c) = Append(c.prev, core)
    BY DEF HashOf
  <2> HIDE DEF core
  <2> QED BY <2>1, <2>2, PrefixOfLonger
<1> QED BY <1>2, <1>3, <1>5, <1>6

\* What anchoring writes over the latest checkpoint.
LEMMA AnchorReplaces ==
    ASSUME TypeInv, NEW h \in Handlers, NEW op \in Operators, AnchorLatest(h, op)
    PROVE  /\ checkpoints # <<>>
           /\ checkpoints' = [checkpoints EXCEPT ![Len(checkpoints)] = Anchored(h, op)]
           /\ Anchored(h, op) \in Checkpoint
           /\ VerifyCheckpoint(Anchored(h, op))
           /\ Anchored(h, op).anchor = HashOf(Anchored(h, op))
           /\ SameHash(Anchored(h, op), checkpoints[Len(checkpoints)])
<1> DEFINE c == job[h].checkpoint
<1>1. /\ c \in Checkpoint /\ c.anchor = HashOf(c)
      /\ LatestHash(checkpoints) = HashOf(c)
      /\ checkpoints \in Seq(Checkpoint)
  BY DEF TypeInv, TypeOK, JobInv, AnchorLatest, AnchorCurrent
<1>2. checkpoints # <<>> /\ HashOf(c) = HashOf(checkpoints[Len(checkpoints)])
  BY <1>1, HashOfType, LatestHashType
<1> HIDE DEF c
<1>3. /\ [c EXCEPT !.signer = op] \in Checkpoint
      /\ HashOf([c EXCEPT !.signer = op]) = HashOf(c)
      /\ [c EXCEPT !.signer = op].anchor = c.anchor
  BY <1>1 DEF Checkpoint, HashOf
<1>4. Anchored(h, op) = [c EXCEPT !.signer = op]
  BY DEF Anchored, c
<1> QED BY <1>1, <1>2, <1>3, <1>4 DEF SameHash, AnchorLatest

\* Anchoring leaves the hash of the latest checkpoint as it is.
LEMMA AnchorAppends ==
    ASSUME TypeInv, NEW h \in Handlers, NEW op \in Operators, AnchorLatest(h, op)
    PROVE  /\ IsPrefix(events, events')
           /\ IsPrefix(LatestHash(checkpoints), LatestHash(checkpoints'))
<1> DEFINE c == Anchored(h, op)
           n == Len(checkpoints)
<1>1. /\ checkpoints # <<>> /\ checkpoints' = [checkpoints EXCEPT ![n] = c]
      /\ c \in Checkpoint /\ SameHash(c, checkpoints[n])
  BY AnchorReplaces
<1>2. events' = events /\ events \in Seq(NameEvent) /\ checkpoints \in Seq(Checkpoint)
  BY DEF AnchorLatest, TypeInv, TypeOK
<1> HIDE DEF c
<1>3. n \in 1..Len(checkpoints) /\ LatestHash(checkpoints) = HashOf(checkpoints[n])
  BY <1>1, <1>2, LatestHashType
<1>4. checkpoints' # <<>> /\ Len(checkpoints') = n /\ checkpoints'[n] = c
  BY <1>1, <1>2, <1>3
<1>5. LatestHash(checkpoints') = LatestHash(checkpoints)
  BY <1>1, <1>3, <1>4 DEF LatestHash, SameHash
<1>6. LatestHash(checkpoints) \in CheckpointHash
  BY <1>2, LatestHashType
<1> QED BY <1>2, <1>5, <1>6 DEF IsPrefix, CheckpointHash

\* Every step only appends events, and the hash of the latest checkpoint keeps
\* committing to all earlier ones: the log is append-only under every
\* interleaving of handlers, crashes and clocks that are set back.
THEOREM AppendOnlyHolds == Spec => AppendOnly
<1> DEFINE A == /\ IsPrefix(events, events')
                /\ IsPrefix(LatestHash(checkpoints), LatestHash(checkpoints'))
<1>1. TypeInv /\ [Next]_vars => [A]_vars
  <2> SUFFICES ASSUME TypeInv, Next PROVE A
    OBVIOUS
  <2>1. ASSUME NEW h \in Handlers, HandlerStep(h) PROVE A
    <3>1. CASE Commit(h)
      BY <3>1, CommitAppends
    <3>2. ASSUME NEW op \in Operators, AnchorLatest(h, op) PROVE A
      BY <3>2, AnchorAppends
    <3>3. CASE UNCHANGED <<events, checkpoints>>
      BY <3>3, UnchangedAppends
    <3> QED
      BY <2>1, <3>1, <3>2, <3>3
         DEF HandlerStep, db, BeginPublish, BeginAnchor, ReadEvents, ReadCheckpoints,
             LoadSucceeds, LoadFails, Prepare, PrepareRejects, Validate, CommitRejects,
             CommitConflicts, TakeLatest, NothingToAnchor, AnchorFails, AnchorConflicts
  <2>2. CASE Crash \/ Tick \/ StepBack
    BY <2>2, UnchangedAppends DEF Crash, Tick, StepBack, db
  <2> QED BY <2>1, <2>2 DEF Next
<1> QED BY <1>1, TypeInit, TypeStep, PTL DEF Spec, AppendOnly

--------------------------------------------------------------------------------
(* The rows of the profile table, whatever the clock does *)

\* The profile table holds the profile of the latest event of every name, and
\* of no other name.
RowsInv ==
    /\ VerifyProfiles(events, profiles)
    /\ \A id \in Ids : HasHistory(events, id) => profiles[id] # None

\* The log the handler has read was committed, and the event it will commit
\* follows the event whose profile it saw in the table.
SeenInv(j, log) ==
    /\ j.pc \in {"checkpoints", "profiles", "loaded", "transaction"} => IsPrefix(j.events, log)
    /\ j.pc \notin {"idle", "anchor"} /\ j.goal = "commit" =>
         j.existing = IF j.event.prev = NoHash THEN None
                                               ELSE j.event.prev[Len(j.event.prev)].profile

RowInv == TypeInv /\ RowsInv /\ \A h \in Handlers : SeenInv(job[h], events)

\* A longer log keeps what a handler has seen.
LEMMA SeenInvGrows ==
    ASSUME NEW j \in Job, NEW log \in Seq(NameEvent), NEW e \in NameEvent, SeenInv(j, log)
    PROVE  SeenInv(j, Append(log, e))
<1>1. j.events \in Seq(NameEvent)
  BY DEF Job
<1>2. IsPrefix(j.events, log) => IsPrefix(j.events, Append(log, e))
  BY <1>1, IsPrefixGrows
<1> QED BY <1>2 DEF SeenInv

\* The idle handler has seen nothing.
LEMMA IdleSeen == \A log : SeenInv(IdleJob, log)
  BY DEF SeenInv, IdleJob

\* A step that only moves one handler keeps the invariant when that handler's
\* part holds.
LEMMA LocalRow ==
    ASSUME RowInv, TypeInv', NEW h \in Handlers, NEW j \in Job, SeenInv(j, events),
           job' = [job EXCEPT ![h] = j], events' = events, profiles' = profiles
    PROVE  RowInv'
<1>1. RowsInv'
  BY DEF RowInv, RowsInv
<1>2. \A g \in Handlers : SeenInv(job'[g], events)
  BY DEF RowInv, TypeInv, TypeOK
<1>3. \A g \in Handlers : SeenInv(job'[g], events')
  BY <1>2
<1> QED BY <1>1, <1>3 DEF RowInv

\* The hash of an event ends in the event's own core and is not absent.
LEMMA EventHashLast ==
    ASSUME NEW e \in NameEvent
    PROVE  /\ SignedEventHash(e) # NoHash
           /\ SignedEventHash(e)[Len(SignedEventHash(e))].profile = e.profile
<1> DEFINE core == [id |-> e.id, action |-> e.action, key |-> e.key,
                    sequence |-> e.sequence, profile |-> e.profile,
                    rotation |-> e.rotation, signer |-> e.signer]
<1>1. core \in EventCore /\ e.prev \in Seq(EventCore) /\ core.profile = e.profile
  BY DEF NameEvent, EventCore, EventHash
<1>2. SignedEventHash(e) = Append(e.prev, core)
  BY DEF SignedEventHash
<1> HIDE DEF core
<1>3. /\ Len(Append(e.prev, core)) = Len(e.prev) + 1 /\ Len(e.prev) \in Nat
      /\ Append(e.prev, core)[Len(e.prev) + 1] = core
      /\ Append(e.prev, core) \in Seq(EventCore)
  BY <1>1, AppendProperties
<1>4. Append(e.prev, core) # <<>>
  BY <1>3
<1> QED BY <1>1, <1>2, <1>3, <1>4 DEF NoHash

\* Preparing an event: its predecessor is the event of the row seen.
LEMMA PrepareRow ==
    ASSUME RowInv, TypeInv', NEW h \in Handlers, Prepare(h)
    PROVE  RowInv'
<1> DEFINE j == job[h]
<1>0. /\ TypeInv /\ j \in Job /\ j.pc = "loaded" /\ j.goal = "prepare" /\ ProfileAligned(j)
      /\ j.events \in Seq(NameEvent) /\ UNCHANGED <<db, clock>>
  BY DEF RowInv, TypeInv, TypeOK, Job, Prepare, At
<1>1. PICK e \in NameEvent, c \in Checkpoint :
         /\ job' = [job EXCEPT ![h] = [job[h] EXCEPT !.pc = "events", !.goal = "commit",
                                                     !.event = e, !.checkpoint = c]]
         /\ e.id = job[h].id /\ e.prev = PreviousEventHash(job[h])
  BY <1>0, PrepareStep
<1>2. j.existing = IF e.prev = NoHash THEN None ELSE e.prev[Len(e.prev)].profile
  <2>1. CASE HasHistory(j.events, j.id)
    <3>1. Latest(j.events, j.id) \in NameEvent
      BY <1>0, <2>1, LatestIsLatest
    <3>2. e.prev = SignedEventHash(Latest(j.events, j.id))
      BY <1>1, <2>1 DEF PreviousEventHash
    <3>3. j.existing = Latest(j.events, j.id).profile
      BY <1>0, <2>1 DEF ProfileAligned, ProfileMatches
    <3> QED BY <3>1, <3>2, <3>3, EventHashLast
  <2>2. CASE ~HasHistory(j.events, j.id)
    BY <1>0, <1>1, <2>2 DEF PreviousEventHash, ProfileAligned
  <2> QED BY <2>1, <2>2
<1> DEFINE n == [j EXCEPT !.pc = "events", !.goal = "commit", !.event = e, !.checkpoint = c]
<1>3. n \in Job
  BY <1>0 DEF Job, PC, Goal
<1>4. /\ n.pc = "events" /\ n.goal = "commit" /\ n.event = e /\ n.existing = j.existing
  BY <1>0 DEF Job
<1>5. SeenInv(n, events)
  <2> HIDE DEF n
  <2> QED BY <1>2, <1>4 DEF SeenInv
<1>6. events' = events /\ profiles' = profiles
  BY <1>0 DEF db
<1> QED BY <1>1, <1>3, <1>5, <1>6, LocalRow

\* A profile is not the absent value.
LEMMA ProfileNotNone ==
    ASSUME NEW p \in Profile
    PROVE  p # None
  BY NoneAssumption

\* What a handler whose write transaction finds nothing moved has read and
\* checked, against the tables.
LEMMA CommitFacts ==
    ASSUME RowInv, NEW h \in Handlers, Commit(h)
    PROVE  LET j == job[h]
               e == job[h].event
               c == job[h].checkpoint
           IN /\ j \in Job /\ JobInv(j) /\ j.pc = "transaction" /\ j.goal = "commit"
              /\ j.events = events
              /\ j.checkpoints \in Seq(Checkpoint)
              /\ Len(checkpoints) = Len(j.checkpoints)
              /\ LatestHash(checkpoints) = LatestHash(j.checkpoints)
              /\ j.id \in Ids /\ e \in NameEvent /\ e.id = j.id /\ PrepareAppend(events, e)
              /\ c \in Checkpoint /\ c.anchor = NoHash /\ c.map = StateMapOf(c.root)
              /\ CandidateOK(events, j.checkpoints, e, c)
              /\ events' = Append(events, e)
              /\ checkpoints' = Append(checkpoints, c)
              /\ profiles' = [profiles EXCEPT ![j.id] = e.profile]
<1> DEFINE j == job[h]
           e == j.event
           c == j.checkpoint
<1>1. /\ j \in Job /\ JobInv(j) /\ SeenInv(j, events) /\ j.pc = "transaction"
      /\ events \in Seq(NameEvent)
      /\ events' = Append(events, e) /\ checkpoints' = Append(checkpoints, c)
      /\ profiles' = [profiles EXCEPT ![j.id] = e.profile]
  BY DEF RowInv, TypeInv, TypeOK, Commit
<1>2. /\ j.goal = "commit" /\ CandidateOK(j.events, j.checkpoints, e, c)
      /\ j.id \in Ids /\ e \in NameEvent /\ e.id = j.id
      /\ c \in Checkpoint /\ c.anchor = NoHash /\ c.map = StateMapOf(c.root)
  BY <1>1 DEF JobInv
<1>3. /\ Len(events) = Len(j.events) /\ Len(checkpoints) = Len(j.checkpoints)
      /\ LatestHash(checkpoints) = LatestHash(j.checkpoints)
      /\ j.events \in Seq(NameEvent) /\ j.checkpoints \in Seq(Checkpoint)
  BY <1>1 DEF Commit, Unmoved, Job
<1>4. j.events = events
  BY <1>1, <1>3, IsPrefixSameLength DEF SeenInv
<1>5. PrepareAppend(events, e)
  BY <1>2, <1>4 DEF CandidateOK
<1> QED BY <1>1, <1>2, <1>3, <1>4, <1>5

\* A commit keeps the profile table current.
LEMMA CommitRow ==
    ASSUME RowInv, TypeInv', NEW h \in Handlers, Commit(h)
    PROVE  RowInv'
<1> DEFINE e == job[h].event
<1>1. /\ job[h].id \in Ids /\ e \in NameEvent /\ e.id = job[h].id /\ PrepareAppend(events, e)
      /\ events' = Append(events, e)
      /\ profiles' = [profiles EXCEPT ![job[h].id] = e.profile]
  BY CommitFacts
<1>2. /\ events \in Seq(NameEvent) /\ profiles \in [Ids -> Profile \cup {None}]
      /\ job \in [Handlers -> Job] /\ job' = [job EXCEPT ![h] = IdleJob]
  BY DEF RowInv, TypeInv, TypeOK, Commit, Fail
<1>3. ASSUME NEW id \in Ids
      PROVE  /\ profiles'[id] # None =>
                  /\ HasHistory(events', id)
                  /\ ProfileMatches(Latest(events', id), profiles'[id])
             /\ HasHistory(events', id) => profiles'[id] # None
  <2>1. CASE id = e.id
    <3>1. HasHistory(events', id) /\ Latest(events', id) = e
      BY <1>1, <1>2, <2>1, LatestOfAppendSame
    <3>2. profiles'[id] = e.profile
      BY <1>1, <1>2, <2>1
    <3>3. ProfileMatches(e, e.profile)
      BY <1>1 DEF PrepareAppend
    <3>4. e.profile # None
      BY <1>1, ProfileNotNone DEF NameEvent
    <3> QED BY <3>1, <3>2, <3>3, <3>4
  <2>2. CASE id # e.id
    <3>1. profiles'[id] = profiles[id]
      BY <1>1, <1>2, <2>2
    <3>2. /\ HasHistory(events', id) <=> HasHistory(events, id)
          /\ HasHistory(events, id) => Latest(events', id) = Latest(events, id)
      BY <1>1, <1>2, <2>2, LatestOfAppendOther
    <3> QED BY <3>1, <3>2 DEF RowInv, RowsInv, VerifyProfiles
  <2> QED BY <2>1, <2>2
<1>4. RowsInv'
  BY <1>3 DEF RowsInv, VerifyProfiles
<1>5. \A g \in Handlers : SeenInv(job'[g], events')
  <2> SUFFICES ASSUME NEW g \in Handlers PROVE SeenInv(job'[g], events')
    OBVIOUS
  <2>1. CASE g = h
    BY <1>2, <2>1, IdleSeen
  <2>2. CASE g # h
    <3>1. job'[g] = job[g] /\ job[g] \in Job /\ SeenInv(job[g], events)
      BY <1>2, <2>2 DEF RowInv
    <3> HIDE DEF e
    <3> QED BY <1>1, <1>2, <3>1, SeenInvGrows
  <2> QED BY <2>1, <2>2
<1> QED BY <1>4, <1>5 DEF RowInv

\* Every step keeps the profile table current.
LEMMA RowStep == RowInv /\ [Next]_vars => RowInv'
<1> SUFFICES ASSUME RowInv, [Next]_vars PROVE RowInv'
  OBVIOUS
<1>0. TypeInv' /\ job \in [Handlers -> Job]
  BY TypeStep DEF RowInv, TypeInv, TypeOK
<1>1. ASSUME NEW h \in Handlers, HandlerStep(h) PROVE RowInv'
  <2> DEFINE j == job[h]
  <2>0. j \in Job /\ SeenInv(j, events)
    BY <1>0 DEF RowInv
  <2>1. CASE Prepare(h)
    BY <1>0, <2>1, PrepareRow
  <2>2. CASE Commit(h)
    BY <1>0, <2>2, CommitRow
  <2>3. CASE /\ job' = [job EXCEPT ![h] = IdleJob]
             /\ UNCHANGED <<events, profiles>>
    BY <1>0, <2>3, IdleSeen, IdleJobOK, LocalRow
  <2>4. ASSUME NEW id \in Ids, BeginPublish(h, id) PROVE RowInv'
    <3> DEFINE n == [IdleJob EXCEPT !.pc = "events", !.id = id, !.existing = profiles[id]]
    <3>1. profiles[id] \in Profile \cup {None}
      BY DEF RowInv, TypeInv, TypeOK
    <3>2. n \in Job /\ SeenInv(n, events)
      BY <3>1, EmptySeq DEF IdleJob, Job, PC, Goal, SeenInv
    <3>3. job' = [job EXCEPT ![h] = n] /\ UNCHANGED <<events, profiles>>
      BY <2>4 DEF BeginPublish, db
    <3> QED BY <1>0, <3>2, <3>3, LocalRow
  <2>5. CASE BeginAnchor(h)
    <3> DEFINE n == [IdleJob EXCEPT !.pc = "events", !.goal = "anchor"]
    <3>1. n \in Job /\ SeenInv(n, events)
      BY EmptySeq DEF IdleJob, Job, PC, Goal, SeenInv
    <3>2. job' = [job EXCEPT ![h] = n] /\ UNCHANGED <<events, profiles>>
      BY <2>5 DEF BeginAnchor, db
    <3> QED BY <1>0, <3>1, <3>2, LocalRow
  <2>6. CASE ReadEvents(h)
    <3> DEFINE n == [j EXCEPT !.pc = "checkpoints", !.events = events]
    <3>1. events \in Seq(NameEvent)
      BY DEF RowInv, TypeInv, TypeOK
    <3>2. IsPrefix(events, events)
      BY <3>1 DEF IsPrefix
    <3>3. n \in Job /\ SeenInv(n, events)
      BY <2>0, <2>6, <3>1, <3>2 DEF ReadEvents, Job, PC, SeenInv
    <3>4. job' = [job EXCEPT ![h] = n] /\ UNCHANGED <<events, profiles>>
      BY <2>6 DEF ReadEvents, db
    <3> QED BY <1>0, <3>3, <3>4, LocalRow
  <2>7. CASE ReadCheckpoints(h)
    <3> DEFINE n == [j EXCEPT !.pc = "profiles", !.checkpoints = checkpoints]
    <3>1. checkpoints \in Seq(Checkpoint)
      BY DEF RowInv, TypeInv, TypeOK
    <3>2. n \in Job /\ SeenInv(n, events)
      BY <2>0, <2>7, <3>1 DEF ReadCheckpoints, Job, PC, SeenInv
    <3>3. job' = [job EXCEPT ![h] = n] /\ UNCHANGED <<events, profiles>>
      BY <2>7 DEF ReadCheckpoints, db
    <3> QED BY <1>0, <3>2, <3>3, LocalRow
  <2>8. CASE LoadSucceeds(h)
    <3> DEFINE n == [j EXCEPT !.pc = "loaded"]
    <3>1. n \in Job /\ SeenInv(n, events)
      BY <2>0, <2>8 DEF LoadSucceeds, Job, PC, SeenInv
    <3>2. job' = [job EXCEPT ![h] = n] /\ UNCHANGED <<events, profiles>>
      BY <2>8 DEF LoadSucceeds, Goto, db
    <3> QED BY <1>0, <3>1, <3>2, LocalRow
  <2>9. CASE Validate(h)
    <3> DEFINE n == [j EXCEPT !.pc = "transaction"]
    <3>1. n \in Job /\ SeenInv(n, events)
      BY <2>0, <2>9 DEF Validate, At, Job, PC, SeenInv
    <3>2. job' = [job EXCEPT ![h] = n] /\ UNCHANGED <<events, profiles>>
      BY <2>9 DEF Validate, Goto, db
    <3> QED BY <1>0, <3>1, <3>2, LocalRow
  <2>10. CASE TakeLatest(h)
    <3> DEFINE last == j.checkpoints[Len(j.checkpoints)]
               n == [j EXCEPT !.pc = "anchor", !.checkpoint = [last EXCEPT !.anchor = HashOf(last)]]
    <3>1. job' = [job EXCEPT ![h] = n] /\ UNCHANGED <<events, profiles>>
      BY <2>10 DEF TakeLatest, db
    <3>2. n \in Job
      BY <1>0, <3>1 DEF TypeInv, TypeOK
    <3>3. SeenInv(n, events)
      BY <2>0 DEF SeenInv, Job
    <3> QED BY <1>0, <3>1, <3>2, <3>3, LocalRow
  <2>11. CASE \/ LoadFails(h) \/ PrepareRejects(h) \/ CommitRejects(h) \/ CommitConflicts(h)
              \/ NothingToAnchor(h) \/ AnchorFails(h)
              \/ \E op \in Operators : AnchorLatest(h, op) \/ AnchorConflicts(h, op)
    BY <2>11, <2>3 DEF LoadFails, PrepareRejects, CommitRejects, CommitConflicts,
                       NothingToAnchor, AnchorFails, AnchorLatest, AnchorConflicts, Fail, db
  <2> QED
    BY <1>1, <2>1, <2>2, <2>4, <2>5, <2>6, <2>7, <2>8, <2>9, <2>10, <2>11 DEF HandlerStep
<1>2. CASE Crash
  <2>1. RowsInv'
    BY <1>2 DEF Crash, db, RowInv, RowsInv
  <2>2. \A g \in Handlers : SeenInv(job'[g], events')
    BY <1>2, IdleSeen DEF Crash
  <2> QED BY <1>0, <2>1, <2>2 DEF RowInv
<1>3. CASE Tick \/ StepBack \/ UNCHANGED vars
  <2>1. events' = events /\ profiles' = profiles /\ job' = job
    BY <1>3 DEF Tick, StepBack, db, vars
  <2>2. RowsInv' /\ \A g \in Handlers : SeenInv(job'[g], events')
    BY <2>1 DEF RowInv, RowsInv
  <2> QED BY <1>0, <2>2 DEF RowInv
<1> QED BY <1>1, <1>2, <1>3 DEF Next

\* The empty profile table is current.
LEMMA RowInit == Init => RowInv
<1> SUFFICES ASSUME Init PROVE RowInv
  OBVIOUS
<1>1. RowsInv
  BY EmptySeq DEF Init, RowsInv, VerifyProfiles, HasHistory
<1>2. \A h \in Handlers : SeenInv(job[h], events)
  BY IdleSeen DEF Init
<1> QED BY <1>1, <1>2, TypeInit DEF RowInv

\* The profile row that a commit replaces is the one its handler read before it
\* built the event: the new event names its predecessor by hash.
LEMMA CommitReplacesSeen ==
    ASSUME RowInv, NEW h \in Handlers, Commit(h)
    PROVE  job[h].existing = profiles[job[h].id]
<1> DEFINE j == job[h]
           e == j.event
           p == Latest(events, j.id)
<1>1. /\ j \in Job /\ j.pc = "transaction" /\ j.goal = "commit"
      /\ j.id \in Ids /\ e \in NameEvent /\ e.id = j.id /\ PrepareAppend(events, e)
  BY CommitFacts
<1>2. events \in Seq(NameEvent) /\ SeenInv(j, events) /\ RowsInv
  BY DEF RowInv, TypeInv, TypeOK
<1>3. j.existing = IF e.prev = NoHash THEN None ELSE e.prev[Len(e.prev)].profile
  BY <1>1, <1>2 DEF SeenInv
<1>4. CASE HasHistory(events, j.id)
  <2>1. e.prev = SignedEventHash(p) /\ p \in NameEvent
    BY <1>1, <1>2, <1>4, LatestIsLatest DEF PrepareAppend, VerifyNext, VerifyTransition
  <2>2. j.existing = p.profile
    BY <1>3, <2>1, EventHashLast
  <2>3. profiles[j.id] = p.profile
    BY <1>1, <1>2, <1>4 DEF RowsInv, VerifyProfiles, ProfileMatches
  <2> QED BY <2>2, <2>3
<1>5. CASE ~HasHistory(events, j.id)
  <2>1. e.prev = NoHash
    BY <1>1, <1>5 DEF PrepareAppend, VerifyNext, VerifyGenesis
  <2>2. profiles[j.id] = None
    BY <1>1, <1>2, <1>5 DEF RowsInv, VerifyProfiles
  <2> QED BY <1>3, <2>1, <2>2
<1> QED BY <1>4, <1>5

\* No handler overwrites an update that it has not seen, under every
\* interleaving of handlers, crashes and clocks.
THEOREM NoLostUpdateHolds == Spec => NoLostUpdate
<1>1. RowInv /\ [Next]_vars =>
        [\A h \in Handlers : Commit(h) => job[h].existing = profiles[job[h].id]]_vars
  BY CommitReplacesSeen
<1> QED BY <1>1, RowInit, RowStep, PTL DEF Spec, NoLostUpdate

--------------------------------------------------------------------------------
(* The store implements the directory *)

\* The directory of the empty store is empty.
LEMMA DirectoryInit == Init => Directory!Init
<1> SUFFICES ASSUME Init PROVE Directory!Init
  OBVIOUS
<1>1. DirectoryOwner = [n \in Ids |-> None] /\ DirectoryVersion = [n \in Ids |-> 0]
  BY DEF Init, DirectoryOwner, DirectoryVersion
<1>2. \A id \in Ids : Revoked(id) = FALSE
  <2>1. Len(events) = 0
    BY EmptySeq DEF Init
  <2> QED BY <2>1 DEF Revoked, HasHistory
<1>3. DirectoryRevoked = [n \in Ids |-> FALSE]
  BY <1>2, Zenon DEF DirectoryRevoked
<1> QED BY <1>1, <1>3 DEF Directory!Init

\* Steps that leave events and profiles alone are not seen in the directory.
LEMMA DirectoryStutter ==
    ASSUME UNCHANGED <<events, profiles>>
    PROVE  UNCHANGED Directory!directory
  BY DEF Directory!directory, DirectoryOwner, DirectoryVersion, DirectoryRevoked, Revoked

\* A commit moves its own name to the state of its event and no other name.
LEMMA DirectoryAfterCommit ==
    ASSUME RowInv, NEW h \in Handlers, Commit(h)
    PROVE  LET e == job[h].event IN
           /\ DirectoryOwner' = [DirectoryOwner EXCEPT ![e.id] = e.key]
           /\ DirectoryVersion' = [DirectoryVersion EXCEPT ![e.id] = e.sequence + 1]
           /\ DirectoryRevoked' = [DirectoryRevoked EXCEPT ![e.id] = (e.action = "Revoke")]
<1> DEFINE e == job[h].event
<1>1. /\ e.id \in Ids /\ e \in NameEvent /\ PrepareAppend(events, e)
      /\ events' = Append(events, e)
      /\ profiles' = [profiles EXCEPT ![e.id] = e.profile]
  BY CommitFacts
<1>2. events \in Seq(NameEvent) /\ profiles \in [Ids -> Profile \cup {None}]
  BY DEF RowInv, TypeInv, TypeOK
<1>3. e.profile.sequence = e.sequence /\ e.profile.key = e.key /\ e.profile # None
  BY <1>1, ProfileNotNone DEF PrepareAppend, ProfileMatches, NameEvent
<1> HIDE DEF e
<1>4. DirectoryOwner' = [DirectoryOwner EXCEPT ![e.id] = e.key]
  BY <1>1, <1>2, <1>3 DEF DirectoryOwner
<1>5. DirectoryVersion' = [DirectoryVersion EXCEPT ![e.id] = e.sequence + 1]
  BY <1>1, <1>2, <1>3 DEF DirectoryVersion
<1>6. ASSUME NEW id \in Ids
      PROVE  Revoked(id)' = IF id = e.id THEN e.action = "Revoke" ELSE Revoked(id)
  <2>1. CASE id = e.id
    <3>1. HasHistory(events', id) /\ Latest(events', id) = e
      BY <1>1, <1>2, <2>1, LatestOfAppendSame
    <3>2. Revoked(id)' = (e.action = "Revoke")
      BY <3>1 DEF Revoked
    <3> QED BY <2>1, <3>2
  <2>2. CASE id # e.id
    <3>1. /\ HasHistory(events', id) <=> HasHistory(events, id)
          /\ HasHistory(events, id) => Latest(events', id) = Latest(events, id)
      BY <1>1, <1>2, <2>2, LatestOfAppendOther
    <3>2. Revoked(id)' = Revoked(id)
      BY <3>1 DEF Revoked, HasHistory
    <3> QED BY <2>2, <3>2
  <2> QED BY <2>1, <2>2
<1>7. DirectoryRevoked' = [DirectoryRevoked EXCEPT ![e.id] = (e.action = "Revoke")]
  BY <1>1, <1>6 DEF DirectoryRevoked
<1> QED BY <1>4, <1>5, <1>7 DEF e

\* A commit is one step of the directory, under the authority of the owner.
LEMMA CommitIsDirectoryStep ==
    ASSUME RowInv, NEW h \in Handlers, Commit(h)
    PROVE  Directory!Next
<1> DEFINE e == job[h].event
           id == e.id
           p == Latest(events, id)
<1>1. id \in Ids /\ e \in NameEvent /\ PrepareAppend(events, e)
  BY CommitFacts
<1>2. /\ DirectoryOwner' = [DirectoryOwner EXCEPT ![id] = e.key]
      /\ DirectoryVersion' = [DirectoryVersion EXCEPT ![id] = e.sequence + 1]
      /\ DirectoryRevoked' = [DirectoryRevoked EXCEPT ![id] = (e.action = "Revoke")]
  BY DirectoryAfterCommit
<1>3. events \in Seq(NameEvent) /\ RowsInv
  BY DEF RowInv, TypeInv, TypeOK
<1>4. CASE ~HasHistory(events, id)
  <2>1. e.action = "Register" /\ e.sequence = 0
    BY <1>1, <1>4 DEF PrepareAppend, VerifyNext, VerifyGenesis
  <2>2. DirectoryOwner[id] = None /\ DirectoryVersion[id] = 0 /\ DirectoryRevoked[id] = FALSE
    BY <1>1, <1>3, <1>4 DEF RowsInv, VerifyProfiles, DirectoryOwner, DirectoryVersion,
                            DirectoryRevoked, Revoked
  <2>3. DirectoryRevoked' = DirectoryRevoked
    BY <1>2, <2>1, <2>2, <1>1 DEF DirectoryRevoked
  <2>4. DirectoryVersion' = [DirectoryVersion EXCEPT ![id] = @ + 1]
    BY <1>2, <2>1, <2>2
  <2>5. Directory!Register(id, e.key)
    BY <1>2, <2>2, <2>3, <2>4 DEF Directory!Register, Directory!Bump
  <2>6. e.key \in Keys
    BY <1>1 DEF NameEvent
  <2> QED BY <1>1, <2>5, <2>6 DEF Directory!Next
<1>5. CASE HasHistory(events, id)
  <2>1. /\ p \in NameEvent /\ VerifyTransition(p, e)
        /\ profiles[id] # None /\ ProfileMatches(p, profiles[id])
    BY <1>1, <1>3, <1>5, LatestIsLatest DEF PrepareAppend, VerifyNext, RowsInv, VerifyProfiles
  <2>2. /\ DirectoryOwner[id] = p.key /\ DirectoryVersion[id] = p.sequence + 1
        /\ DirectoryRevoked[id] = FALSE
    BY <1>1, <2>1 DEF DirectoryOwner, DirectoryVersion, DirectoryRevoked, Revoked,
                      ProfileMatches, VerifyTransition
  <2>3. DirectoryVersion' = [DirectoryVersion EXCEPT ![id] = @ + 1]
    BY <1>2, <2>1, <2>2 DEF VerifyTransition
  <2>4. Directory!Live(id)
    <3>1. p.key # None
      BY <2>1, NoneAssumption DEF NameEvent
    <3> QED BY <2>2, <3>1 DEF Directory!Live
  <2>5. e.key \in Keys
    BY <1>1 DEF NameEvent
  <2>6. CASE e.action = "Revoke"
    <3>1. e.key = p.key
      BY <2>1, <2>6 DEF VerifyTransition
    <3>2. DirectoryOwner' = DirectoryOwner
      BY <1>1, <1>2, <2>2, <3>1 DEF DirectoryOwner
    <3>3. Directory!Revoke(id)
      BY <1>2, <2>3, <2>4, <2>6, <3>2 DEF Directory!Revoke, Directory!Bump
    <3> QED BY <1>1, <3>3 DEF Directory!Next
  <2>7. CASE e.action # "Revoke"
    <3>1. DirectoryRevoked' = DirectoryRevoked
      BY <1>1, <1>2, <2>2, <2>7 DEF DirectoryRevoked
    <3>2. CASE e.key = p.key
      <4>1. DirectoryOwner' = DirectoryOwner
        BY <1>1, <1>2, <2>2, <3>2 DEF DirectoryOwner
      <4>2. Directory!Update(id)
        BY <2>3, <2>4, <3>1, <4>1 DEF Directory!Update, Directory!Bump
      <4> QED BY <1>1, <4>2 DEF Directory!Next
    <3>3. CASE e.key # p.key
      <4>1. Directory!Transfer(id, e.key)
        BY <1>2, <2>2, <2>3, <2>4, <3>1, <3>3 DEF Directory!Transfer, Directory!Bump
      <4> QED BY <1>1, <2>5, <4>1 DEF Directory!Next
    <3> QED BY <3>2, <3>3
  <2> QED BY <2>6, <2>7
<1> QED BY <1>4, <1>5

\* The concurrent store with its crashes, torn reads and stale handlers
\* implements the atomic directory.
THEOREM StoreImplementsDirectory == Spec => ImplementsDirectory
<1>1. RowInv /\ [Next]_vars => [Directory!Next]_(Directory!directory)
  <2> SUFFICES ASSUME RowInv, [Next]_vars
               PROVE  Directory!Next \/ UNCHANGED Directory!directory
    OBVIOUS
  <2>1. ASSUME NEW h \in Handlers, HandlerStep(h)
        PROVE  Directory!Next \/ UNCHANGED Directory!directory
    <3>1. CASE Commit(h)
      BY <3>1, CommitIsDirectoryStep
    <3>2. CASE UNCHANGED <<events, profiles>>
      BY <3>2, DirectoryStutter
    <3> QED
      BY <2>1, <3>1, <3>2
         DEF HandlerStep, db, BeginPublish, BeginAnchor, ReadEvents, ReadCheckpoints,
             LoadSucceeds, LoadFails, Prepare, PrepareRejects, Validate, CommitRejects,
             CommitConflicts, TakeLatest, NothingToAnchor, AnchorFails, AnchorLatest, AnchorConflicts
  <2>2. CASE Crash \/ Tick \/ StepBack \/ UNCHANGED vars
    BY <2>2, DirectoryStutter DEF Crash, Tick, StepBack, db, vars
  <2> QED BY <2>1, <2>2 DEF Next
<1> QED BY <1>1, DirectoryInit, RowInit, RowStep, PTL DEF Spec, ImplementsDirectory, Directory!Spec

--------------------------------------------------------------------------------
(* The checkpoint chain, while the clock does not step back *)

\* The log replays, with one checkpoint per event, each bound to the state map
\* of the events it covers and none of them from the future.
ChainInv ==
    /\ Len(checkpoints) = Len(events)
    /\ VerifyFullReplay(events, checkpoints)
    /\ Numbered(checkpoints)
    /\ \A i \in 1..Len(checkpoints) :
         /\ checkpoints[i].created_at <= clock
         /\ checkpoints[i].map = StateMapOf(checkpoints[i].root)

\* The checkpoints a handler has read are not from the future, and neither is
\* the one it will commit, which is not older than the one it follows.
TimeInv(j, now) ==
    /\ j.pc \in {"profiles", "loaded", "transaction"} =>
         \A i \in 1..Len(j.checkpoints) : j.checkpoints[i].created_at <= now
    /\ j.pc \notin {"idle", "anchor"} /\ j.goal = "commit" =>
         /\ j.checkpoint.created_at <= now
         /\ j.checkpoint.prev # NoHash =>
              j.checkpoint.prev[Len(j.checkpoint.prev)].created_at <= j.checkpoint.created_at

Inv == RowInv /\ ChainInv /\ \A h \in Handlers : TimeInv(job[h], clock)

\* What holds of the time of a handler holds later.
LEMMA TimeInvLater ==
    ASSUME NEW j \in Job, JobInv(j), NEW now \in Nat, NEW later \in Nat, now <= later,
           TimeInv(j, now)
    PROVE  TimeInv(j, later)
<1>1. j.checkpoints \in Seq(Checkpoint)
  BY DEF Job
<1>2. \A i \in 1..Len(j.checkpoints) : j.checkpoints[i] \in Checkpoint
  BY <1>1
<1>3. \A i \in 1..Len(j.checkpoints) : j.checkpoints[i].created_at \in Int
  BY <1>2 DEF Checkpoint
<1>4. j.pc \notin {"idle", "anchor"} /\ j.goal = "commit" => j.checkpoint.created_at \in Int
  BY DEF JobInv, Checkpoint
<1> QED BY <1>3, <1>4 DEF TimeInv

\* The idle handler waits for no time.
LEMMA IdleTime == \A now : TimeInv(IdleJob, now)
  BY DEF TimeInv, IdleJob

\* A step of one handler that leaves the chain alone keeps the invariant when
\* that handler's part holds.
LEMMA LocalTime ==
    ASSUME Inv, RowInv', NEW h \in Handlers, NEW j, TimeInv(j, clock),
           job' = [job EXCEPT ![h] = j], UNCHANGED <<events, checkpoints, clock>>
    PROVE  Inv'
<1>1. ChainInv'
  BY DEF Inv, ChainInv
<1>2. \A g \in Handlers : TimeInv(job'[g], clock)
  BY DEF Inv, RowInv, TypeInv, TypeOK
<1>3. \A g \in Handlers : TimeInv(job'[g], clock')
  BY <1>2
<1> QED BY <1>1, <1>3 DEF Inv

\* A checkpoint is prepared at the time of the clock, after the one it follows.
LEMMA PrepareTime ==
    ASSUME Inv, RowInv', NEW h \in Handlers, Prepare(h)
    PROVE  Inv'
<1> DEFINE j == job[h]
<1>0. /\ TypeInv /\ j \in Job /\ TimeInv(j, clock)
      /\ j.pc = "loaded" /\ j.goal = "prepare"
      /\ clock \in Nat /\ j.checkpoints \in Seq(Checkpoint)
      /\ UNCHANGED <<events, checkpoints, clock>>
  BY DEF Inv, RowInv, TypeInv, TypeOK, Job, Prepare, At, db
<1>1. PICK e \in NameEvent, c \in Checkpoint :
         /\ job' = [job EXCEPT ![h] = [job[h] EXCEPT !.pc = "events", !.goal = "commit",
                                                     !.event = e, !.checkpoint = c]]
         /\ c.prev = LatestHash(job[h].checkpoints)
         /\ (job[h].checkpoints # <<>> =>
                job[h].checkpoints[Len(job[h].checkpoints)].created_at <= clock)
            => c.created_at = clock
  BY <1>0, PrepareStep
<1>2. j.checkpoints # <<>> =>
         /\ j.checkpoints[Len(j.checkpoints)].created_at <= clock
         /\ c.prev[Len(c.prev)].created_at = j.checkpoints[Len(j.checkpoints)].created_at
  BY <1>0, <1>1, LatestHashType, HashOfType DEF TimeInv
<1>3. c.created_at = clock
  BY <1>1, <1>2
<1>4. c.prev # NoHash => c.prev[Len(c.prev)].created_at <= c.created_at
  BY <1>0, <1>1, <1>2, <1>3, LatestHashType
<1> DEFINE n == [j EXCEPT !.pc = "events", !.goal = "commit", !.event = e, !.checkpoint = c]
<1>5. n.pc = "events" /\ n.goal = "commit" /\ n.checkpoint = c
  BY <1>0 DEF Job
<1>6. TimeInv(n, clock)
  <2> HIDE DEF n
  <2>1. c.created_at <= clock
    BY <1>0, <1>3
  <2> QED BY <1>4, <1>5, <2>1 DEF TimeInv
<1> QED BY <1>0, <1>1, <1>6, LocalTime

\* The write transaction extends the chain soundly: the candidate was checked
\* against what the handler had read, and nothing has moved since.
LEMMA CommitChain ==
    ASSUME Inv, NEW h \in Handlers, Commit(h)
    PROVE  ChainInv'
<1> DEFINE j == job[h]
           e == j.event
           c == j.checkpoint
<1>0. /\ events \in Seq(NameEvent) /\ checkpoints \in Seq(Checkpoint)
      /\ clock \in Nat /\ clock' = clock /\ TimeInv(j, clock) /\ RowInv
  BY DEF Inv, RowInv, TypeInv, TypeOK, Commit
<1>1. /\ j.pc = "transaction" /\ j.goal = "commit" /\ j.checkpoints \in Seq(Checkpoint)
      /\ LatestHash(checkpoints) = LatestHash(j.checkpoints)
      /\ e \in NameEvent /\ PrepareAppend(events, e)
      /\ c \in Checkpoint /\ c.anchor = NoHash /\ c.map = StateMapOf(c.root)
      /\ CandidateOK(events, j.checkpoints, e, c)
      /\ events' = Append(events, e) /\ checkpoints' = Append(checkpoints, c)
  BY <1>0, CommitFacts
<1>2. /\ c.size = Len(events) + 1 /\ c.root = Append(events, e)
      /\ VerifyCheckpoint(c) /\ c.prev = LatestHash(checkpoints)
  BY <1>0, <1>1 DEF CandidateOK
<1>3. VerifyHistories(Append(events, e))
  BY <1>0, <1>1, HistoriesAppend DEF Inv, ChainInv, VerifyFullReplay, PrepareAppend
<1>4. checkpoints = <<>> => c.prev = NoHash /\ c.operator_sequence = 0
  <2>1. checkpoints = <<>> => j.checkpoints = <<>>
    BY <1>0, <1>1, LatestHashType
  <2> QED BY <1>0, <1>1, <1>2, <2>1, LatestHashType DEF CandidateOK
<1>5. ASSUME checkpoints # <<>>
      PROVE  VerifySuccessor(Append(events, e), checkpoints[Len(checkpoints)], c)
  <2> DEFINE p == checkpoints[Len(checkpoints)]
             q == j.checkpoints[Len(j.checkpoints)]
  <2>1. p \in Checkpoint /\ LatestHash(checkpoints) = HashOf(p) /\ HashOf(p) # NoHash
    BY <1>0, <1>5, LatestHashType, HashOfType
  <2>2. j.checkpoints # <<>> /\ q \in Checkpoint /\ LatestHash(j.checkpoints) = HashOf(q)
    BY <1>1, <2>1, LatestHashType
  <2>3. SameHash(q, p)
    BY <1>1, <2>1, <2>2 DEF SameHash
  <2>4. p.size = q.size
    BY <2>1, <2>2, <2>3, HashInjective
  <2>5. VerifyCheckpointTransition(q, c, Consistency(Append(events, e), q.size, c.size))
    BY <1>1, <2>2 DEF CandidateOK
  <2>6. VerifyCheckpointTransition(p, c, Consistency(Append(events, e), p.size, c.size))
    <3> HIDE DEF p, q, c
    <3> QED BY <1>1, <2>1, <2>2, <2>3, <2>4, <2>5, TransitionSameHash
  <2>7. c.created_at >= p.created_at
    <3>1. c.prev = HashOf(p) /\ c.prev # NoHash
      BY <1>2, <2>1
    <3>2. c.prev[Len(c.prev)].created_at <= c.created_at
      BY <1>0, <1>1, <3>1 DEF TimeInv
    <3>3. c.prev[Len(c.prev)].created_at = p.created_at
      BY <2>1, <3>1, HashOfType
    <3> QED BY <1>1, <2>1, <3>2, <3>3 DEF Checkpoint
  <2>8. c.size >= p.size
    BY <2>6 DEF VerifyCheckpointTransition
  <2> QED BY <1>2, <2>1, <2>6, <2>7, <2>8 DEF VerifySuccessor
<1>6. VerifyChain(Append(events, e), Append(checkpoints, c)) /\ Numbered(Append(checkpoints, c))
  <2>1. VerifyChain(events, checkpoints) /\ Numbered(checkpoints) /\ Len(checkpoints) = Len(events)
    BY DEF Inv, ChainInv, VerifyFullReplay
  <2> HIDE DEF e, c
  <2> QED BY <1>0, <1>1, <1>2, <1>4, <1>5, <2>1, ChainAppend
<1>7. \A i \in 1..Len(checkpoints') :
         /\ checkpoints'[i].created_at <= clock'
         /\ checkpoints'[i].map = StateMapOf(checkpoints'[i].root)
  <2>1. c.created_at <= clock
    BY <1>0, <1>1 DEF TimeInv
  <2>2. \A i \in 1..Len(checkpoints) :
          /\ checkpoints[i].created_at <= clock
          /\ checkpoints[i].map = StateMapOf(checkpoints[i].root)
    BY DEF Inv, ChainInv
  <2>3. \A i \in 1..Len(checkpoints') :
          \/ i \in 1..Len(checkpoints) /\ checkpoints'[i] = checkpoints[i]
          \/ checkpoints'[i] = c
    <3> HIDE DEF c
    <3> QED BY <1>0, <1>1
  <2> QED BY <1>0, <1>1, <2>1, <2>2, <2>3
<1>8. Len(checkpoints') = Len(events')
  BY <1>0, <1>1 DEF Inv, ChainInv
<1>9. VerifyFullReplay(events', checkpoints') /\ Numbered(checkpoints')
  BY <1>1, <1>3, <1>6 DEF VerifyFullReplay
<1> QED BY <1>7, <1>8, <1>9 DEF ChainInv

\* Anchoring keeps the chain sound.
LEMMA AnchorChain ==
    ASSUME Inv, NEW h \in Handlers, NEW op \in Operators, AnchorLatest(h, op)
    PROVE  ChainInv'
<1> DEFINE c == Anchored(h, op)
           n == Len(checkpoints)
<1>1. /\ checkpoints # <<>> /\ checkpoints' = [checkpoints EXCEPT ![n] = c]
      /\ c \in Checkpoint /\ VerifyCheckpoint(c) /\ c.anchor = HashOf(c)
      /\ SameHash(c, checkpoints[n])
  BY AnchorReplaces DEF Inv, RowInv
<1>2. /\ events' = events /\ clock' = clock
      /\ events \in Seq(NameEvent) /\ checkpoints \in Seq(Checkpoint)
  BY DEF AnchorLatest, Inv, RowInv, TypeInv, TypeOK
<1>3. /\ VerifyChain(events, checkpoints) /\ Numbered(checkpoints)
      /\ VerifyHistories(events) /\ Len(checkpoints) = Len(events)
      /\ \A i \in 1..Len(checkpoints) :
           /\ checkpoints[i].created_at <= clock
           /\ checkpoints[i].map = StateMapOf(checkpoints[i].root)
  BY DEF Inv, ChainInv, VerifyFullReplay
<1> HIDE DEF c
<1>4. n \in 1..Len(checkpoints) /\ checkpoints[n] \in Checkpoint
  BY <1>1, <1>2, LatestHashType
<1>5. VerifyChain(events', checkpoints') /\ Numbered(checkpoints')
  BY <1>1, <1>2, <1>3, ChainReplaceLast
<1>6. c.created_at = checkpoints[n].created_at /\ c.map = checkpoints[n].map
      /\ c.root = checkpoints[n].root
  BY <1>1, <1>4, HashInjective
<1>7. Len(checkpoints') = n
      /\ \A i \in 1..n : checkpoints'[i] = IF i = n THEN c ELSE checkpoints[i]
  BY <1>1, <1>2, <1>4
<1>8. \A i \in 1..Len(checkpoints') :
        /\ checkpoints'[i].created_at <= clock'
        /\ checkpoints'[i].map = StateMapOf(checkpoints'[i].root)
  BY <1>2, <1>3, <1>4, <1>6, <1>7
<1> QED BY <1>2, <1>3, <1>5, <1>7, <1>8 DEF ChainInv, VerifyFullReplay

\* A write to the chain ends its handler and leaves the others as they are.
LEMMA WriteTime ==
    ASSUME Inv, RowInv', ChainInv', NEW h \in Handlers,
           job' = [job EXCEPT ![h] = IdleJob], clock' = clock
    PROVE  Inv'
<1>1. \A g \in Handlers : TimeInv(job'[g], clock)
  BY IdleTime DEF Inv, RowInv, TypeInv, TypeOK
<1>2. \A g \in Handlers : TimeInv(job'[g], clock')
  BY <1>1
<1> QED BY <1>2 DEF Inv

\* Every step keeps the invariant while the clock does not step back.
LEMMA InvStep ==
    ASSUME ~ClockMayStepBack
    PROVE  Inv /\ [Next]_vars => Inv'
<1> SUFFICES ASSUME Inv, [Next]_vars PROVE Inv'
  OBVIOUS
<1>0. /\ RowInv' /\ job \in [Handlers -> Job] /\ clock \in Nat
      /\ \A h \in Handlers : JobInv(job[h]) /\ TimeInv(job[h], clock)
  BY RowStep DEF Inv, RowInv, TypeInv, TypeOK
<1>1. ASSUME NEW h \in Handlers, HandlerStep(h) PROVE Inv'
  <2> DEFINE j == job[h]
  <2>0. j \in Job /\ TimeInv(j, clock)
    BY <1>0
  <2>1. CASE Prepare(h)
    BY <1>0, <2>1, PrepareTime
  <2>2. CASE Commit(h)
    BY <1>0, <2>2, CommitChain, WriteTime DEF Commit, Fail
  <2>3. ASSUME NEW op \in Operators, AnchorLatest(h, op) PROVE Inv'
    BY <1>0, <2>3, AnchorChain, WriteTime DEF AnchorLatest, Fail
  <2>4. CASE \/ LoadFails(h) \/ PrepareRejects(h) \/ CommitRejects(h) \/ CommitConflicts(h)
             \/ NothingToAnchor(h) \/ AnchorFails(h) \/ \E op \in Operators : AnchorConflicts(h, op)
    <3>1. job' = [job EXCEPT ![h] = IdleJob] /\ UNCHANGED <<events, checkpoints, clock>>
      BY <2>4 DEF LoadFails, PrepareRejects, CommitRejects, CommitConflicts,
                  NothingToAnchor, AnchorFails, AnchorConflicts, Fail, db
    <3> QED BY <1>0, <3>1, IdleTime, LocalTime
  <2>5. ASSUME NEW id \in Ids, BeginPublish(h, id) PROVE Inv'
    <3> DEFINE n == [IdleJob EXCEPT !.pc = "events", !.id = id, !.existing = profiles[id]]
    <3>1. TimeInv(n, clock)
      BY DEF IdleJob, TimeInv
    <3>2. job' = [job EXCEPT ![h] = n] /\ UNCHANGED <<events, checkpoints, clock>>
      BY <2>5 DEF BeginPublish, db
    <3> QED BY <1>0, <3>1, <3>2, LocalTime
  <2>6. CASE BeginAnchor(h)
    <3> DEFINE n == [IdleJob EXCEPT !.pc = "events", !.goal = "anchor"]
    <3>1. TimeInv(n, clock)
      BY DEF IdleJob, TimeInv
    <3>2. job' = [job EXCEPT ![h] = n] /\ UNCHANGED <<events, checkpoints, clock>>
      BY <2>6 DEF BeginAnchor, db
    <3> QED BY <1>0, <3>1, <3>2, LocalTime
  <2>7. CASE ReadEvents(h)
    <3> DEFINE n == [j EXCEPT !.pc = "checkpoints", !.events = events]
    <3>1. TimeInv(n, clock)
      BY <2>0, <2>7 DEF ReadEvents, Job, TimeInv
    <3>2. job' = [job EXCEPT ![h] = n] /\ UNCHANGED <<events, checkpoints, clock>>
      BY <2>7 DEF ReadEvents, db
    <3> QED BY <1>0, <3>1, <3>2, LocalTime
  <2>8. CASE ReadCheckpoints(h)
    <3> DEFINE n == [j EXCEPT !.pc = "profiles", !.checkpoints = checkpoints]
    <3>1. \A i \in 1..Len(checkpoints) : checkpoints[i].created_at <= clock
      BY DEF Inv, ChainInv
    <3>2. TimeInv(n, clock)
      BY <2>0, <2>8, <3>1 DEF ReadCheckpoints, Job, TimeInv
    <3>3. job' = [job EXCEPT ![h] = n] /\ UNCHANGED <<events, checkpoints, clock>>
      BY <2>8 DEF ReadCheckpoints, db
    <3> QED BY <1>0, <3>2, <3>3, LocalTime
  <2>9. CASE LoadSucceeds(h)
    <3> DEFINE n == [j EXCEPT !.pc = "loaded"]
    <3>1. TimeInv(n, clock)
      BY <2>0, <2>9 DEF LoadSucceeds, Job, TimeInv
    <3>2. job' = [job EXCEPT ![h] = n] /\ UNCHANGED <<events, checkpoints, clock>>
      BY <2>9 DEF LoadSucceeds, Goto, db
    <3> QED BY <1>0, <3>1, <3>2, LocalTime
  <2>10. CASE Validate(h)
    <3> DEFINE n == [j EXCEPT !.pc = "transaction"]
    <3>1. TimeInv(n, clock)
      BY <2>0, <2>10 DEF Validate, At, Job, TimeInv
    <3>2. job' = [job EXCEPT ![h] = n] /\ UNCHANGED <<events, checkpoints, clock>>
      BY <2>10 DEF Validate, Goto, db
    <3> QED BY <1>0, <3>1, <3>2, LocalTime
  <2>11. CASE TakeLatest(h)
    <3> DEFINE last == j.checkpoints[Len(j.checkpoints)]
               n == [j EXCEPT !.pc = "anchor", !.checkpoint = [last EXCEPT !.anchor = HashOf(last)]]
    <3>1. TimeInv(n, clock)
      BY <2>0 DEF TimeInv, Job
    <3>2. job' = [job EXCEPT ![h] = n] /\ UNCHANGED <<events, checkpoints, clock>>
      BY <2>11 DEF TakeLatest, db
    <3> QED BY <1>0, <3>1, <3>2, LocalTime
  <2> QED
    BY <1>1, <2>1, <2>2, <2>3, <2>4, <2>5, <2>6, <2>7, <2>8, <2>9, <2>10, <2>11 DEF HandlerStep
<1>2. CASE Crash
  <2>1. ChainInv'
    BY <1>2 DEF Crash, db, Inv, ChainInv
  <2>2. \A g \in Handlers : TimeInv(job'[g], clock')
    BY <1>2, IdleTime DEF Crash
  <2> QED BY <1>0, <2>1, <2>2 DEF Inv
<1>3. CASE Tick
  <2>1. /\ clock' \in Nat /\ clock <= clock' /\ job' = job
        /\ events' = events /\ checkpoints' = checkpoints
    BY <1>0, <1>3 DEF Tick, db
  <2>2. \A i \in 1..Len(checkpoints) : checkpoints[i].created_at \in Int
    <3>1. \A i \in 1..Len(checkpoints) : checkpoints[i] \in Checkpoint
      BY DEF Inv, RowInv, TypeInv, TypeOK
    <3> QED BY <3>1 DEF Checkpoint
  <2>3. ChainInv'
    BY <1>0, <2>1, <2>2 DEF Inv, ChainInv
  <2>4. \A g \in Handlers : TimeInv(job'[g], clock')
    BY <1>0, <2>1, TimeInvLater
  <2> QED BY <1>0, <2>3, <2>4 DEF Inv
<1>4. CASE UNCHANGED vars
  BY <1>0, <1>4 DEF vars, Inv, ChainInv
<1> QED BY <1>1, <1>2, <1>3, <1>4 DEF Next, StepBack

\* The empty store replays.
LEMMA InvInit == Init => Inv
<1> SUFFICES ASSUME Init PROVE Inv
  OBVIOUS
<1>1. Len(checkpoints) = 0 /\ Len(events) = 0
  BY EmptySeq DEF Init
<1>2. ChainInv
  BY <1>1 DEF ChainInv, VerifyFullReplay, VerifyHistories, VerifyChain, Numbered
<1>3. \A h \in Handlers : TimeInv(job[h], clock)
  BY IdleTime DEF Init
<1> QED BY <1>2, <1>3, RowInit DEF Inv

\* While the clock does not step back, every state the concurrent handlers can
\* commit, and every state a crash can leave, opens again: the replay succeeds
\* and every profile row is that of its latest event.
THEOREM StoreReplaysHolds ==
    ASSUME ~ClockMayStepBack
    PROVE  Spec => []StoreReplays
<1>1. Inv => StoreReplays
  BY DEF Inv, ChainInv, RowInv, RowsInv, StoreReplays, VerifyLoad
<1> QED BY <1>1, InvInit, InvStep, PTL DEF Spec

\* While the clock does not step back, every event has its own checkpoint, bound
\* to the state map of exactly the events up to it.
THEOREM CheckpointsCoverStateHolds ==
    ASSUME ~ClockMayStepBack
    PROVE  Spec => []CheckpointsCoverState
<1>1. Inv => CheckpointsCoverState
  <2> SUFFICES ASSUME Inv PROVE CheckpointsCoverState
    OBVIOUS
  <2>1. ASSUME NEW i \in 1..Len(checkpoints)
        PROVE  checkpoints[i].size = i /\ checkpoints[i].map = StateMapOf(Prefix(events, i))
    BY DEF Inv, ChainInv, Numbered, VerifyFullReplay, VerifyChain, VerifyAgainstLog
  <2> QED BY <2>1 DEF CheckpointsCoverState, Inv, ChainInv
<1> QED BY <1>1, InvInit, InvStep, PTL DEF Spec

--------------------------------------------------------------------------------
(* Who may change a name *)

\* A commit changes only the row of its event, signed by the owner of that row.
LEMMA CommitAuthorised ==
    ASSUME RowInv, NEW h \in Handlers, Commit(h), NEW id \in Ids,
           profiles[id] # None, profiles'[id] # profiles[id]
    PROVE  LET e == Latest(events', id) IN
           /\ e.signer = profiles[id].key
           /\ profiles'[id].key # profiles[id].key =>
                {profiles[id].key, profiles'[id].key} \subseteq e.rotation
<1> DEFINE e == job[h].event
           p == Latest(events, id)
<1>1. /\ e.id \in Ids /\ e \in NameEvent /\ PrepareAppend(events, e)
      /\ events' = Append(events, e)
      /\ profiles' = [profiles EXCEPT ![e.id] = e.profile]
  BY CommitFacts
<1>2. /\ events \in Seq(NameEvent) /\ profiles \in [Ids -> Profile \cup {None}] /\ RowsInv
  BY DEF RowInv, TypeInv, TypeOK
<1>3. id = e.id /\ profiles'[id] = e.profile
  BY <1>1, <1>2
<1>4. Latest(events', id) = e
  BY <1>1, <1>2, <1>3, LatestOfAppendSame
<1>5. HasHistory(events, id) /\ ProfileMatches(p, profiles[id])
  BY <1>2 DEF RowsInv, VerifyProfiles
<1>6. VerifyTransition(p, e) /\ ProfileMatches(e, e.profile)
  BY <1>1, <1>3, <1>5 DEF PrepareAppend, VerifyNext
<1>7. e.signer = profiles[id].key
  BY <1>5, <1>6 DEF ProfileMatches, VerifyTransition
<1>8. e.key # p.key => {p.key, e.key} \subseteq e.rotation
  BY <1>6 DEF VerifyTransition
<1>9. profiles[id].key = p.key /\ profiles'[id].key = e.key
  BY <1>3, <1>5, <1>6 DEF ProfileMatches
<1> QED BY <1>4, <1>7, <1>8, <1>9

\* A name changes hands, or content, only by the signature of its owner, under
\* every interleaving of handlers, crashes and clocks.
THEOREM OwnerAuthorisesHolds == Spec => OwnerAuthorises
<1> DEFINE A == \A id \in Ids :
                  profiles[id] # None /\ profiles'[id] # profiles[id] =>
                      LET e == Latest(events', id) IN
                      /\ e.signer = profiles[id].key
                      /\ profiles'[id].key # profiles[id].key =>
                           {profiles[id].key, profiles'[id].key} \subseteq e.rotation
<1>1. RowInv /\ [Next]_vars => [A]_vars
  <2> SUFFICES ASSUME RowInv, Next PROVE A
    OBVIOUS
  <2>1. ASSUME NEW h \in Handlers, HandlerStep(h) PROVE A
    <3>1. CASE Commit(h)
      BY <3>1, CommitAuthorised
    <3>2. CASE profiles' = profiles
      BY <3>2
    <3> QED
      BY <2>1, <3>1, <3>2
         DEF HandlerStep, db, BeginPublish, BeginAnchor, ReadEvents, ReadCheckpoints,
             LoadSucceeds, LoadFails, Prepare, PrepareRejects, Validate, CommitRejects,
             CommitConflicts, TakeLatest, NothingToAnchor, AnchorFails, AnchorLatest, AnchorConflicts
  <2>2. CASE Crash \/ Tick \/ StepBack
    BY <2>2 DEF Crash, Tick, StepBack, db
  <2> QED BY <2>1, <2>2 DEF Next
<1> QED BY <1>1, RowInit, RowStep, PTL DEF Spec, OwnerAuthorises

--------------------------------------------------------------------------------
(* What a handler has loaded, whatever the clock does *)

\* A checkpoint that stands alone: it covers i events and its signature and anchor verify.
Sound(c, i) == c.size = i /\ VerifyCheckpoint(c) /\ c.anchor \in {NoHash, HashOf(c)}

\* Every event has its checkpoint.
PairsInv ==
    /\ Len(checkpoints) = Len(events)
    /\ \A i \in 1..Len(checkpoints) : Sound(checkpoints[i], i)

\* The checkpoints a handler has read are those of the table, up to later anchors, and cover
\* at least its events, which it read first; the replay leaves no surplus.
CopyInv(j, cps) ==
    /\ j.pc \in {"profiles", "loaded", "transaction"} =>
         /\ Len(j.events) <= Len(j.checkpoints) /\ Len(j.checkpoints) <= Len(cps)
         /\ \A i \in 1..Len(j.checkpoints) :
              Sound(j.checkpoints[i], i) /\ SameHash(j.checkpoints[i], cps[i])
    /\ j.pc \in {"loaded", "transaction"} => Len(j.checkpoints) = Len(j.events)

LoadInv == RowInv /\ PairsInv /\ \A h \in Handlers : CopyInv(job[h], checkpoints)

\* No checkpoint is lost, and a checkpoint keeps its hash.
Continues(cps, later) ==
    Len(cps) <= Len(later) /\ \A i \in 1..Len(cps) : SameHash(cps[i], later[i])

\* What a handler has read stays true of a chain that continues.
LEMMA CopyKept ==
    ASSUME NEW j \in Job, NEW cps \in Seq(Checkpoint), NEW later \in Seq(Checkpoint),
           Continues(cps, later), CopyInv(j, cps)
    PROVE  CopyInv(j, later)
<1>1. Len(j.checkpoints) \in Nat /\ Len(cps) \in Nat /\ Len(later) \in Nat
  BY LenProperties DEF Job
<1> QED BY <1>1 DEF CopyInv, Continues, SameHash

\* A handler that has not read the checkpoints yet.
LEMMA NotCopied ==
    ASSUME NEW j, j.pc \in {"idle", "events", "checkpoints", "anchor"}
    PROVE  \A cps : CopyInv(j, cps)
  BY DEF CopyInv

\* A step of one handler that leaves the tables alone.
LEMMA LocalCopy ==
    ASSUME LoadInv, RowInv', NEW h \in Handlers, NEW j, CopyInv(j, checkpoints),
           job' = [job EXCEPT ![h] = j], UNCHANGED <<events, checkpoints>>
    PROVE  LoadInv'
<1>1. PairsInv'
  BY DEF LoadInv, PairsInv
<1>2. \A g \in Handlers : CopyInv(job'[g], checkpoints)
  BY DEF LoadInv, RowInv, TypeInv, TypeOK
<1>3. \A g \in Handlers : CopyInv(job'[g], checkpoints')
  BY <1>2
<1> QED BY <1>1, <1>3 DEF LoadInv

\* A step that continues the chain and ends its handler.
LEMMA WriteCopy ==
    ASSUME LoadInv, RowInv', PairsInv', NEW h \in Handlers, job' = [job EXCEPT ![h] = IdleJob],
           checkpoints' \in Seq(Checkpoint), Continues(checkpoints, checkpoints')
    PROVE  LoadInv'
<1>1. ASSUME NEW g \in Handlers PROVE CopyInv(job'[g], checkpoints')
  <2>1. job[g] \in Job /\ CopyInv(job[g], checkpoints) /\ checkpoints \in Seq(Checkpoint)
    BY DEF LoadInv, RowInv, TypeInv, TypeOK
  <2>2. CASE g = h
    <3>1. job'[g] = IdleJob
      BY <2>2 DEF LoadInv, RowInv, TypeInv, TypeOK
    <3> QED BY <3>1, IdleJobOK, NotCopied
  <2>3. CASE g # h
    <3>1. job'[g] = job[g]
      BY <2>3 DEF LoadInv, RowInv, TypeInv, TypeOK
    <3> QED BY <2>1, <3>1, CopyKept
  <2> QED BY <2>2, <2>3
<1> QED BY <1>1 DEF LoadInv

LEMMA CommitContinues ==
    ASSUME LoadInv, NEW h \in Handlers, Commit(h)
    PROVE  PairsInv' /\ checkpoints' \in Seq(Checkpoint) /\ Continues(checkpoints, checkpoints')
<1> DEFINE e == job[h].event
           c == job[h].checkpoint
<1>0. /\ events \in Seq(NameEvent) /\ checkpoints \in Seq(Checkpoint) /\ PairsInv
  BY DEF LoadInv, RowInv, TypeInv, TypeOK
<1>1. /\ e \in NameEvent /\ c \in Checkpoint /\ c.anchor = NoHash
      /\ c.size = Len(Append(events, e)) /\ VerifyCheckpoint(c)
      /\ events' = Append(events, e) /\ checkpoints' = Append(checkpoints, c)
  BY CommitFacts DEF LoadInv, CandidateOK
<1> HIDE DEF e, c
<1>2. /\ Len(events') = Len(events) + 1 /\ Len(checkpoints') = Len(checkpoints) + 1
      /\ checkpoints' \in Seq(Checkpoint) /\ checkpoints'[Len(checkpoints) + 1] = c
      /\ \A i \in 1..Len(checkpoints) : checkpoints'[i] = checkpoints[i]
      /\ Len(checkpoints) \in Nat
  BY <1>0, <1>1, AppendProperties, LenProperties
<1>3. Len(checkpoints') = Len(events') /\ c.size = Len(checkpoints) + 1
  BY <1>0, <1>1, <1>2 DEF PairsInv
<1>4. ASSUME NEW i \in 1..Len(checkpoints') PROVE Sound(checkpoints'[i], i)
  <2>1. CASE i \in 1..Len(checkpoints)
    BY <1>0, <1>2, <2>1 DEF PairsInv
  <2>2. CASE i = Len(checkpoints) + 1
    BY <1>1, <1>2, <1>3, <2>2 DEF Sound
  <2> QED BY <1>2, <2>1, <2>2
<1>5. Continues(checkpoints, checkpoints')
  BY <1>2 DEF Continues, SameHash
<1> QED BY <1>2, <1>3, <1>4, <1>5 DEF PairsInv

LEMMA AnchorContinues ==
    ASSUME LoadInv, NEW h \in Handlers, NEW op \in Operators, AnchorLatest(h, op)
    PROVE  PairsInv' /\ checkpoints' \in Seq(Checkpoint) /\ Continues(checkpoints, checkpoints')
<1> DEFINE c == Anchored(h, op)
           n == Len(checkpoints)
<1>1. /\ checkpoints # <<>> /\ checkpoints' = [checkpoints EXCEPT ![n] = c]
      /\ c \in Checkpoint /\ VerifyCheckpoint(c) /\ c.anchor = HashOf(c) /\ SameHash(c, checkpoints[n])
      /\ events' = events /\ checkpoints \in Seq(Checkpoint) /\ PairsInv
  BY AnchorReplaces DEF LoadInv, RowInv, TypeInv, TypeOK, AnchorLatest
<1>2. n \in 1..n /\ checkpoints[n] \in Checkpoint
  BY <1>1, LatestHashType
<1> HIDE DEF c
<1>3. c.size = n
  BY <1>1, <1>2, HashInjective DEF PairsInv, Sound
<1>4. /\ checkpoints' \in Seq(Checkpoint) /\ Len(checkpoints') = n
      /\ \A i \in 1..n : checkpoints'[i] = IF i = n THEN c ELSE checkpoints[i]
  BY <1>1, <1>2
<1>5. \A i \in 1..n : Sound(checkpoints'[i], i)
  BY <1>1, <1>3, <1>4 DEF PairsInv, Sound
<1>6. Continues(checkpoints, checkpoints')
  <2>1. n \in Nat /\ n <= Len(checkpoints')
    BY <1>1, <1>4, LenProperties
  <2>2. ASSUME NEW i \in 1..n PROVE HashOf(checkpoints[i]) = HashOf(checkpoints'[i])
    BY <1>1, <1>4 DEF SameHash
  <2> QED BY <2>1, <2>2 DEF Continues, SameHash
<1> QED BY <1>1, <1>4, <1>5, <1>6 DEF PairsInv

\* The replay accepts no more checkpoints than events.
LEMMA LoadSucceedsCopy ==
    ASSUME LoadInv, NEW h \in Handlers, LoadSucceeds(h)
    PROVE  Len(job[h].checkpoints) = Len(job[h].events)
<1> DEFINE j == job[h]
           n == Len(j.checkpoints)
<1>1. /\ j \in Job /\ CopyInv(j, checkpoints) /\ j.pc = "profiles" /\ VerifyChain(j.events, j.checkpoints)
  BY DEF LoadInv, RowInv, TypeInv, TypeOK, LoadSucceeds, VerifyLoad, VerifyFullReplay
<1> HIDE DEF j
<1>2. n \in Nat /\ Len(j.events) \in Nat /\ Len(j.events) <= n
  BY <1>1, LenProperties DEF Job, CopyInv
<1>3. CASE n = 0
  BY <1>2, <1>3 DEF j
<1>4. CASE n # 0
  <2>1. n \in 1..n
    BY <1>2, <1>4
  <2>2. j.checkpoints[n].size = n /\ j.checkpoints[n].size <= Len(j.events)
    BY <1>1, <2>1 DEF CopyInv, Sound, VerifyChain, VerifyAgainstLog
  <2> QED BY <1>2, <2>2 DEF j
<1> QED BY <1>3, <1>4

LEMMA LoadStep == LoadInv /\ [Next]_vars => LoadInv'
<1> SUFFICES ASSUME LoadInv, [Next]_vars PROVE LoadInv'
  OBVIOUS
<1>0. RowInv' /\ job \in [Handlers -> Job]
  BY RowStep DEF LoadInv, RowInv, TypeInv, TypeOK
<1>1. ASSUME NEW h \in Handlers, HandlerStep(h) PROVE LoadInv'
  <2> DEFINE j == job[h]
  <2>0. j \in Job /\ CopyInv(j, checkpoints)
    BY <1>0 DEF LoadInv
  <2>1. CASE Commit(h)
    BY <1>0, <2>1, CommitContinues, WriteCopy DEF Commit, Fail
  <2>2. ASSUME NEW op \in Operators, AnchorLatest(h, op) PROVE LoadInv'
    BY <1>0, <2>2, AnchorContinues, WriteCopy DEF AnchorLatest, Fail
  <2>3. CASE \/ LoadFails(h) \/ PrepareRejects(h) \/ CommitRejects(h) \/ CommitConflicts(h)
             \/ NothingToAnchor(h) \/ AnchorFails(h) \/ \E op \in Operators : AnchorConflicts(h, op)
    <3>1. job' = [job EXCEPT ![h] = IdleJob] /\ UNCHANGED <<events, checkpoints>>
      BY <2>3 DEF LoadFails, PrepareRejects, CommitRejects, CommitConflicts,
                  NothingToAnchor, AnchorFails, AnchorConflicts, Fail, db
    <3>2. CopyInv(IdleJob, checkpoints)
      BY IdleJobOK, NotCopied
    <3> QED BY <1>0, <3>1, <3>2, LocalCopy
  <2>4. ASSUME NEW id \in Ids, BeginPublish(h, id) PROVE LoadInv'
    <3> DEFINE n == [IdleJob EXCEPT !.pc = "events", !.id = id, !.existing = profiles[id]]
    <3>1. n.pc = "events"
      BY DEF IdleJob
    <3>2. job' = [job EXCEPT ![h] = n] /\ UNCHANGED <<events, checkpoints>>
      BY <2>4 DEF BeginPublish, db
    <3> HIDE DEF n
    <3>3. CopyInv(n, checkpoints)
      BY <3>1, NotCopied
    <3> QED BY <1>0, <3>2, <3>3, LocalCopy
  <2>5. CASE BeginAnchor(h)
    <3> DEFINE n == [IdleJob EXCEPT !.pc = "events", !.goal = "anchor"]
    <3>1. n.pc = "events"
      BY DEF IdleJob
    <3>2. job' = [job EXCEPT ![h] = n] /\ UNCHANGED <<events, checkpoints>>
      BY <2>5 DEF BeginAnchor, db
    <3> HIDE DEF n
    <3>3. CopyInv(n, checkpoints)
      BY <3>1, NotCopied
    <3> QED BY <1>0, <3>2, <3>3, LocalCopy
  <2>6. CASE ReadEvents(h)
    <3> DEFINE n == [j EXCEPT !.pc = "checkpoints", !.events = events]
    <3>1. n.pc = "checkpoints"
      BY <2>0 DEF Job
    <3>2. job' = [job EXCEPT ![h] = n] /\ UNCHANGED <<events, checkpoints>>
      BY <2>6 DEF ReadEvents, db
    <3> HIDE DEF n
    <3>3. CopyInv(n, checkpoints)
      BY <3>1, NotCopied
    <3> QED BY <1>0, <3>2, <3>3, LocalCopy
  <2>7. CASE Prepare(h)
    <3>0. TypeInv
      BY DEF LoadInv, RowInv
    <3>1. PICK e \in NameEvent, c \in Checkpoint :
             /\ job' = [job EXCEPT ![h] = [job[h] EXCEPT !.pc = "events", !.goal = "commit",
                                                         !.event = e, !.checkpoint = c]]
             /\ c.prev = LatestHash(job[h].checkpoints)
      BY <2>7, <3>0, PrepareStep
    <3> DEFINE n == [j EXCEPT !.pc = "events", !.goal = "commit", !.event = e, !.checkpoint = c]
    <3>2. n.pc = "events"
      BY <2>0 DEF Job
    <3>3. job' = [job EXCEPT ![h] = n] /\ UNCHANGED <<events, checkpoints>>
      BY <2>7, <3>1 DEF Prepare, db
    <3> HIDE DEF n
    <3>4. CopyInv(n, checkpoints)
      BY <3>2, NotCopied
    <3> QED BY <1>0, <3>3, <3>4, LocalCopy
  <2>8. CASE TakeLatest(h)
    <3> DEFINE last == j.checkpoints[Len(j.checkpoints)]
               n == [j EXCEPT !.pc = "anchor", !.checkpoint = [last EXCEPT !.anchor = HashOf(last)]]
    <3>1. n.pc = "anchor"
      BY <2>0 DEF Job
    <3>2. job' = [job EXCEPT ![h] = n] /\ UNCHANGED <<events, checkpoints>>
      BY <2>8 DEF TakeLatest, db
    <3> HIDE DEF n
    <3>3. CopyInv(n, checkpoints)
      BY <3>1, NotCopied
    <3> QED BY <1>0, <3>2, <3>3, LocalCopy
  <2>9. CASE ReadCheckpoints(h)
    <3> DEFINE n == [j EXCEPT !.pc = "profiles", !.checkpoints = checkpoints]
    <3>1. /\ events \in Seq(NameEvent) /\ checkpoints \in Seq(Checkpoint) /\ PairsInv
          /\ SeenInv(j, events) /\ j.pc = "checkpoints"
      BY <2>9 DEF LoadInv, RowInv, TypeInv, TypeOK, ReadCheckpoints
    <3>2. job' = [job EXCEPT ![h] = n] /\ UNCHANGED <<events, checkpoints>>
      BY <2>9 DEF ReadCheckpoints, db
    <3> HIDE DEF j
    <3>3. Len(j.events) <= Len(events)
      BY <2>0, <3>1, IsPrefixElements DEF SeenInv, Job
    <3>4. n.pc = "profiles" /\ n.events = j.events /\ n.checkpoints = checkpoints
      BY <2>0 DEF Job
    <3> HIDE DEF n
    <3>5. Len(checkpoints) \in Nat
      BY <3>1, LenProperties
    <3>6. CopyInv(n, checkpoints)
      BY <3>1, <3>3, <3>4, <3>5 DEF CopyInv, PairsInv, SameHash
    <3> QED BY <1>0, <3>2, <3>6, LocalCopy
  <2>10. CASE LoadSucceeds(h)
    <3> DEFINE n == [j EXCEPT !.pc = "loaded"]
    <3>1. Len(j.checkpoints) = Len(j.events) /\ j.pc = "profiles"
      BY <2>10, LoadSucceedsCopy DEF LoadSucceeds
    <3>2. job' = [job EXCEPT ![h] = n] /\ UNCHANGED <<events, checkpoints>>
      BY <2>10 DEF LoadSucceeds, Goto, db
    <3>3. n.pc = "loaded" /\ n.events = j.events /\ n.checkpoints = j.checkpoints
      BY <2>0 DEF Job
    <3> HIDE DEF n, j
    <3>4. CopyInv(n, checkpoints)
      BY <2>0, <3>1, <3>3 DEF CopyInv
    <3> QED BY <1>0, <3>2, <3>4, LocalCopy
  <2>11. CASE Validate(h)
    <3> DEFINE n == [j EXCEPT !.pc = "transaction"]
    <3>1. j.pc = "loaded" /\ job' = [job EXCEPT ![h] = n] /\ UNCHANGED <<events, checkpoints>>
      BY <2>11 DEF Validate, At, Goto, db
    <3>2. n.pc = "transaction" /\ n.events = j.events /\ n.checkpoints = j.checkpoints
      BY <2>0 DEF Job
    <3> HIDE DEF n, j
    <3>3. CopyInv(n, checkpoints)
      BY <2>0, <3>1, <3>2 DEF CopyInv
    <3> QED BY <1>0, <3>1, <3>3, LocalCopy
  <2> QED
    BY <1>1, <2>1, <2>2, <2>3, <2>4, <2>5, <2>6, <2>7, <2>8, <2>9, <2>10, <2>11 DEF HandlerStep
<1>2. CASE Crash
  <2>1. PairsInv'
    BY <1>2 DEF Crash, db, LoadInv, PairsInv
  <2>2. \A g \in Handlers : CopyInv(job'[g], checkpoints')
    BY <1>2, IdleJobOK, NotCopied DEF Crash
  <2> QED BY <1>0, <2>1, <2>2 DEF LoadInv
<1>3. CASE Tick \/ StepBack \/ UNCHANGED vars
  <2>1. events' = events /\ checkpoints' = checkpoints /\ job' = job
    BY <1>3 DEF Tick, StepBack, db, vars
  <2>2. PairsInv' /\ \A g \in Handlers : CopyInv(job'[g], checkpoints')
    BY <2>1 DEF LoadInv, PairsInv
  <2> QED BY <1>0, <2>2 DEF LoadInv
<1> QED BY <1>1, <1>2, <1>3 DEF Next

LEMMA LoadInit == Init => LoadInv
<1> SUFFICES ASSUME Init PROVE LoadInv
  OBVIOUS
<1>1. Len(checkpoints) = 0 /\ Len(events) = 0
  BY EmptySeq DEF Init
<1>2. PairsInv
  BY <1>1 DEF PairsInv
<1>3. \A h \in Handlers : CopyInv(job[h], checkpoints)
  BY IdleJobOK, NotCopied DEF Init
<1> QED BY <1>2, <1>3, RowInit DEF LoadInv

\* What the latest hash of a copy that was loaded is, in the table.
LEMMA LoadedHash ==
    ASSUME LoadInv, NEW h \in Handlers, job[h].pc \in {"loaded", "transaction"}
    PROVE  LET j == job[h] IN
           /\ IsPrefix(j.events, events)
           /\ Len(j.checkpoints) = Len(j.events)
           /\ LatestHash(j.checkpoints) = LatestHash(Prefix(checkpoints, Len(j.checkpoints)))
<1> DEFINE j == job[h]
           n == Len(j.checkpoints)
           p == Prefix(checkpoints, n)
<1>1. /\ j \in Job /\ SeenInv(j, events) /\ CopyInv(j, checkpoints)
      /\ j.pc \in {"loaded", "transaction"} /\ checkpoints \in Seq(Checkpoint)
  BY DEF LoadInv, RowInv, TypeInv, TypeOK
<1> HIDE DEF j
<1>2. /\ j.checkpoints \in Seq(Checkpoint) /\ n \in Nat /\ n <= Len(checkpoints) /\ n = Len(j.events)
      /\ \A i \in 1..n : SameHash(j.checkpoints[i], checkpoints[i])
      /\ IsPrefix(j.events, events)
  BY <1>1, LenProperties DEF Job, CopyInv, SeenInv
<1>3. p \in Seq(Checkpoint) /\ Len(p) = n /\ \A i \in 1..n : p[i] = checkpoints[i]
  <2>1. n \in 0..Len(checkpoints)
    BY <1>1, <1>2, LenProperties
  <2> HIDE DEF n
  <2> QED BY <1>1, <2>1, PrefixType
<1> HIDE DEF p
<1>4. LatestHash(j.checkpoints) = LatestHash(p)
  <2>1. CASE n = 0
    <3>1. j.checkpoints = <<>> /\ p = <<>>
      BY <1>2, <1>3, <2>1, EmptySeq
    <3> QED BY <3>1
  <2>2. CASE n # 0
    <3>1. n \in 1..n /\ j.checkpoints # <<>> /\ p # <<>>
      BY <1>2, <1>3, <2>2, EmptySeq
    <3> QED BY <1>2, <1>3, <3>1 DEF LatestHash, SameHash
  <2> QED BY <2>1, <2>2
<1> QED BY <1>2, <1>4 DEF j, p

\* load_log hands out one committed state, although its three reads are separate and handlers
\* commit and anchor between them, and even if the clock is set back: the replay refuses every
\* torn combination (TransactionalTransparencyStore::load_log).
THEOREM LoadedIsCommittedHolds == Spec => []LoadedIsCommitted
<1>1. LoadInv => LoadedIsCommitted
  BY LoadedHash DEF LoadedIsCommitted
<1> QED BY <1>1, LoadInit, LoadStep, PTL DEF Spec

\* The replay looks at checkpoints through their hashes, and at the signature and the anchor of
\* each one alone.
LEMMA ChainSameHash ==
    ASSUME NEW log \in Seq(NameEvent), NEW cps \in Seq(Checkpoint), NEW copy \in Seq(Checkpoint),
           VerifyChain(log, cps), Len(copy) = Len(cps),
           \A i \in 1..Len(cps) : Sound(copy[i], i) /\ SameHash(copy[i], cps[i])
    PROVE  VerifyChain(log, copy)
<1>1. ASSUME NEW i \in 1..Len(copy)
      PROVE  /\ VerifyAgainstLog(log, copy[i])
             /\ \A j \in 1..(i - 1) : copy[j].size = copy[i].size => HashOf(copy[j]) = HashOf(copy[i])
             /\ IF i = 1 THEN copy[i].prev = NoHash /\ copy[i].operator_sequence = 0
                         ELSE VerifySuccessor(log, copy[i - 1], copy[i])
  <2> DEFINE a == copy[i]
             b == cps[i]
  <2>1. a \in Checkpoint /\ b \in Checkpoint /\ SameHash(a, b) /\ Sound(a, i) /\ Len(cps) \in Nat
    BY LenProperties
  <2>2. /\ VerifyAgainstLog(log, b)
        /\ IF i = 1 THEN b.prev = NoHash /\ b.operator_sequence = 0
                    ELSE VerifySuccessor(log, cps[i - 1], b)
    BY DEF VerifyChain
  <2>3. \A j \in 1..(i - 1) : copy[j].size = j /\ a.size = i
    BY <2>1 DEF Sound
  <2> HIDE DEF a, b
  <2>4. /\ a.size = b.size /\ a.root = b.root /\ a.created_at = b.created_at
        /\ a.operator = b.operator /\ a.operator_sequence = b.operator_sequence
        /\ a.rotated_from = b.rotated_from /\ a.prev = b.prev /\ HashOf(a) = HashOf(b)
    BY <2>1, HashInjective DEF SameHash
  <2>5. VerifyAgainstLog(log, a)
    BY <2>1, <2>2, <2>4 DEF VerifyAgainstLog, Sound
  <2>6. ASSUME i # 1 PROVE VerifySuccessor(log, copy[i - 1], a)
    <3> DEFINE p == copy[i - 1]
               q == cps[i - 1]
    <3>1. p \in Checkpoint /\ q \in Checkpoint /\ SameHash(p, q)
      BY <2>1, <2>6
    <3>2. VerifySuccessor(log, q, b)
      BY <2>2, <2>6
    <3> HIDE DEF p, q
    <3>3. /\ p.size = q.size /\ p.root = q.root /\ p.created_at = q.created_at
          /\ p.operator = q.operator /\ p.operator_sequence = q.operator_sequence
          /\ HashOf(p) = HashOf(q)
      BY <3>1, HashInjective DEF SameHash
    <3>4. VerifyCheckpoint(a)
      BY <2>1 DEF Sound
    <3>5. VerifySuccessor(log, p, a)
      BY <2>4, <3>2, <3>3, <3>4 DEF VerifySuccessor, VerifyCheckpointTransition, OperatorContinuity
    <3> QED BY <3>5 DEF p
  <2> QED BY <2>2, <2>3, <2>4, <2>5, <2>6 DEF a
<1> QED BY <1>1 DEF VerifyChain

\* A handler whose events are still all of them has a copy that replays.
LEMMA CurrentCopyReplays ==
    ASSUME Inv, LoadInv, NEW h \in Handlers, job[h].pc = "profiles", Len(events) <= Len(job[h].events)
    PROVE  VerifyLoad(job[h].events, job[h].checkpoints, profiles)
<1> DEFINE j == job[h]
<1>1. /\ j \in Job /\ SeenInv(j, events) /\ CopyInv(j, checkpoints) /\ j.pc = "profiles"
      /\ Len(events) <= Len(j.events)
      /\ events \in Seq(NameEvent) /\ checkpoints \in Seq(Checkpoint)
      /\ ChainInv /\ RowsInv
  BY DEF Inv, LoadInv, RowInv, TypeInv, TypeOK
<1> HIDE DEF j
<1>2. /\ j.events \in Seq(NameEvent) /\ j.checkpoints \in Seq(Checkpoint) /\ IsPrefix(j.events, events)
      /\ Len(j.events) <= Len(j.checkpoints) /\ Len(j.checkpoints) <= Len(checkpoints)
      /\ Len(checkpoints) = Len(events)
      /\ \A i \in 1..Len(j.checkpoints) :
           Sound(j.checkpoints[i], i) /\ SameHash(j.checkpoints[i], checkpoints[i])
  BY <1>1 DEF Job, SeenInv, CopyInv, ChainInv
<1>3. /\ Len(j.events) \in Nat /\ Len(j.checkpoints) \in Nat /\ Len(checkpoints) \in Nat
  BY <1>1, <1>2, LenProperties
<1>4. Len(j.events) = Len(events) /\ Len(j.checkpoints) = Len(checkpoints)
  BY <1>1, <1>2, <1>3
<1>5. j.events = events
  BY <1>1, <1>2, <1>4, IsPrefixSameLength
<1>6. VerifyChain(events, j.checkpoints)
  BY <1>1, <1>2, <1>4, ChainSameHash DEF ChainInv, VerifyFullReplay
<1> QED BY <1>1, <1>5, <1>6 DEF VerifyLoad, VerifyFullReplay, ChainInv, RowsInv, j

\* A transaction whose events are still all of them finds nothing moved.
LEMMA CurrentCopyUnmoved ==
    ASSUME LoadInv, NEW h \in Handlers, job[h].pc = "transaction", Len(events) <= Len(job[h].events)
    PROVE  Unmoved(job[h])
<1> DEFINE j == job[h]
<1>1. /\ IsPrefix(j.events, events) /\ Len(j.checkpoints) = Len(j.events)
      /\ LatestHash(j.checkpoints) = LatestHash(Prefix(checkpoints, Len(j.checkpoints)))
  BY LoadedHash
<1>2. /\ j.events \in Seq(NameEvent) /\ events \in Seq(NameEvent) /\ checkpoints \in Seq(Checkpoint)
      /\ Len(checkpoints) = Len(events) /\ Len(events) <= Len(j.events)
  BY DEF LoadInv, RowInv, TypeInv, TypeOK, PairsInv, Job
<1> HIDE DEF j
<1>3. Len(j.events) = Len(events)
  BY <1>1, <1>2, IsPrefixElements, LenProperties
<1>4. Prefix(checkpoints, Len(j.checkpoints)) = checkpoints
  BY <1>1, <1>2, <1>3, PrefixFull
<1> QED BY <1>1, <1>2, <1>3, <1>4 DEF Unmoved, j

\* While the clock does not go back, no handler sees a corrupt store or has to retry unless a
\* commit overtook it: neither an anchor nor a crash elsewhere makes a load or a transaction
\* fail (load_log, commit_profile_event_checkpoint).
THEOREM FailsOnlyIfOvertakenHolds ==
    ASSUME ~ClockMayStepBack
    PROVE  Spec => FailsOnlyIfOvertaken
<1> DEFINE A == \A h \in Handlers :
                  LoadFails(h) \/ CommitConflicts(h) => Len(events) > Len(job[h].events)
<1>1. Inv /\ LoadInv => A
  <2> SUFFICES ASSUME Inv, LoadInv, NEW h \in Handlers, LoadFails(h) \/ CommitConflicts(h),
                      ~(Len(events) > Len(job[h].events))
               PROVE  FALSE
    OBVIOUS
  <2>1. events \in Seq(NameEvent) /\ job[h].events \in Seq(NameEvent)
    BY DEF LoadInv, RowInv, TypeInv, TypeOK, Job
  <2>2. Len(events) <= Len(job[h].events)
    BY <2>1, LenProperties
  <2>3. ~LoadFails(h)
    BY <2>2, CurrentCopyReplays DEF LoadFails
  <2>4. ~CommitConflicts(h)
    BY <2>2, CurrentCopyUnmoved DEF CommitConflicts
  <2> QED BY <2>3, <2>4
<1>2. Spec => [](Inv /\ LoadInv)
  BY InvInit, InvStep, LoadInit, LoadStep, PTL DEF Spec
<1>3. Spec => [][A]_vars
  BY <1>1, <1>2, PTL
<1> QED BY <1>3 DEF FailsOnlyIfOvertaken

--------------------------------------------------------------------------------
(* Resolution: publishers, resolvers and the pin file *)

\* What a resolver has established when it comes to its pin.
ResolverInv(j, s) ==
    /\ j.pc # "idle" => j.id \in Ids /\ j.existing \in Profile /\ j.goal = "resolve"
    /\ s # "none" => j.pc = "loaded" /\ Proved(j)

TypesInv ==
    /\ TypeInv
    /\ ResolutionTypeOK
    /\ \A h \in Resolvers : ResolverInv(job[h], stage[h])

\* The latest checkpoint of a resolver that holds one.
LEMMA LatestCheckpointType ==
    ASSUME NEW j \in Job, Proved(j)
    PROVE  LatestCheckpoint(j) \in Checkpoint
<1>1. j.checkpoints \in Seq(Checkpoint) /\ j.checkpoints # <<>>
  BY DEF Job, Proved
<1> QED BY <1>1, LatestHashType DEF LatestCheckpoint

\* What is pinned of a checkpoint is one too, of the same log.
LEMMA PinOfType ==
    ASSUME NEW c \in Checkpoint
    PROVE  PinOf(c) \in Checkpoint /\ PinOf(c).root = c.root
<1>1. NoHash \in CheckpointHash
  BY EmptySeq DEF NoHash, CheckpointHash
<1> QED BY <1>1 DEF PinOf, Checkpoint

\* A step of a resolver that leaves the database keeps the types if the resolver's
\* own state is well typed after it.
LEMMA ResolverLocal ==
    ASSUME TypesInv, NEW h \in Resolvers, NEW j \in Job, JobInv(j), NEW s \in Stage,
           ResolverInv(j, s),
           job' = [job EXCEPT ![h] = j], stage' = [stage EXCEPT ![h] = s],
           UNCHANGED <<db, clock>>,
           pins' \in Checkpoint \cup {None}, tmp' \in Checkpoint \cup {None},
           answers' \in SUBSET Answer, stale' \in SUBSET Resolvers, raced' \in BOOLEAN
    PROVE  TypesInv'
<1>1. h \in Handlers
  BY ResolversAssumption
<1>2. TypeInv'
  BY <1>1, LocalStep DEF TypesInv
<1>3. stage' \in [Resolvers -> Stage]
  BY DEF TypesInv, ResolutionTypeOK
<1>4. ResolutionTypeOK'
  BY <1>2, <1>3 DEF ResolutionTypeOK, TypeInv
<1>5. ASSUME NEW g \in Resolvers PROVE ResolverInv(job'[g], stage'[g])
  <2>1. job'[g] = IF g = h THEN j ELSE job[g]
    BY <1>1, ResolversAssumption DEF TypesInv, TypeInv, TypeOK
  <2>2. stage'[g] = IF g = h THEN s ELSE stage[g]
    BY DEF TypesInv, ResolutionTypeOK
  <2> QED BY <2>1, <2>2 DEF TypesInv
<1>6. \A g \in Resolvers : ResolverInv(job[g], stage[g])'
  BY <1>5 DEF ResolverInv
<1> QED BY <1>2, <1>4, <1>6 DEF TypesInv

\* Every step of a resolver keeps the types.
LEMMA ResolverType ==
    ASSUME TypesInv, NEW h \in Resolvers, ResolverStep(h)
    PROVE  TypesInv'
<1> DEFINE j == job[h]
           s == stage[h]
<1>0. /\ h \in Handlers /\ j \in Job /\ JobInv(j) /\ s \in Stage /\ ResolverInv(j, s)
      /\ job \in [Handlers -> Job] /\ stage \in [Resolvers -> Stage]
      /\ events \in Seq(NameEvent) /\ checkpoints \in Seq(Checkpoint)
      /\ profiles \in [Ids -> Profile \cup {None}]
      /\ pins \in Checkpoint \cup {None} /\ tmp \in Checkpoint \cup {None}
      /\ answers \in SUBSET Answer
  BY ResolversAssumption DEF TypesInv, TypeInv, TypeOK, ResolutionTypeOK
<1>a. job = [job EXCEPT ![h] = j] /\ stage = [stage EXCEPT ![h] = s]
  BY <1>0
<1>c. stale' \in SUBSET Resolvers /\ raced' \in BOOLEAN
  <2>1. stale \in SUBSET Resolvers /\ raced \in BOOLEAN
    BY DEF TypesInv, ResolutionTypeOK
  <2> QED BY <2>1 DEF ResolverStep, BeginResolve, Load, CheckPin, ResolveRejects, LoadPin,
                      PinFails, WriteTmp, RenameTmp, pinVars
<1>b. IdleJob \in Job /\ JobInv(IdleJob) /\ ResolverInv(IdleJob, "none") /\ "none" \in Stage
  BY IdleJobOK DEF ResolverInv, Stage
<1>1. ASSUME NEW id \in Ids, BeginResolve(h, id) PROVE TypesInv'
  <2> DEFINE n == [IdleJob EXCEPT !.pc = "events", !.goal = "resolve", !.id = id,
                                  !.existing = profiles[id]]
  <2>1. n \in Job /\ JobInv(n)
    BY <1>0, EmptySeq DEF IdleJob, Job, PC, Goal, JobInv
  <2>2. s = "none"
    BY <1>0, <1>1 DEF BeginResolve, ResolverInv
  <2>3. ResolverInv(n, s)
    BY <1>0, <1>1, <2>2 DEF BeginResolve, ResolverInv, IdleJob
  <2>4. /\ job' = [job EXCEPT ![h] = n] /\ stage' = [stage EXCEPT ![h] = s]
        /\ UNCHANGED <<db, clock, pins, tmp, answers>>
    BY <1>1, <1>a DEF BeginResolve, pinVars
  <2> HIDE DEF n, s
  <2> QED BY <1>0, <2>1, <2>3, <2>4, <1>c, ResolverLocal DEF s
<1>2. CASE Load(h)
  <2>0. stage' = [stage EXCEPT ![h] = s] /\ UNCHANGED <<pins, tmp, answers>>
    BY <1>2, <1>a DEF Load, pinVars
  <2>1. CASE ReadEvents(h)
    <3> DEFINE n == [j EXCEPT !.pc = "checkpoints", !.events = events]
    <3>1. n \in Job /\ JobInv(n) /\ ResolverInv(n, s)
      BY <1>0, <2>1 DEF ReadEvents, Job, PC, JobInv, ResolverInv
    <3>2. job' = [job EXCEPT ![h] = n] /\ UNCHANGED <<db, clock>>
      BY <2>1 DEF ReadEvents
    <3> HIDE DEF n, s
    <3> QED BY <1>0, <2>0, <3>1, <3>2, <1>c, ResolverLocal DEF s
  <2>2. CASE ReadCheckpoints(h)
    <3> DEFINE n == [j EXCEPT !.pc = "profiles", !.checkpoints = checkpoints]
    <3>1. n \in Job /\ JobInv(n) /\ ResolverInv(n, s)
      BY <1>0, <2>2 DEF ReadCheckpoints, Job, PC, JobInv, ResolverInv
    <3>2. job' = [job EXCEPT ![h] = n] /\ UNCHANGED <<db, clock>>
      BY <2>2 DEF ReadCheckpoints
    <3> HIDE DEF n, s
    <3> QED BY <1>0, <2>0, <3>1, <3>2, <1>c, ResolverLocal DEF s
  <2>3. CASE LoadSucceeds(h)
    <3> DEFINE n == [j EXCEPT !.pc = "loaded"]
    <3>1. n \in Job /\ JobInv(n) /\ ResolverInv(n, s)
      BY <1>0, <2>3 DEF LoadSucceeds, Job, PC, JobInv, ResolverInv
    <3>2. job' = [job EXCEPT ![h] = n] /\ UNCHANGED <<db, clock>>
      BY <2>3 DEF LoadSucceeds, Goto
    <3> HIDE DEF n, s
    <3> QED BY <1>0, <2>0, <3>1, <3>2, <1>c, ResolverLocal DEF s
  <2>4. CASE LoadFails(h)
    <3>1. ResolverInv(IdleJob, s) /\ job' = [job EXCEPT ![h] = IdleJob] /\ UNCHANGED <<db, clock>>
      BY <1>0, <1>b, <2>4 DEF LoadFails, Fail, ResolverInv
    <3> HIDE DEF s
    <3> QED BY <1>0, <1>b, <2>0, <3>1, <1>c, ResolverLocal DEF s
  <2> QED BY <1>2, <2>1, <2>2, <2>3, <2>4 DEF Load
<1>3. CASE CheckPin(h) \/ LoadPin(h) \/ WriteTmp(h)
  <2>1. /\ job' = job /\ UNCHANGED <<db, clock, pins, answers>>
        /\ j.pc = "loaded" /\ Proved(j)
    BY <1>0, <1>3 DEF CheckPin, LoadPin, WriteTmp, At, vars, db, ResolverInv
  <2>2. PinOf(LatestCheckpoint(j)) \in Checkpoint
    BY <1>0, <2>1, LatestCheckpointType, PinOfType
  <2>3. tmp' \in Checkpoint \cup {None}
    BY <1>0, <1>3, <2>2 DEF CheckPin, LoadPin, WriteTmp
  <2>4. \E t \in Stage : stage' = [stage EXCEPT ![h] = t]
    BY <1>3 DEF CheckPin, LoadPin, WriteTmp, Stage
  <2>5. \A t \in Stage : ResolverInv(j, t)
    BY <1>0, <2>1 DEF ResolverInv
  <2> HIDE DEF j
  <2> QED BY <1>0, <1>a, <2>1, <2>3, <2>4, <2>5, <1>c, ResolverLocal
<1>4. CASE ResolveRejects(h) \/ PinFails(h)
  <2>1. /\ job' = [job EXCEPT ![h] = IdleJob] /\ stage' = [stage EXCEPT ![h] = "none"]
        /\ UNCHANGED <<db, clock, pins, tmp, answers>>
    BY <1>0, <1>4, <1>a DEF ResolveRejects, PinFails, Fail, pinVars
  <2> QED BY <1>0, <1>b, <2>1, <1>c, ResolverLocal
<1>5. CASE RenameTmp(h)
  <2>1. /\ job' = [job EXCEPT ![h] = IdleJob] /\ stage' = [stage EXCEPT ![h] = "none"]
        /\ UNCHANGED <<db, clock>> /\ pins' = tmp /\ tmp' = None
        /\ answers' \in {answers, answers \cup {AnswerOf(j)}}
    BY <1>5 DEF RenameTmp, Fail
  <2>2. Proved(j) /\ j.id \in Ids /\ j.existing \in Profile
    BY <1>0, <1>5 DEF RenameTmp, ResolverInv
  <2>3. LatestCheckpoint(j).root \in Seq(NameEvent)
    BY <1>0, <2>2, LatestCheckpointType DEF Checkpoint
  <2>4. AnswerOf(j) \in Answer
    BY <1>0, <2>2, <2>3 DEF AnswerOf, Answer
  <2> QED BY <1>0, <1>b, <2>1, <2>4, <1>c, ResolverLocal
<1> QED BY <1>1, <1>2, <1>3, <1>4, <1>5 DEF ResolverStep

\* The rows of a log are rows of the profile table.
LEMMA RowsOfType ==
    ASSUME NEW log \in Seq(NameEvent)
    PROVE  RowsOf(log) \in [Ids -> Profile \cup {None}]
<1>1. ASSUME NEW id \in Ids
      PROVE  (IF HasHistory(log, id) THEN Latest(log, id).profile ELSE None) \in Profile \cup {None}
  <2>1. CASE HasHistory(log, id)
    BY <2>1, LatestIsLatest DEF NameEvent
  <2> QED BY <2>1
<1> QED BY <1>1 DEF RowsOf

\* Putting the database back keeps the types.
LEMMA RestoreType ==
    ASSUME TypesInv, NEW n \in Nat, Restore(n)
    PROVE  TypesInv'
<1>0. /\ events \in Seq(NameEvent) /\ checkpoints \in Seq(Checkpoint)
      /\ n \in 0..Len(events) /\ n \in 0..Len(checkpoints)
      /\ anchors \in SUBSET CheckpointHash
  BY DEF TypesInv, TypeInv, TypeOK, Restore
<1>1. events' \in Seq(NameEvent) /\ checkpoints' \in Seq(Checkpoint)
  BY <1>0, PrefixType DEF Restore
<1>2. profiles' \in [Ids -> Profile \cup {None}]
  BY <1>0, PrefixType, RowsOfType DEF Restore
<1>3. operator_state' \in OperatorRow
  <2>1. CASE n = 0
    BY <2>1 DEF Restore, OperatorRow
  <2>2. CASE n # 0
    <3>1. checkpoints[n] \in Checkpoint
      BY <1>0, <2>2
    <3> QED BY <2>2, <3>1 DEF Restore, OperatorRow, Checkpoint
  <2> QED BY <2>1, <2>2
<1>4. anchors' \in SUBSET CheckpointHash
  BY <1>0 DEF Restore
<1>5. UNCHANGED <<job, clock, pins, tmp, stage, answers, stale, raced>>
  BY DEF Restore, pinVars
<1>6. TypeOK'
  BY <1>1, <1>2, <1>3, <1>4, <1>5 DEF TypesInv, TypeInv, TypeOK
<1>7. (\A h \in Handlers : JobInv(job[h]))'
  BY <1>5 DEF TypesInv, TypeInv, JobInv
<1>8. ResolutionTypeOK'
  BY <1>5, <1>6 DEF TypesInv, ResolutionTypeOK
<1>9. (\A h \in Resolvers : ResolverInv(job[h], stage[h]))'
  BY <1>5 DEF TypesInv, ResolverInv
<1> QED BY <1>6, <1>7, <1>8, <1>9 DEF TypesInv, TypeInv

\* A publisher moves only its own job, and a resolver's never.
LEMMA PublisherLocal ==
    ASSUME TypeInv, NEW h \in Handlers, HandlerStep(h)
    PROVE  \E j : job' = [job EXCEPT ![h] = j]
<1>1. CASE Prepare(h)
  BY <1>1, PrepareStep
<1>2. CASE ~Prepare(h)
  BY <1>2 DEF HandlerStep, BeginPublish, BeginAnchor, ReadEvents, ReadCheckpoints,
             LoadSucceeds, LoadFails, PrepareRejects, Validate, CommitRejects, Commit,
             CommitConflicts, TakeLatest, NothingToAnchor, AnchorFails, AnchorLatest,
             AnchorConflicts, Goto, Fail
<1> QED BY <1>1, <1>2

\* Steps of publishers leave what resolvers hold.
LEMMA PublisherLeaves ==
    ASSUME TypesInv, NEW h \in Handlers \ Resolvers, HandlerStep(h), UNCHANGED pinVars
    PROVE  /\ TypesInv'
           /\ \A g \in Resolvers : job'[g] = job[g]
<1>1. TypeInv'
  BY HandlerType DEF TypesInv
<1>2. PICK j : job' = [job EXCEPT ![h] = j]
  BY PublisherLocal DEF TypesInv
<1>3. \A g \in Resolvers : job'[g] = job[g]
  BY <1>2, ResolversAssumption DEF TypesInv, TypeInv, TypeOK
<1>4. ResolutionTypeOK'
  BY <1>1 DEF TypesInv, ResolutionTypeOK, TypeInv, pinVars
<1>5. (\A g \in Resolvers : ResolverInv(job[g], stage[g]))'
  BY <1>3 DEF TypesInv, ResolverInv, pinVars
<1> QED BY <1>1, <1>3, <1>4, <1>5 DEF TypesInv

\* When the daemon dies no resolver is left.
LEMMA DieType ==
    ASSUME TypesInv, Die
    PROVE  /\ TypesInv'
           /\ stage' = [h \in Resolvers |-> "none"]
           /\ UNCHANGED <<pins, tmp, answers, raced>>
<1>1. TypeInv'
  BY TypeStep DEF TypesInv, Die, Next
<1>2. job' = [h \in Handlers |-> IdleJob] /\ stage' = [h \in Resolvers |-> "none"]
  BY DEF Die, Crash
<1>3. ResolutionTypeOK'
  BY <1>1, <1>2 DEF TypesInv, ResolutionTypeOK, TypeInv, Die, Stage
<1>4. \A h \in Resolvers : ResolverInv(job'[h], stage'[h])
  BY <1>2, IdleJobOK, ResolversAssumption DEF ResolverInv
<1>5. (\A h \in Resolvers : ResolverInv(job[h], stage[h]))'
  BY <1>4 DEF ResolverInv
<1> QED BY <1>1, <1>2, <1>3, <1>5 DEF TypesInv, Die

\* Every step keeps the types.
LEMMA TypesStep == TypesInv /\ [ResolutionNext]_resolutionVars => TypesInv'
<1> SUFFICES ASSUME TypesInv, [ResolutionNext]_resolutionVars PROVE TypesInv'
  OBVIOUS
<1>1. ASSUME NEW h \in Resolvers, ResolverStep(h) PROVE TypesInv'
  BY <1>1, ResolverType
<1>2. ASSUME NEW h \in Handlers \ Resolvers, HandlerStep(h), UNCHANGED pinVars PROVE TypesInv'
  BY <1>2, PublisherLeaves
<1>3. CASE Die
  BY <1>3, DieType
<1>4. ASSUME NEW n \in 0..MaxEvents, Restore(n) PROVE TypesInv'
  BY <1>4, RestoreType, BoundsAssumption
<1>5. CASE UNCHANGED resolutionVars
  <2>1. TypeInv' /\ UNCHANGED <<job, pins, tmp, stage, answers, stale, raced>>
    BY <1>5, TypeStep DEF TypesInv, resolutionVars, vars, pinVars
  <2>2. ResolutionTypeOK'
    BY <2>1 DEF TypesInv, TypeInv, ResolutionTypeOK
  <2>3. (\A h \in Resolvers : ResolverInv(job[h], stage[h]))'
    BY <2>1 DEF TypesInv, ResolverInv
  <2> QED BY <2>1, <2>2, <2>3 DEF TypesInv
<1> QED BY <1>1, <1>2, <1>3, <1>4, <1>5 DEF ResolutionNext

\* The initial state is well typed.
LEMMA TypesInit == ResolutionInit => TypesInv
<1> SUFFICES ASSUME ResolutionInit PROVE TypesInv
  OBVIOUS
<1>1. TypeInv
  BY TypeInit DEF ResolutionInit
<1>2. \A h \in Resolvers : ResolverInv(job[h], stage[h])
  BY IdleJobOK, ResolversAssumption DEF ResolutionInit, Init, ResolverInv
<1>3. ResolutionTypeOK
  BY <1>1 DEF ResolutionInit, ResolutionTypeOK, TypeInv, Stage
<1> QED BY <1>1, <1>2, <1>3 DEF TypesInv

\* Every variable of resolution keeps its type, for any number of resolvers.
THEOREM ResolutionTypeCorrect == ResolutionSpec => []ResolutionTypeOK
<1>1. TypesInv => ResolutionTypeOK
  BY DEF TypesInv
<1> QED BY <1>1, TypesInit, TypesStep, PTL DEF ResolutionSpec

--------------------------------------------------------------------------------
(* Answers *)

\* Only a rename answers.
LEMMA AnswersChange ==
    ASSUME TypesInv, [ResolutionNext]_resolutionVars
    PROVE  \/ answers' = answers
           \/ \E h \in Resolvers : RenameTmp(h)
  BY DEF ResolutionNext, resolutionVars, pinVars, ResolverStep, BeginResolve, Load, CheckPin,
         ResolveRejects, LoadPin, PinFails, WriteTmp, Die, Restore

\* An answer is the profile of the latest event of its name in the log its
\* checkpoint commits to, for any number of concurrent resolvers and publishers
\* and whatever the database is put back to.
THEOREM AnswerIsProvedHolds == ResolutionSpec => []AnswerIsProved
<1>1. ResolutionInit => AnswerIsProved
  BY DEF ResolutionInit, AnswerIsProved
<1>2. TypesInv /\ AnswerIsProved /\ [ResolutionNext]_resolutionVars => AnswerIsProved'
  <2> SUFFICES ASSUME TypesInv, AnswerIsProved, [ResolutionNext]_resolutionVars
               PROVE  AnswerIsProved'
    OBVIOUS
  <2>1. CASE answers' = answers
    BY <2>1 DEF AnswerIsProved
  <2>2. ASSUME NEW h \in Resolvers, RenameTmp(h) PROVE AnswerIsProved'
    <3> DEFINE a == AnswerOf(job[h])
    <3>1. Proved(job[h]) /\ answers' \in {answers, answers \cup {a}}
      BY <2>2 DEF TypesInv, ResolverInv, RenameTmp
    <3>2. /\ HasHistory(a.log, a.id)
          /\ Latest(a.log, a.id).profile = a.profile
      BY <3>1 DEF Proved, AnswerOf
    <3> HIDE DEF a
    <3> QED BY <3>1, <3>2 DEF AnswerIsProved
  <2> QED BY <2>1, <2>2, AnswersChange
<1> QED BY <1>1, <1>2, TypesInit, TypesStep, PTL DEF ResolutionSpec

--------------------------------------------------------------------------------
(* The pin *)

\* The checkpoint a resolver is about to pin extends the pin, and from its write to
\* its rename the temporary file is its own.
PinInv(j, s, p, t) ==
    /\ s # "none" => p = None \/ IsPrefix(p.root, LatestCheckpoint(j).root)
    /\ s = "rename" => t = PinOf(LatestCheckpoint(j))

\* Of every resolver whose check still stands.
Pinned ==
    /\ TypesInv
    /\ AnsweredIsPinned
    /\ \A h \in Resolvers \ stale : PinInv(job[h], stage[h], pins, tmp)

\* A checkpoint that passes the comparison with the pin extends its log.
LEMMA ExtendsPinPrefix ==
    ASSUME NEW j \in Job, Proved(j), ExtendsPin(j), pins \in Checkpoint
    PROVE  pins = None \/ IsPrefix(pins.root, LatestCheckpoint(j).root)
<1> DEFINE c == LatestCheckpoint(j)
           proof == Consistency(j.events, pins.size, c.size)
<1>1. c \in Checkpoint
  BY LatestCheckpointType
<1>2. c.size \in Nat /\ pins.size \in Nat /\ pins.root \in Seq(NameEvent)
  BY <1>1 DEF Checkpoint
<1>3. pins # None => VerifyCheckpointTransition(pins, c, proof)
  BY DEF ExtendsPin
<1> HIDE DEF c, proof
<1>4. CASE pins # None /\ c.size = pins.size
  <2>1. c.root = pins.root
    BY <1>3, <1>4 DEF VerifyCheckpointTransition
  <2>2. IsPrefix(pins.root, pins.root)
    BY <1>2 DEF IsPrefix
  <2> QED BY <2>1, <2>2 DEF c
<1>5. CASE pins # None /\ c.size # pins.size
  <2>1. proof.old_root = pins.root /\ proof.new_root = c.root /\ VerifyConsistencyProof(proof)
    BY <1>2, <1>3, <1>5 DEF VerifyCheckpointTransition
  <2> QED BY <2>1 DEF VerifyConsistencyProof, c
<1> QED BY <1>4, <1>5

\* What was answered stays in the log of a pin that extends the old one.
LEMMA AnswersStayPinned ==
    ASSUME TypesInv, AnsweredIsPinned, ~raced, NEW c \in Checkpoint, NEW a \in answers,
           pins = None \/ IsPrefix(pins.root, c.root)
    PROVE  IsPrefix(a.log, c.root)
<1>1. pins # None /\ IsPrefix(a.log, pins.root) /\ IsPrefix(pins.root, c.root)
  BY DEF AnsweredIsPinned
<1>2. pins \in Checkpoint /\ a.log \in Seq(NameEvent)
  BY <1>1 DEF TypesInv, ResolutionTypeOK, Answer
<1>3. pins.root \in Seq(NameEvent) /\ c.root \in Seq(NameEvent)
  BY <1>2 DEF Checkpoint
<1> QED BY <1>1, <1>2, <1>3, IsPrefixTransitive

\* The rename of a resolver whose check stands makes its checkpoint the pin.
LEMMA RenamePinned ==
    ASSUME Pinned, NEW h \in Resolvers, RenameTmp(h), ~raced'
    PROVE  AnsweredIsPinned'
<1> DEFINE j == job[h]
           c == LatestCheckpoint(j)
<1>1. /\ j \in Job /\ Proved(j) /\ PinInv(j, "rename", pins, tmp)
      /\ answers' \in {answers, answers \cup {AnswerOf(j)}} /\ pins' = tmp /\ tmp # None
      /\ ~raced
  BY ResolversAssumption DEF Pinned, TypesInv, TypeInv, TypeOK, ResolverInv, RenameTmp
<1>2. /\ c \in Checkpoint /\ pins' = PinOf(c) /\ pins' # None
      /\ pins = None \/ IsPrefix(pins.root, c.root)
      /\ AnswerOf(j).log = c.root
  BY <1>1, LatestCheckpointType DEF PinInv, AnswerOf
<1> HIDE DEF c, j
<1>3. ASSUME NEW a \in answers PROVE IsPrefix(a.log, c.root)
  BY <1>1, <1>2, <1>3, AnswersStayPinned DEF Pinned
<1>4. IsPrefix(c.root, c.root) /\ pins'.root = c.root
  BY <1>2, PinOfType DEF Checkpoint, IsPrefix
<1>5. \A a \in answers' : pins' # None /\ IsPrefix(a.log, pins'.root)
  BY <1>1, <1>2, <1>3, <1>4
<1> QED BY <1>5 DEF AnsweredIsPinned

\* A step of a resolver keeps the invariant, whatever the others are doing.
LEMMA ResolverPinned ==
    ASSUME Pinned, NEW h \in Resolvers, ResolverStep(h)
    PROVE  /\ AnsweredIsPinned'
           /\ \A g \in Resolvers \ stale' : PinInv(job'[g], stage'[g], pins', tmp')
<1> DEFINE j == job[h]
<1>0. /\ h \in Handlers /\ j \in Job /\ ResolverInv(j, stage[h])
      /\ job \in [Handlers -> Job] /\ stage \in [Resolvers -> Stage]
      /\ pins \in Checkpoint \cup {None}
  BY ResolversAssumption DEF Pinned, TypesInv, TypeInv, TypeOK, ResolutionTypeOK
<1>1. \A g \in Resolvers \ {h} : job'[g] = job[g] /\ stage'[g] = stage[g]
  BY <1>0, ResolversAssumption
     DEF ResolverStep, BeginResolve, Load, ReadEvents, ReadCheckpoints, LoadSucceeds, LoadFails,
         Goto, Fail, CheckPin, ResolveRejects, LoadPin, PinFails, WriteTmp, RenameTmp, pinVars, vars
<1>2. CASE RenameTmp(h)
  <2>1. AnsweredIsPinned'
    <3>1. CASE raced'
      BY <3>1 DEF AnsweredIsPinned
    <3> QED BY <1>2, <3>1, RenamePinned
  <2>2. stage'[h] = "none" /\ \A g \in Resolvers \ stale' : g = h \/ stage[g] = "none"
    BY <1>0, <1>2 DEF RenameTmp
  <2>3. \A g \in Resolvers \ stale' : stage'[g] = "none"
    BY <1>1, <2>2
  <2> QED BY <2>1, <2>3 DEF PinInv
<1>3. CASE ~RenameTmp(h)
  <2>1. UNCHANGED <<pins, answers, raced>>
    BY <1>3 DEF ResolverStep, pinVars, BeginResolve, Load, CheckPin, ResolveRejects, LoadPin,
                PinFails, WriteTmp
  <2>2. AnsweredIsPinned'
    BY <2>1 DEF Pinned, AnsweredIsPinned
  <2>3. ASSUME NEW g \in Resolvers \ stale', g # h PROVE PinInv(job'[g], stage'[g], pins', tmp')
    <3>1. g \notin stale /\ (tmp' = tmp \/ stage[g] # "rename")
      BY <1>3, <2>3 DEF ResolverStep, pinVars, BeginResolve, Load, CheckPin, ResolveRejects,
                        LoadPin, PinFails, WriteTmp
    <3>2. PinInv(job[g], stage[g], pins, tmp)
      BY <2>3, <3>1 DEF Pinned
    <3> QED BY <1>1, <2>1, <2>3, <3>1, <3>2 DEF PinInv
  <2>4. ASSUME h \notin stale' PROVE PinInv(job'[h], stage'[h], pins', tmp')
    <3>1. CASE stage'[h] = "none"
      BY <3>1 DEF PinInv
    <3>2. CASE CheckPin(h)
      <4>1. stage'[h] = "pin" /\ job' = job /\ Proved(j) /\ ExtendsPin(j)
        BY <1>0, <3>2 DEF CheckPin, vars
      <4> QED BY <1>0, <2>1, <4>1, ExtendsPinPrefix DEF PinInv
    <3>3. CASE LoadPin(h) \/ WriteTmp(h)
      <4>1. h \notin stale
        BY <2>4, <3>3 DEF LoadPin, WriteTmp
      <4>2. PinInv(j, stage[h], pins, tmp)
        BY <4>1 DEF Pinned
      <4> QED BY <1>0, <2>1, <3>3, <4>2 DEF LoadPin, WriteTmp, vars, PinInv
    <3>4. CASE (\E id \in Ids : BeginResolve(h, id)) \/ Load(h)
      <4>1. j.pc # "loaded" /\ stage' = stage
        BY <3>4 DEF BeginResolve, Load, ReadEvents, ReadCheckpoints, LoadSucceeds, LoadFails,
                    pinVars
      <4>2. stage'[h] = "none"
        BY <1>0, <4>1 DEF ResolverInv
      <4> QED BY <3>1, <4>2
    <3>5. CASE ResolveRejects(h) \/ PinFails(h)
      <4>1. stage'[h] = "none"
        BY <1>0, <3>5 DEF ResolveRejects, PinFails, pinVars
      <4> QED BY <3>1, <4>1
    <3> QED
      BY <1>3, <3>2, <3>3, <3>4, <3>5 DEF ResolverStep
  <2> QED BY <2>2, <2>3, <2>4
<1> QED BY <1>2, <1>3

\* Every step keeps the invariant, for any number of resolvers.
LEMMA PinnedStep == Pinned /\ [ResolutionNext]_resolutionVars => Pinned'
<1> SUFFICES ASSUME Pinned, [ResolutionNext]_resolutionVars PROVE Pinned'
  OBVIOUS
<1>0. TypesInv'
  BY TypesStep DEF Pinned
<1> SUFFICES /\ AnsweredIsPinned'
             /\ \A h \in Resolvers \ stale' : PinInv(job'[h], stage'[h], pins', tmp')
  BY <1>0 DEF Pinned, PinInv
<1>1. ASSUME NEW h \in Resolvers, ResolverStep(h)
      PROVE  /\ AnsweredIsPinned'
             /\ \A g \in Resolvers \ stale' : PinInv(job'[g], stage'[g], pins', tmp')
  BY <1>1, ResolverPinned
<1>2. ASSUME NEW h \in Handlers \ Resolvers, HandlerStep(h), UNCHANGED pinVars
      PROVE  /\ AnsweredIsPinned'
             /\ \A g \in Resolvers \ stale' : PinInv(job'[g], stage'[g], pins', tmp')
  BY <1>2, PublisherLeaves DEF Pinned, pinVars, AnsweredIsPinned
<1>3. CASE Die
  BY <1>3, DieType DEF Pinned, AnsweredIsPinned, PinInv
<1>4. CASE (\E n \in 0..MaxEvents : Restore(n)) \/ UNCHANGED resolutionVars
  <2>1. UNCHANGED <<job, pins, tmp, stage, answers, stale, raced>>
    BY <1>4 DEF Restore, resolutionVars, vars, pinVars
  <2> QED BY <2>1 DEF Pinned, AnsweredIsPinned
<1> QED BY <1>1, <1>2, <1>3, <1>4 DEF ResolutionNext

\* The initial state satisfies the invariant.
LEMMA PinnedInit == ResolutionInit => Pinned
  BY TypesInit DEF ResolutionInit, Pinned, AnsweredIsPinned, PinInv

\* Whatever was answered is in the log of the durable pin, for any number of resolvers
\* that run at once, through crashes at every step and restored databases, until one
\* of them renames over a pin that is not the one it has checked.
THEOREM AnsweredIsPinnedHolds == ResolutionSpec => []AnsweredIsPinned
<1>1. Pinned => AnsweredIsPinned
  BY DEF Pinned
<1> QED BY <1>1, PinnedInit, PinnedStep, PTL DEF ResolutionSpec

\* Without such a rename no client is ever shown two branches, however many resolvers
\* run at once.
THEOREM BranchesNeedARaceHolds == ResolutionSpec => []BranchesNeedARace
<1>1. Pinned => BranchesNeedARace
  <2> SUFFICES ASSUME Pinned, ~raced, NEW a \in answers, NEW b \in answers
               PROVE  IsPrefix(a.log, b.log) \/ IsPrefix(b.log, a.log)
    BY DEF BranchesNeedARace, AnswersAgree
  <2>1. pins # None /\ IsPrefix(a.log, pins.root) /\ IsPrefix(b.log, pins.root)
    BY DEF Pinned, AnsweredIsPinned
  <2>2. pins \in Checkpoint /\ a.log \in Seq(NameEvent) /\ b.log \in Seq(NameEvent)
    BY <2>1 DEF Pinned, TypesInv, ResolutionTypeOK, Answer
  <2>3. pins.root \in Seq(NameEvent)
    BY <2>2 DEF Checkpoint
  <2> QED BY <2>1, <2>2, <2>3, PrefixesComparable
<1> QED BY <1>1, PinnedInit, PinnedStep, PTL DEF ResolutionSpec

================================================================================
