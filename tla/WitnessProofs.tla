----------------------------- MODULE WitnessProofs -----------------------------
(***************************************************************************)
(* Machine-checked proofs about the witnesses, for every number of         *)
(* witnesses, calls a witness serves at once, quorum, log and history.     *)
(***************************************************************************)
EXTENDS Witness, CommonLemmas, FiniteSetTheorems

\* A call under way has a checkpoint.
CallsInv ==
    \A w \in Witnesses : \A r \in Calls :
        call[w][r].pc # "idle" => call[w][r].checkpoint \in Checkpoint

TypeInv == TypeOK /\ CallsInv

\* What the call in state j has established, against the pin p and the temporary
\* file t of its witness; nothing about its own pin if it is overtaken.
CallInv(j, p, t, overtaken) ==
    /\ j.pc \in {"write", "rename"} /\ ~overtaken
         => p = None \/ IsPrefix(p.root, j.checkpoint.root)
    /\ j.pc = "rename" /\ ~overtaken => t = j.checkpoint
    /\ j.pc = "cosign" => p # None /\ IsPrefix(j.checkpoint.root, p.root)

\* Everything cosigned lies below the pin.
BelowPin(signed, p) == \A c \in signed : p # None /\ IsPrefix(c.root, p.root)

WitnessInv(w) ==
    /\ BelowPin(cosigned[w], pin[w])
    /\ \A r \in Calls : CallInv(call[w][r], pin[w], tmp[w], r \in stale[w])

PinInv == \A w \in Honest \ raced : WitnessInv(w)

\* The idle call is well typed and has established nothing.
LEMMA IdleCallOK == IdleCall \in Call /\ IdleCall.pc = "idle"
  BY DEF IdleCall, Call, PC

--------------------------------------------------------------------------------
(* Types *)

\* A step of one call keeps the types.
LEMMA CallMoves ==
    ASSUME TypeInv, NEW w \in Witnesses, NEW r \in Calls, NEW n \in Call,
           n.pc # "idle" => n.checkpoint \in Checkpoint,
           call' = [call EXCEPT ![w][r] = n], now' = now,
           equivocations' \in [Witnesses -> SUBSET EquivocationRecord],
           pin' \in [Witnesses -> Checkpoint \cup {None}],
           tmp' \in [Witnesses -> Checkpoint \cup {None}],
           cosigned' \in [Witnesses -> SUBSET Checkpoint],
           stale' \in [Witnesses -> SUBSET Calls], raced' \in SUBSET Witnesses
    PROVE  TypeInv'
<1>1. TypeOK'
  BY DEF TypeInv, TypeOK
<1>2. CallsInv'
  BY DEF TypeInv, CallsInv, TypeOK
<1> QED BY <1>1, <1>2 DEF TypeInv

LEMMA TypeStep == TypeInv /\ [Next]_vars => TypeInv'
<1> SUFFICES ASSUME TypeInv, [Next]_vars PROVE TypeInv'
  OBVIOUS
<1>0. /\ call \in [Witnesses -> [Calls -> Call]] /\ pin \in [Witnesses -> Checkpoint \cup {None}]
      /\ tmp \in [Witnesses -> Checkpoint \cup {None}] /\ cosigned \in [Witnesses -> SUBSET Checkpoint]
      /\ equivocations \in [Witnesses -> SUBSET EquivocationRecord] /\ now \in Nat
      /\ stale \in [Witnesses -> SUBSET Calls] /\ raced \in SUBSET Witnesses
  BY DEF TypeInv, TypeOK
<1>1. ASSUME NEW w \in Honest, NEW r \in Calls, CallStep(w, r) PROVE TypeInv'
  <2> DEFINE j == call[w][r]
  <2>0. w \in Witnesses /\ j \in Call /\ (j.pc # "idle" => j.checkpoint \in Checkpoint)
    BY <1>0 DEF TypeInv, CallsInv, Honest
  <2>1. ASSUME NEW c \in Checkpoints, Submit(w, r, c) PROVE TypeInv'
    <3> DEFINE n == [pc |-> "get_pin", checkpoint |-> c]
    <3>1. n \in Call /\ n.checkpoint \in Checkpoint
      BY WitnessAssumption DEF Call, PC
    <3> QED BY <1>0, <2>0, <2>1, <3>1, CallMoves DEF Submit, history
  <2>2. CASE Check(w, r)
    <3> DEFINE n == [j EXCEPT !.pc = "write"]
    <3>1. n \in Call /\ n.checkpoint \in Checkpoint
      BY <2>0, <2>2 DEF Check, Call, PC
    <3> QED BY <1>0, <2>0, <2>2, <3>1, CallMoves DEF Check, Goto, history
  <2>3. CASE Reject(w, r)
    BY <1>0, <2>0, <2>3, IdleCallOK, CallMoves DEF Reject, Return, history
  <2>4. CASE Equivocation(w, r)
    <3>1. j.checkpoint \in Checkpoint /\ pin[w] \in Checkpoint
      BY <1>0, <2>0, <2>4 DEF Equivocation
    <3>2. Record(equivocations[w], pin[w], j.checkpoint, now) \in SUBSET EquivocationRecord
      BY <1>0, <2>0, <3>1 DEF Record, EquivocationRecord
    <3>3. equivocations' \in [Witnesses -> SUBSET EquivocationRecord]
      BY <1>0, <2>4, <3>2 DEF Equivocation
    <3> QED BY <1>0, <2>0, <2>4, <3>3, IdleCallOK, CallMoves DEF Equivocation, Return, history
  <2>5. CASE WritePin(w, r)
    <3> DEFINE n == [j EXCEPT !.pc = "rename"]
    <3>1. n \in Call /\ n.checkpoint \in Checkpoint /\ j.checkpoint \in Checkpoint
      BY <2>0, <2>5 DEF WritePin, Call, PC
    <3>2. /\ tmp' \in [Witnesses -> Checkpoint \cup {None}]
          /\ UNCHANGED <<pin, cosigned, equivocations, now, raced>>
      BY <1>0, <2>5, <3>1 DEF WritePin
    <3>3. stale' \in [Witnesses -> SUBSET Calls]
      BY <1>0, <2>0, <2>5 DEF WritePin, Saving
    <3>4. call' = [call EXCEPT ![w][r] = n]
      BY <1>0, <2>0, <2>5 DEF WritePin, Goto
    <3>5. /\ pin' \in [Witnesses -> Checkpoint \cup {None}] /\ raced' \in SUBSET Witnesses
          /\ cosigned' \in [Witnesses -> SUBSET Checkpoint] /\ now' = now
          /\ equivocations' \in [Witnesses -> SUBSET EquivocationRecord]
      BY <1>0, <3>2, <3>3
    <3> HIDE DEF n
    <3> QED BY <2>0, <3>1, <3>2, <3>3, <3>4, <3>5, CallMoves
  <2>6. CASE RenamePin(w, r)
    <3> DEFINE n == [j EXCEPT !.pc = "cosign"]
    <3>1. n \in Call /\ n.checkpoint \in Checkpoint
      BY <2>0, <2>6 DEF RenamePin, Call, PC
    <3>2. /\ tmp' \in [Witnesses -> Checkpoint \cup {None}] /\ pin' \in [Witnesses -> Checkpoint \cup {None}]
          /\ UNCHANGED <<cosigned, equivocations, now>>
      BY <1>0, <2>0, <2>6 DEF RenamePin
    <3>3. stale' \in [Witnesses -> SUBSET Calls] /\ raced' \in SUBSET Witnesses
      BY <1>0, <2>0, <2>6 DEF RenamePin, Saving
    <3>4. call' = [call EXCEPT ![w][r] = n]
      BY <1>0, <2>0, <2>6 DEF RenamePin, Goto
    <3>5. /\ pin' \in [Witnesses -> Checkpoint \cup {None}] /\ raced' \in SUBSET Witnesses
          /\ cosigned' \in [Witnesses -> SUBSET Checkpoint] /\ now' = now
          /\ equivocations' \in [Witnesses -> SUBSET EquivocationRecord]
      BY <1>0, <3>2, <3>3
    <3> HIDE DEF n
    <3> QED BY <2>0, <3>1, <3>2, <3>3, <3>4, <3>5, CallMoves
  <2>7. CASE RenameFails(w, r)
    <3>1. stale' \in [Witnesses -> SUBSET Calls]
      BY <1>0, <2>0, <2>7 DEF RenameFails
    <3> QED BY <1>0, <2>0, <2>7, <3>1, IdleCallOK, CallMoves DEF RenameFails, Return
  <2>8. CASE Cosign(w, r)
    <3>1. /\ cosigned' \in [Witnesses -> SUBSET Checkpoint]
          /\ UNCHANGED <<pin, tmp, equivocations, now, stale, raced>>
      BY <1>0, <2>0, <2>8 DEF Cosign, history
    <3> QED BY <1>0, <2>0, <2>8, <3>1, IdleCallOK, CallMoves DEF Cosign, Return
  <2> QED BY <1>1, <2>1, <2>2, <2>3, <2>4, <2>5, <2>6, <2>7, <2>8 DEF CallStep
<1>2. ASSUME NEW w \in Honest, Crash(w) PROVE TypeInv'
  <2>1. /\ call' = [call EXCEPT ![w] = [r \in Calls |-> IdleCall]]
        /\ stale' = [stale EXCEPT ![w] = {}]
        /\ UNCHANGED <<pin, tmp, equivocations, cosigned, now, raced>>
    BY <1>2 DEF Crash
  <2>2. TypeOK'
    BY <2>1, IdleCallOK DEF TypeInv, TypeOK
  <2>3. CallsInv'
    BY <1>0, <2>1 DEF TypeInv, CallsInv, IdleCall
  <2> QED BY <2>2, <2>3 DEF TypeInv
<1>3. ASSUME NEW w \in Faulty, NEW c \in Checkpoints, Collude(w, c) PROVE TypeInv'
  <2>1. w \in Witnesses /\ c \in Checkpoint
    BY WitnessAssumption
  <2> QED BY <1>3, <2>1 DEF Collude, TypeInv, TypeOK, CallsInv, history
<1>4. CASE Tick
  BY <1>4 DEF Tick, TypeInv, TypeOK, CallsInv, history
<1>5. CASE UNCHANGED vars
  BY <1>5 DEF vars, TypeInv, TypeOK, CallsInv, history
<1> QED BY <1>1, <1>2, <1>3, <1>4, <1>5 DEF Next

LEMMA TypeInit == Init => TypeInv
<1> SUFFICES ASSUME Init PROVE TypeInv
  OBVIOUS
<1>1. TypeOK
  BY IdleCallOK DEF Init, TypeOK
<1> QED BY <1>1 DEF Init, TypeInv, CallsInv, IdleCall

\* The files and the calls of process_checkpoint are well formed however many calls a
\* witness serves at once and wherever it dies.
THEOREM WitnessTypeCorrect == Spec => []TypeOK
<1>1. TypeInv => TypeOK
  BY DEF TypeInv
<1> QED BY <1>1, TypeInit, TypeStep, PTL DEF Spec

--------------------------------------------------------------------------------
(* The pin *)

\* A checkpoint that passes the checks extends the pin.
LEMMA AcceptableExtends ==
    ASSUME NEW p \in Checkpoint \cup {None}, NEW c \in Checkpoint, Acceptable(p, c)
    PROVE  p = None \/ IsPrefix(p.root, c.root)
<1>1. CASE p # None /\ c.root = p.root
  <2>1. c.root \in Seq(Leaves)
    BY DEF Checkpoint
  <2> QED BY <1>1, <2>1, PrefixOfLonger DEF IsPrefix
<1> QED BY <1>1 DEF Acceptable

\* What is below the pin stays below a pin that extends it.
LEMMA BelowPinGrows ==
    ASSUME NEW signed \in SUBSET Checkpoint, NEW p \in Checkpoint \cup {None},
           NEW c \in Checkpoint, BelowPin(signed, p), p = None \/ IsPrefix(p.root, c.root)
    PROVE  BelowPin(signed, c)
<1>1. c # None
  BY WitnessAssumption
<1>2. ASSUME NEW d \in signed PROVE IsPrefix(d.root, c.root)
  <2>1. p # None /\ p \in Checkpoint /\ IsPrefix(d.root, p.root) /\ IsPrefix(p.root, c.root)
    BY <1>2 DEF BelowPin
  <2>2. d.root \in Seq(Leaves) /\ p.root \in Seq(Leaves) /\ c.root \in Seq(Leaves)
    BY <1>2, <2>1 DEF Checkpoint
  <2> QED BY <2>1, <2>2, IsPrefixTransitive
<1> QED BY <1>1, <1>2 DEF BelowPin

\* A step that concerns only witness w keeps the invariant if w's part holds after it,
\* or w has raced.
LEMMA OneWitness ==
    ASSUME PinInv, NEW w \in Honest, w \notin raced' => WitnessInv(w)', raced \subseteq raced',
           \A v \in Honest : v # w => /\ pin'[v] = pin[v] /\ tmp'[v] = tmp[v]
                                      /\ call'[v] = call[v] /\ cosigned'[v] = cosigned[v]
                                      /\ stale'[v] = stale[v]
    PROVE  PinInv'
<1>1. ASSUME NEW v \in Honest, v \notin raced', v # w PROVE WitnessInv(v)'
  BY <1>1 DEF PinInv, WitnessInv
<1> QED BY <1>1 DEF PinInv

\* A call that moves from j to n while its witness keeps its pin and temporary file.
LEMMA OneCall ==
    ASSUME TypeInv, PinInv, NEW w \in Honest, NEW r \in Calls, NEW n \in Call,
           call' = [call EXCEPT ![w][r] = n], UNCHANGED <<pin, tmp, cosigned, raced>>,
           stale' = stale \/ stale' = [stale EXCEPT ![w] = @ \ {r}],
           w \notin raced => CallInv(n, pin[w], tmp[w], FALSE)
    PROVE  PinInv'
<1>0. /\ w \in Witnesses /\ call \in [Witnesses -> [Calls -> Call]]
      /\ stale \in [Witnesses -> SUBSET Calls]
  BY DEF TypeInv, TypeOK, Honest
<1>1. /\ \A s \in Calls : call'[w][s] = IF s = r THEN n ELSE call[w][s]
      /\ \A s \in Calls : s # r => (s \in stale'[w] <=> s \in stale[w])
      /\ \A v \in Honest : v # w => call'[v] = call[v] /\ stale'[v] = stale[v]
  BY <1>0 DEF Honest
<1>2. ASSUME w \notin raced PROVE WitnessInv(w)'
  <2>0. WitnessInv(w)
    BY <1>2 DEF PinInv
  <2>1. ASSUME NEW s \in Calls PROVE CallInv(call'[w][s], pin[w], tmp[w], s \in stale'[w])
    <3>1. CASE s = r
      BY <1>1, <1>2, <3>1 DEF CallInv
    <3>2. CASE s # r
      BY <1>1, <2>0, <3>2 DEF WitnessInv, CallInv
    <3> QED BY <3>1, <3>2
  <2> QED BY <2>0, <2>1 DEF WitnessInv
<1> QED BY <1>1, <1>2, OneWitness

\* save_pin's first step takes the temporary file from every other call.
LEMMA WritePinInv ==
    ASSUME TypeInv, PinInv, NEW w \in Honest, NEW r \in Calls, WritePin(w, r)
    PROVE  PinInv'
<1> DEFINE j == call[w][r]
<1>0. /\ w \in Witnesses /\ call \in [Witnesses -> [Calls -> Call]] /\ j \in Call
      /\ stale \in [Witnesses -> SUBSET Calls] /\ tmp \in [Witnesses -> Checkpoint \cup {None}]
  BY DEF TypeInv, TypeOK, Honest
<1>1. /\ j.pc = "write" /\ call' = [call EXCEPT ![w][r].pc = "rename"]
      /\ tmp' = [tmp EXCEPT ![w] = j.checkpoint]
      /\ stale' = [stale EXCEPT ![w] = @ \cup (Saving(w, {"rename"}) \ {r})]
      /\ UNCHANGED <<pin, cosigned, raced>>
  BY DEF WritePin, Goto
<1>2. /\ call'[w][r].pc = "rename" /\ call'[w][r].checkpoint = j.checkpoint
      /\ \A s \in Calls : s # r => call'[w][s] = call[w][s]
      /\ tmp'[w] = j.checkpoint
      /\ r \in stale'[w] <=> r \in stale[w]
      /\ \A s \in Calls : s # r /\ s \notin stale'[w] => s \notin stale[w] /\ call[w][s].pc # "rename"
      /\ \A v \in Honest : v # w => call'[v] = call[v] /\ stale'[v] = stale[v] /\ tmp'[v] = tmp[v]
  BY <1>0, <1>1 DEF Honest, Saving, Call
<1> HIDE DEF j
<1>3. ASSUME w \notin raced PROVE WitnessInv(w)'
  <2>0. WitnessInv(w) /\ CallInv(j, pin[w], tmp[w], r \in stale[w])
    BY <1>3 DEF PinInv, WitnessInv, j
  <2>1. ASSUME NEW s \in Calls PROVE CallInv(call'[w][s], pin[w], tmp'[w], s \in stale'[w])
    <3>1. CASE s = r
      BY <1>1, <1>2, <2>0, <3>1 DEF CallInv
    <3>2. CASE s # r
      BY <1>2, <2>0, <3>2 DEF WitnessInv, CallInv
    <3> QED BY <3>1, <3>2
  <2> QED BY <1>1, <2>0, <2>1 DEF WitnessInv
<1> QED BY <1>1, <1>2, <1>3, OneWitness

\* The rename of a call that was not overtaken extends the pin; every other call that
\* has checked against the old one is overtaken by it.
LEMMA RenamePinInv ==
    ASSUME TypeInv, PinInv, NEW w \in Honest, NEW r \in Calls, RenamePin(w, r)
    PROVE  PinInv'
<1> DEFINE j == call[w][r]
           c == j.checkpoint
<1>0. /\ w \in Witnesses /\ call \in [Witnesses -> [Calls -> Call]] /\ j \in Call
      /\ stale \in [Witnesses -> SUBSET Calls] /\ tmp \in [Witnesses -> Checkpoint \cup {None}]
      /\ pin \in [Witnesses -> Checkpoint \cup {None}] /\ cosigned[w] \in SUBSET Checkpoint
      /\ j.pc = "rename" /\ c \in Checkpoint
  BY DEF TypeInv, TypeOK, CallsInv, Honest, RenamePin
<1>1. /\ call' = [call EXCEPT ![w][r].pc = "cosign"]
      /\ tmp' = [tmp EXCEPT ![w] = None] /\ pin' = [pin EXCEPT ![w] = tmp[w]]
      /\ stale' = [stale EXCEPT ![w] = Saving(w, {"write", "rename"}) \ {r}]
      /\ raced' = IF r \in stale[w] THEN raced \cup {w} ELSE raced
      /\ UNCHANGED cosigned
  BY DEF RenamePin, Goto
<1>2. /\ call'[w][r].pc = "cosign" /\ call'[w][r].checkpoint = c
      /\ \A s \in Calls : s # r => call'[w][s] = call[w][s]
      /\ pin'[w] = tmp[w]
      /\ \A s \in Calls : s # r /\ s \notin stale'[w] => call[w][s].pc \notin {"write", "rename"}
      /\ \A v \in Honest : v # w => /\ call'[v] = call[v] /\ stale'[v] = stale[v]
                                     /\ tmp'[v] = tmp[v] /\ pin'[v] = pin[v]
  BY <1>0, <1>1 DEF Honest, Saving, Call
<1>3. \A s \in Calls : call[w][s].pc = "cosign" => call[w][s].checkpoint \in Checkpoint
  BY <1>0 DEF TypeInv, CallsInv
<1> HIDE DEF j, c
<1>4. ASSUME w \notin raced' PROVE WitnessInv(w)'
  <2>0. w \notin raced /\ r \notin stale[w] /\ WitnessInv(w) /\ CallInv(j, pin[w], tmp[w], r \in stale[w])
    BY <1>1, <1>4 DEF PinInv, WitnessInv, j
  <2>1. tmp[w] = c /\ (pin[w] = None \/ IsPrefix(pin[w].root, c.root))
    BY <1>0, <2>0 DEF CallInv, c
  <2>2. BelowPin(cosigned[w], c)
    BY <1>0, <2>0, <2>1, BelowPinGrows DEF WitnessInv
  <2>3. c # None /\ IsPrefix(c.root, c.root)
    BY <1>0, WitnessAssumption DEF Checkpoint, IsPrefix
  <2>4. ASSUME NEW s \in Calls PROVE CallInv(call'[w][s], c, tmp'[w], s \in stale'[w])
    <3>1. CASE s = r
      BY <1>2, <2>3, <3>1 DEF CallInv
    <3>2. CASE s # r
      <4> DEFINE d == call[w][s].checkpoint
      <4>1. ASSUME call[w][s].pc = "cosign" PROVE IsPrefix(d.root, c.root)
        <5>1. d \in Checkpoint /\ pin[w] # None /\ IsPrefix(d.root, pin[w].root)
          BY <1>3, <2>0, <4>1 DEF WitnessInv, CallInv
        <5>2. d.root \in Seq(Leaves) /\ pin[w].root \in Seq(Leaves) /\ c.root \in Seq(Leaves)
          BY <1>0, <5>1 DEF Checkpoint
        <5> QED BY <2>1, <5>1, <5>2, IsPrefixTransitive
      <4> QED BY <1>2, <2>3, <3>2, <4>1 DEF CallInv
    <3> QED BY <3>1, <3>2
  <2> QED BY <1>1, <1>2, <2>1, <2>2, <2>4 DEF WitnessInv
<1>5. raced \subseteq raced'
  BY <1>1
<1> QED BY <1>1, <1>2, <1>4, <1>5, OneWitness

LEMMA CosignInv ==
    ASSUME TypeInv, PinInv, NEW w \in Honest, NEW r \in Calls, Cosign(w, r)
    PROVE  PinInv'
<1> DEFINE c == call[w][r].checkpoint
<1>0. /\ w \in Witnesses /\ call \in [Witnesses -> [Calls -> Call]]
      /\ cosigned \in [Witnesses -> SUBSET Checkpoint] /\ call[w][r].pc = "cosign"
  BY DEF TypeInv, TypeOK, Honest, Cosign
<1>1. /\ call' = [call EXCEPT ![w][r] = IdleCall]
      /\ cosigned' = [cosigned EXCEPT ![w] = @ \cup {c}]
      /\ UNCHANGED <<pin, tmp, stale, raced>>
  BY DEF Cosign, Return, history
<1>2. /\ \A s \in Calls : call'[w][s] = IF s = r THEN IdleCall ELSE call[w][s]
      /\ cosigned'[w] = cosigned[w] \cup {c}
      /\ \A v \in Honest : v # w => call'[v] = call[v] /\ cosigned'[v] = cosigned[v]
  BY <1>0, <1>1 DEF Honest
<1>3. ASSUME w \notin raced PROVE WitnessInv(w)'
  <2>1. WitnessInv(w)
    BY <1>3 DEF PinInv
  <2>2. BelowPin(cosigned'[w], pin[w])
    BY <1>0, <1>2, <2>1 DEF WitnessInv, CallInv, BelowPin
  <2>3. ASSUME NEW s \in Calls PROVE CallInv(call'[w][s], pin[w], tmp[w], s \in stale[w])
    BY <1>2, <2>1, IdleCallOK DEF WitnessInv, CallInv
  <2> QED BY <1>1, <2>2, <2>3 DEF WitnessInv
<1> QED BY <1>1, <1>2, <1>3, OneWitness

\* The initial state satisfies the invariant.
LEMMA PinInit == Init => PinInv
<1> SUFFICES ASSUME Init, NEW w \in Honest PROVE WitnessInv(w)
  BY DEF PinInv
<1>1. w \in Witnesses
  BY DEF Honest
<1>2. cosigned[w] = {} /\ \A r \in Calls : call[w][r] = IdleCall
  BY <1>1 DEF Init
<1> QED BY <1>2, IdleCallOK DEF WitnessInv, BelowPin, CallInv

\* Every step keeps the invariant, however many calls a witness serves.
LEMMA PinStep == TypeInv /\ PinInv /\ [Next]_vars => PinInv'
<1> SUFFICES ASSUME TypeInv, PinInv, [Next]_vars PROVE PinInv'
  OBVIOUS
<1>1. ASSUME NEW w \in Honest, NEW r \in Calls, CallStep(w, r) PROVE PinInv'
  <2> DEFINE j == call[w][r]
  <2>0. /\ w \in Witnesses /\ j \in Call /\ (j.pc # "idle" => j.checkpoint \in Checkpoint)
        /\ pin[w] \in Checkpoint \cup {None}
    BY DEF TypeInv, TypeOK, CallsInv, Honest
  <2>1. ASSUME NEW c \in Checkpoints, Submit(w, r, c) PROVE PinInv'
    <3> DEFINE n == [pc |-> "get_pin", checkpoint |-> c]
    <3>1. n \in Call /\ CallInv(n, pin[w], tmp[w], FALSE)
      BY WitnessAssumption DEF Call, PC, CallInv
    <3>2. call' = [call EXCEPT ![w][r] = n] /\ UNCHANGED <<pin, tmp, cosigned, stale, raced>>
      BY <2>1 DEF Submit, history
    <3> HIDE DEF n
    <3> QED BY <3>1, <3>2, OneCall
  <2>2. CASE Check(w, r)
    <3> DEFINE n == [j EXCEPT !.pc = "write"]
    <3>1. pin[w] = None \/ IsPrefix(pin[w].root, j.checkpoint.root)
      BY <2>0, <2>2, AcceptableExtends DEF Check
    <3>2. n \in Call /\ CallInv(n, pin[w], tmp[w], FALSE)
      BY <2>0, <3>1 DEF Call, PC, CallInv
    <3>3. call' = [call EXCEPT ![w][r] = n]
      BY <2>2 DEF Check, Goto
    <3>4. UNCHANGED <<pin, tmp, cosigned, stale, raced>>
      BY <2>2 DEF Check, history
    <3> HIDE DEF n
    <3> QED BY <3>2, <3>3, <3>4, OneCall
  <2>3. CASE Reject(w, r) \/ Equivocation(w, r) \/ RenameFails(w, r)
    <3>1. CallInv(IdleCall, pin[w], tmp[w], FALSE)
      BY IdleCallOK DEF CallInv
    <3>2. /\ call' = [call EXCEPT ![w][r] = IdleCall] /\ UNCHANGED <<pin, tmp, cosigned, raced>>
          /\ stale' = stale \/ stale' = [stale EXCEPT ![w] = @ \ {r}]
      BY <2>3 DEF Reject, Equivocation, RenameFails, Return, history
    <3> QED BY <3>1, <3>2, IdleCallOK, OneCall
  <2> QED BY <1>1, <2>1, <2>2, <2>3, WritePinInv, RenamePinInv, CosignInv DEF CallStep
<1>2. ASSUME NEW w \in Honest, Crash(w) PROVE PinInv'
  <2>1. w \in Witnesses /\ call \in [Witnesses -> [Calls -> Call]] /\ stale \in [Witnesses -> SUBSET Calls]
    BY DEF TypeInv, TypeOK, Honest
  <2>2. /\ call' = [call EXCEPT ![w] = [r \in Calls |-> IdleCall]]
        /\ stale' = [stale EXCEPT ![w] = {}]
        /\ UNCHANGED <<pin, tmp, cosigned, raced>>
    BY <1>2 DEF Crash
  <2>3. /\ \A r \in Calls : call'[w][r] = IdleCall
        /\ \A v \in Honest : v # w => call'[v] = call[v] /\ stale'[v] = stale[v]
    BY <2>1, <2>2 DEF Honest
  <2>4. w \notin raced => WitnessInv(w)'
    BY <2>2, <2>3, IdleCallOK DEF PinInv, WitnessInv, CallInv
  <2> QED BY <2>2, <2>3, <2>4, OneWitness
<1>3. ASSUME NEW w \in Faulty, NEW c \in Checkpoints, Collude(w, c) PROVE PinInv'
  <2>1. w \in Witnesses /\ cosigned \in [Witnesses -> SUBSET Checkpoint]
    BY WitnessAssumption DEF TypeInv, TypeOK
  <2>2. /\ \A v \in Honest : cosigned'[v] = cosigned[v]
        /\ UNCHANGED <<pin, tmp, call, stale, raced>>
    BY <1>3, <2>1 DEF Collude, Honest, history
  <2> QED BY <2>2 DEF PinInv, WitnessInv
<1>4. CASE Tick
  BY <1>4 DEF Tick, PinInv, WitnessInv, history
<1>5. CASE UNCHANGED vars
  BY <1>5 DEF vars, PinInv, WitnessInv, history
<1> QED BY <1>1, <1>2, <1>3, <1>4, <1>5 DEF Next

\* The durable pin of an honest witness extends everything it ever cosigned, across
\* every crash and however many calls it serves at once, until one of them saves its
\* pin over one that it has not checked.
THEOREM CosignedIsPinnedHolds == Spec => []CosignedIsPinned
<1>1. PinInv => CosignedIsPinned
  BY DEF PinInv, WitnessInv, BelowPin, CosignedIsPinned
<1> QED BY <1>1, TypeInit, TypeStep, PinInit, PinStep, PTL DEF Spec

--------------------------------------------------------------------------------
(* Quorums *)

\* Two quorums share a witness outside Bad when Bad is smaller than the overlap of any
\* two quorums, 2K - N.
LEMMA QuorumsShareGood ==
    ASSUME NEW A \in SUBSET Witnesses, NEW B \in SUBSET Witnesses, NEW Bad \in SUBSET Witnesses,
           Cardinality(A) >= K, Cardinality(B) >= K,
           Cardinality(Bad) < 2 * K - Cardinality(Witnesses)
    PROVE  \E w \in Witnesses \ Bad : w \in A /\ w \in B
<1>1. IsFiniteSet(Witnesses) /\ K \in Nat
  BY WitnessAssumption
<1>2. /\ IsFiniteSet(A) /\ IsFiniteSet(B) /\ IsFiniteSet(A \cap B) /\ IsFiniteSet(A \cup B)
      /\ IsFiniteSet(Bad)
  BY <1>1, FS_Subset
<1>3. /\ Cardinality(A) \in Nat /\ Cardinality(B) \in Nat /\ Cardinality(A \cap B) \in Nat
      /\ Cardinality(A \cup B) \in Nat /\ Cardinality(Bad) \in Nat
      /\ Cardinality(Witnesses) \in Nat
  BY <1>1, <1>2, FS_CardinalityType
<1>4. Cardinality(A \cup B) = Cardinality(A) + Cardinality(B) - Cardinality(A \cap B)
  BY <1>2, FS_Union
<1>5. Cardinality(A \cup B) <= Cardinality(Witnesses)
  BY <1>1, FS_Subset
<1>6. Cardinality(A \cap B) > Cardinality(Bad)
  BY <1>1, <1>3, <1>4, <1>5
<1>7. ~(A \cap B \subseteq Bad)
  <2>1. A \cap B \subseteq Bad => Cardinality(A \cap B) <= Cardinality(Bad)
    BY <1>2, FS_Subset
  <2> QED BY <1>3, <1>6, <2>1
<1> QED BY <1>7

\* While the witnesses that are compromised or where calls have raced are fewer than
\* 2K - N, no client can be shown another branch than any other client.
THEOREM NoSplitViewHolds == Spec => []NoSplitView
<1>1. TypeInv /\ PinInv => NoSplitView
  <2> SUFFICES ASSUME TypeInv, PinInv, Cardinality(Faulty \cup raced) < 2 * K - Cardinality(Witnesses),
                      NEW c \in Checkpoints, NEW d \in Checkpoints,
                      VerifyQuorum(c), VerifyQuorum(d)
               PROVE  IsPrefix(c.root, d.root) \/ IsPrefix(d.root, c.root)
    BY DEF NoSplitView
  <2>1. PICK w \in Honest \ raced : w \in Cosigners(c) /\ w \in Cosigners(d)
    <3>1. Cosigners(c) \in SUBSET Witnesses /\ Cosigners(d) \in SUBSET Witnesses
      BY DEF Cosigners
    <3>2. Faulty \cup raced \in SUBSET Witnesses
      BY WitnessAssumption DEF TypeInv, TypeOK
    <3> QED BY <3>1, <3>2, QuorumsShareGood DEF VerifyQuorum, Honest
  <2>2. /\ pin[w] # None /\ pin[w] \in Checkpoint
        /\ IsPrefix(c.root, pin[w].root) /\ IsPrefix(d.root, pin[w].root)
    BY <2>1 DEF TypeInv, TypeOK, Honest, PinInv, WitnessInv, BelowPin, Cosigners
  <2>3. c.root \in Seq(Leaves) /\ d.root \in Seq(Leaves) /\ pin[w].root \in Seq(Leaves)
    BY <2>2, WitnessAssumption DEF Checkpoint
  <2> QED BY <2>2, <2>3, PrefixesComparable
<1> QED BY <1>1, TypeInit, TypeStep, PinInit, PinStep, PTL DEF Spec

================================================================================
