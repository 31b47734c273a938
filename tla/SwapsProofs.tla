------------------------------ MODULE SwapsProofs ------------------------------
(***************************************************************************)
(* Proofs about the swap life cycles, for any sets of swaps and calls.     *)
(*                                                                         *)
(* RecordNeverAhead is not inductive: the file is replaced by the copy a   *)
(* call read earlier, with a change it decided on earlier still.  Grounded *)
(* therefore says the same of every copy and of every pending change; the  *)
(* statuses of the exchange only grow, so what was grounded stays so.      *)
(*                                                                         *)
(* Nor is KeysKept: Whole says what a call that is not overtaken may rely  *)
(* on while it holds a copy of the file, and Life that the swap it writes  *)
(* is nobody else's, so that no removal takes away what a creation adds.   *)
(***************************************************************************)
EXTENDS Swaps, TLAPS

\* Calls that hold a change to the store.
Changing(t) == task[t].pc \in {"load", "truncate", "write"}

\* A call that is under way has a swap; one that updates a record has it in its copy.
CallInv ==
    \A t \in Tasks :
        /\ task[t].pc # "idle" => task[t].swap \in Swaps
        /\ task[t].pc \in {"truncate", "write"} /\ task[t].change.op = "update"
             => task[t].copy[task[t].swap] # None

\* Every record in R rests on what the exchange has said.
RecordsGrounded(R) ==
    \A s \in Swaps : R[s] # None => Grounds(R[s], Range(exchange[s]))

Grounded ==
    /\ disk # Torn => RecordsGrounded(disk)
    /\ \A t \in Tasks :
         /\ RecordsGrounded(task[t].copy)
         /\ Changing(t) /\ task[t].change.op # "remove"
              => Grounds(task[t].change, Range(exchange[task[t].swap]))

TypeInv == TypeOK /\ CallInv

Inv == TypeInv /\ Grounded

--------------------------------------------------------------------------------

\* Appending keeps what a sequence holds and adds the element: the exchange's
\* statuses of a swap are never withdrawn.
LEMMA RangeOfAppend ==
    ASSUME NEW S, NEW seq \in Seq(S), NEW x \in S
    PROVE  /\ Append(seq, x) \in Seq(S)
           /\ \A y \in Range(seq) : y \in Range(Append(seq, x))
           /\ x \in Range(Append(seq, x))
<1>1. /\ Append(seq, x) \in Seq(S)
      /\ Len(Append(seq, x)) = Len(seq) + 1
      /\ Len(seq) \in Nat
      /\ \A i \in 1..Len(seq) : Append(seq, x)[i] = seq[i]
      /\ Append(seq, x)[Len(seq) + 1] = x
  OBVIOUS
<1>2. DOMAIN seq = 1..Len(seq) /\ DOMAIN Append(seq, x) = 1..(Len(seq) + 1)
  BY <1>1
<1>3. ASSUME NEW y \in Range(seq) PROVE y \in Range(Append(seq, x))
  <2>1. PICK i \in 1..Len(seq) : y = seq[i]
    BY <1>2 DEF Range
  <2>2. i \in 1..(Len(seq) + 1) /\ Append(seq, x)[i] = y
    BY <1>1, <2>1
  <2> QED BY <1>2, <2>2 DEF Range
<1>4. x \in Range(Append(seq, x))
  <2>1. Len(seq) + 1 \in 1..(Len(seq) + 1)
    BY <1>1
  <2> QED BY <1>1, <1>2, <2>1 DEF Range
<1> QED BY <1>1, <1>3, <1>4

\* What a waiting call receives, the exchange has emitted (wait_for_status).
LEMMA ReceivedWasEmitted ==
    ASSUME NEW t \in Tasks, NEW status, Receives(t, status)
    PROVE  status \in Range(exchange[task[t].swap]) /\ task[t].pc = "await"
<1>1. \E i \in DOMAIN exchange[task[t].swap] : exchange[task[t].swap][i] = status
  BY DEF Receives
<1>2. task[t].pc = "await"
  BY DEF Receives
<1> QED BY <1>1, <1>2 DEF Range

\* The file, read as records, is typed.
LEMMA DiskTyped ==
    ASSUME TypeOK, disk # Torn
    PROVE  disk \in Records
BY DEF TypeOK

\* A call that has not begun, and the empty store, are typed.
LEMMA IdleTyped == Idle \in Task /\ NoRecords \in Records
BY DEF Idle, Task, PC, NoChange, Change, SwapStatus, NoRecords, Records

\* The record a change makes is typed.
LEMMA ChangedTyped ==
    ASSUME NEW R \in Records, NEW s \in Swaps, NEW c \in Change,
           c.op = "update" => R[s] # None
    PROVE  Changed(R[s], c) \in SwapRecord \cup {None}
<1>1. CASE c.op = "remove"
  BY <1>1 DEF Changed
<1>2. CASE c.op # "remove"
  <2>1. c.status \in SwapStatus /\ c.settled \in BOOLEAN
    BY DEF Change
  <2>2. (c.settled \/ (c.op = "update" /\ R[s].settled)) \in BOOLEAN
    OBVIOUS
  <2>3. Changed(R[s], c) = [status |-> c.status,
                            settled |-> c.settled \/ (c.op = "update" /\ R[s].settled)]
    BY <1>2 DEF Changed
  <2> QED BY <2>1, <2>2, <2>3 DEF SwapRecord
<1> QED BY <1>1, <1>2

--------------------------------------------------------------------------------
(* A step of one call *)

\* The exchange withdraws no status.
ExchangeGrows ==
    /\ exchange' \in [Swaps -> Seq(SwapStatus)]
    /\ \A s \in Swaps : \A y \in Range(exchange[s]) : y \in Range(exchange'[s])

\* What a call may become: typed, with its swap, its copy and its change grounded.
JobOK(job) ==
    /\ job \in Task
    /\ job.pc # "idle" => job.swap \in Swaps
    /\ job.pc \in {"truncate", "write"} /\ job.change.op = "update"
         => job.copy[job.swap] # None
    /\ \A s \in Swaps : job.copy[s] # None => Grounds(job.copy[s], Range(exchange'[s]))
    /\ job.pc \in {"load", "truncate", "write"} /\ job.change.op # "remove"
         => Grounds(job.change, Range(exchange'[job.swap]))

DiskOK ==
    /\ disk' \in Records \cup {Torn}
    /\ disk' # Torn => \A s \in Swaps : disk'[s] # None => Grounds(disk'[s], Range(exchange'[s]))

HistoryOK == stale' \in SUBSET Tasks /\ damaged' \in BOOLEAN

\* What was grounded stays so when more is said, and with a settlement transaction.
LEMMA GroundsGrow ==
    ASSUME NEW r, NEW q, NEW said, NEW more, Grounds(r, said), \A y \in said : y \in more,
           q.status = r.status, r.settled => q.settled
    PROVE  Grounds(q, more)
BY DEF Grounds

\* Grounded records stay grounded as the exchange goes on.
LEMMA StillGrounded ==
    ASSUME NEW R, RecordsGrounded(R), ExchangeGrows
    PROVE  \A s \in Swaps : R[s] # None => Grounds(R[s], Range(exchange'[s]))
BY GroundsGrow DEF RecordsGrounded, ExchangeGrows

\* A step of one call keeps the invariant if what the call becomes and what the
\* file becomes are grounded and the exchange only grows.
LEMMA CallStep ==
    ASSUME Inv, NEW t \in Tasks, NEW job, task' = [task EXCEPT ![t] = job], JobOK(job),
           ExchangeGrows, DiskOK, handed' \in SUBSET Swaps, HistoryOK
    PROVE  Inv'
<1>1. task \in [Tasks -> Task]
  BY DEF Inv, TypeInv, TypeOK
<1>2. task' \in [Tasks -> Task]
  BY <1>1 DEF JobOK
<1>3. \A u \in Tasks : task'[u] = IF u = t THEN job ELSE task[u]
  BY <1>1
<1>4. TypeOK'
  BY <1>2 DEF TypeOK, ExchangeGrows, DiskOK, HistoryOK
<1>5. CallInv'
  BY <1>3 DEF CallInv, JobOK, Inv, TypeInv
<1>6. Grounded'
  <2>1. disk' # Torn => RecordsGrounded(disk)'
    BY DEF DiskOK, RecordsGrounded
  <2>2. ASSUME NEW u \in Tasks
        PROVE  /\ RecordsGrounded(task[u].copy)'
               /\ Changing(u)' /\ task'[u].change.op # "remove"
                    => Grounds(task'[u].change, Range(exchange'[task'[u].swap]))
    <3>1. CASE u = t
      BY <1>3, <3>1 DEF JobOK, RecordsGrounded, Changing
    <3>2. CASE u # t
      <4>1. task'[u] = task[u]
        BY <1>3, <3>2
      <4>2. RecordsGrounded(task[u].copy)
        BY DEF Inv, Grounded
      <4>3. RecordsGrounded(task[u].copy)'
        BY <4>1, <4>2, StillGrounded DEF RecordsGrounded
      <4>4. ASSUME Changing(u)', task'[u].change.op # "remove"
            PROVE  Grounds(task'[u].change, Range(exchange'[task'[u].swap]))
        <5>1. Changing(u) /\ task[u].change.op # "remove" /\ task[u].swap \in Swaps
          BY <4>1, <4>4 DEF Changing, Inv, TypeInv, CallInv
        <5>2. Grounds(task[u].change, Range(exchange[task[u].swap]))
          BY <5>1 DEF Inv, Grounded
        <5> QED BY <4>1, <5>1, <5>2, GroundsGrow DEF ExchangeGrows
      <4> QED BY <4>3, <4>4
    <3> QED BY <3>1, <3>2
  <2> QED BY <2>1, <2>2 DEF Grounded
<1> QED BY <1>4, <1>5, <1>6 DEF Inv, TypeInv

\* A call that ends holds nothing.
LEMMA IdleOK == JobOK(Idle)
<1>1. Idle \in Task /\ Idle.pc = "idle" /\ Idle.copy = NoRecords
  BY IdleTyped DEF Idle
<1>2. \A s \in Swaps : NoRecords[s] = None
  BY DEF NoRecords
<1> QED BY <1>1, <1>2 DEF JobOK

\* A step that does not reach the exchange withdraws nothing.
LEMMA SameExchange ==
    ASSUME Inv, exchange' = exchange
    PROVE  ExchangeGrows
BY DEF Inv, TypeInv, TypeOK, ExchangeGrows

\* A step that changes no history keeps its types.
LEMMA SameHistory ==
    ASSUME Inv, UNCHANGED history
    PROVE  HistoryOK
BY DEF Inv, TypeInv, TypeOK, history, HistoryOK

\* A step that leaves the file alone keeps it grounded.
LEMMA SameDisk ==
    ASSUME Inv, ExchangeGrows, disk' = disk
    PROVE  DiskOK
<1>1. disk \in Records \cup {Torn}
  BY DEF Inv, TypeInv, TypeOK
<1>2. CASE disk = Torn
  BY <1>1, <1>2 DEF DiskOK
<1>3. CASE disk # Torn
  <2>1. RecordsGrounded(disk)
    BY <1>3 DEF Inv, Grounded
  <2> QED BY <1>1, <2>1, StillGrounded DEF DiskOK
<1> QED BY <1>2, <1>3

\* A call may end whatever it did to the file, if that is grounded.
LEMMA ReturnKeeps ==
    ASSUME Inv, NEW t \in Tasks, Return(t), ExchangeGrows, DiskOK, handed' \in SUBSET Swaps,
           HistoryOK
    PROVE  Inv'
<1>1. task' = [task EXCEPT ![t] = Idle]
  BY DEF Return
<1> QED BY <1>1, IdleOK, CallStep

\* A change that rests on a status of the exchange keeps the invariant.
LEMMA StoreKeeps ==
    ASSUME Inv, NEW t \in Tasks, NEW s \in Swaps, NEW op \in {"upsert", "update", "remove"},
           NEW status \in SwapStatus, NEW settled \in BOOLEAN, NEW again \in BOOLEAN,
           Store(t, s, op, status, settled, again), ExchangeGrows, disk' = disk,
           handed' \in SUBSET Swaps, UNCHANGED history,
           op # "remove" => Grounds([op |-> op, status |-> status, settled |-> settled, again |-> again],
                                    Range(exchange'[s]))
    PROVE  Inv'
<1> DEFINE change == [op |-> op, status |-> status, settled |-> settled, again |-> again]
           job == [Idle EXCEPT !.pc = "load", !.swap = s, !.change = change]
<1>1. /\ change \in Change /\ change.op = op
      /\ op # "remove" => Grounds(change, Range(exchange'[s]))
  BY DEF Change
<1>2. task' = [task EXCEPT ![t] = job]
  BY DEF Store
<1> HIDE DEF change
<1>3. /\ job.pc = "load" /\ job.swap = s /\ job.change = change
      /\ job.copy = NoRecords
  BY DEF Idle
<1>4. job \in Task
  BY <1>1, IdleTyped DEF Idle, Task, PC
<1>5. \A r \in Swaps : NoRecords[r] = None
  BY DEF NoRecords
<1> HIDE DEF job
<1>6. JobOK(job)
  BY <1>1, <1>3, <1>4, <1>5 DEF JobOK
<1> QED BY <1>2, <1>6, SameDisk, SameHistory, CallStep

\* A wait that begins holds nothing.
LEMMA ConnectingOK ==
    ASSUME NEW s \in Swaps
    PROVE  JobOK(Connecting(s))
<1>1. /\ Connecting(s).pc = "connect" /\ Connecting(s).swap = s
      /\ Connecting(s).copy = NoRecords
  BY DEF Connecting, Idle
<1>2. NoChange \in Change
  BY DEF NoChange, Change, SwapStatus
<1>3. Connecting(s) \in Task
  BY <1>2, IdleTyped DEF Connecting, Idle, Task, PC
<1>4. \A r \in Swaps : NoRecords[r] = None
  BY DEF NoRecords
<1> QED BY <1>1, <1>3, <1>4 DEF JobOK
--------------------------------------------------------------------------------
(* Every action keeps the invariant *)

\* The empty store before any call satisfies the invariant.
LEMMA Initially == Init => Inv
<1> SUFFICES ASSUME Init PROVE Inv
  OBVIOUS
<1>1. TypeOK
  <2>1. <<>> \in Seq(SwapStatus)
    OBVIOUS
  <2>2. exchange \in [Swaps -> Seq(SwapStatus)]
    BY <2>1 DEF Init
  <2>3. task \in [Tasks -> Task] /\ disk \in Records /\ handed = {} /\ stale = {}
    BY IdleTyped DEF Init
  <2>4. damaged \in BOOLEAN
    BY DEF Init
  <2> QED BY <2>2, <2>3, <2>4 DEF TypeOK
<1>2. \A t \in Tasks : task[t].pc = "idle" /\ task[t].copy = NoRecords
  BY DEF Init, Idle
<1>3. \A s \in Swaps : NoRecords[s] = None
  BY DEF NoRecords
<1>4. CallInv
  BY <1>2 DEF CallInv
<1>5. Grounded
  BY <1>2, <1>3 DEF Grounded, RecordsGrounded, Changing, Init
<1> QED BY <1>1, <1>4, <1>5 DEF Inv, TypeInv

\* Appending a status lets the exchange grow.
LEMMA EmittedGrows ==
    ASSUME Inv, NEW s \in Swaps, NEW status \in SwapStatus,
           exchange' = [exchange EXCEPT ![s] = Append(@, status)]
    PROVE  ExchangeGrows /\ status \in Range(exchange'[s])
<1>1. exchange \in [Swaps -> Seq(SwapStatus)]
  BY DEF Inv, TypeInv, TypeOK
<1>2. exchange[s] \in Seq(SwapStatus)
  BY <1>1
<1>3. /\ Append(exchange[s], status) \in Seq(SwapStatus)
      /\ \A y \in Range(exchange[s]) : y \in Range(Append(exchange[s], status))
      /\ status \in Range(Append(exchange[s], status))
  BY <1>2, RangeOfAppend
<1>4. \A r \in Swaps : exchange'[r] = IF r = s THEN Append(exchange[s], status) ELSE exchange[r]
  BY <1>1
<1>5. exchange' \in [Swaps -> Seq(SwapStatus)]
  BY <1>1, <1>3
<1> QED BY <1>3, <1>4, <1>5 DEF ExchangeGrows

\* A creation registers the swap with the exchange before it stores Created
\* (create_submarine, create_reverse, create_chain_swap).
LEMMA CreateKeeps ==
    ASSUME Inv, NEW t \in Tasks, NEW s \in Swaps, Create(t, s)
    PROVE  Inv'
<1>1. exchange \in [Swaps -> Seq(SwapStatus)] /\ handed \in SUBSET Swaps
  BY DEF Inv, TypeInv, TypeOK
<1>2. \A r \in Swaps : exchange'[r] = IF r = s THEN <<"Created">> ELSE exchange[r]
  BY <1>1 DEF Create
<1>3. <<"Created">> \in Seq(SwapStatus) /\ "Created" \in Range(<<"Created">>)
  <2>1. "Created" \in SwapStatus
    BY DEF SwapStatus
  <2>2. <<"Created">> \in Seq(SwapStatus) /\ DOMAIN <<"Created">> = 1..1 /\ <<"Created">>[1] = "Created"
    BY <2>1
  <2> QED BY <2>2 DEF Range
<1>4. \A y : y \notin Range(exchange[s])
  <2>1. exchange[s] = <<>>
    BY DEF Create
  <2>2. DOMAIN <<>> = {}
    OBVIOUS
  <2> QED BY <2>1, <2>2 DEF Range
<1>5. ExchangeGrows
  <2>1. exchange' \in [Swaps -> Seq(SwapStatus)]
    BY <1>1, <1>3 DEF Create
  <2> QED BY <1>2, <1>4, <2>1 DEF ExchangeGrows
<1>6. Grounds([op |-> "upsert", status |-> "Created", settled |-> FALSE, again |-> FALSE],
              Range(exchange'[s]))
  BY <1>2, <1>3 DEF Grounds
<1>7. /\ Store(t, s, "upsert", "Created", FALSE, FALSE) /\ disk' = disk /\ handed' = handed
      /\ UNCHANGED history
  BY DEF Create
<1>8. "Created" \in SwapStatus
  BY DEF SwapStatus
<1> QED BY <1>1, <1>5, <1>6, <1>7, <1>8, StoreKeeps

\* The steps that end a call and change nothing else.
LEMMA EndKeeps ==
    ASSUME Inv, NEW t \in Tasks, Return(t), UNCHANGED <<exchange, disk, handed, history>>
    PROVE  Inv'
<1>1. handed' \in SUBSET Swaps
  BY DEF Inv, TypeInv, TypeOK
<1>2. ExchangeGrows
  BY SameExchange
<1> QED BY <1>1, <1>2, SameDisk, SameHistory, ReturnKeeps

\* A status received is recorded as one that rests on it.
LEMMA RecordReceived ==
    ASSUME Inv, NEW t \in Tasks, NEW received, Receives(t, received),
           NEW status \in SwapStatus, NEW settled \in BOOLEAN,
           \A said : received \in said
                => Grounds([op |-> "update", status |-> status, settled |-> settled, again |-> FALSE],
                           said),
           Store(t, task[t].swap, "update", status, settled, FALSE),
           UNCHANGED <<exchange, disk, handed, history>>
    PROVE  Inv'
<1>1. received \in Range(exchange[task[t].swap]) /\ task[t].swap \in Swaps
  BY ReceivedWasEmitted DEF Inv, TypeInv, CallInv
<1>2. handed' \in SUBSET Swaps
  BY DEF Inv, TypeInv, TypeOK
<1>3. ExchangeGrows
  BY SameExchange
<1>4. Grounds([op |-> "update", status |-> status, settled |-> settled, again |-> FALSE],
              Range(exchange'[task[t].swap]))
  BY <1>1
<1> QED BY <1>1, <1>2, <1>3, <1>4, StoreKeeps

\* What a call does after its write holds nothing.
LEMMA AfterwardsOK ==
    ASSUME NEW s \in Swaps, NEW c
    PROVE  JobOK(Afterwards(s, c))
<1> DEFINE job == [Idle EXCEPT !.pc = "return", !.swap = s]
<1>1. job.pc = "return" /\ job.swap = s /\ job.copy = NoRecords
  BY DEF Idle
<1>2. NoChange \in Change
  BY DEF NoChange, Change, SwapStatus
<1>3. job \in Task
  BY <1>2, IdleTyped DEF Idle, Task, PC
<1>4. \A r \in Swaps : NoRecords[r] = None
  BY DEF NoRecords
<1>5. JobOK(job)
  BY <1>1, <1>3, <1>4 DEF JobOK
<1>6. Afterwards(s, c) \in {job, Connecting(s), Idle}
  BY DEF Afterwards
<1> QED BY <1>5, <1>6, ConnectingOK, IdleOK

\* The write of save_all keeps the invariant.
LEMMA WriteKeeps ==
    ASSUME Inv, NEW t \in Tasks, Write(t)
    PROVE  Inv'
<1> DEFINE s == task[t].swap
           c == task[t].change
           R == task[t].copy
           new == [R EXCEPT ![s] = Changed(R[s], c)]
<1>1. task[t] \in Task /\ task[t].pc = "write" /\ s \in Swaps /\ handed \in SUBSET Swaps
  BY DEF Inv, TypeInv, TypeOK, CallInv, Write
<1>2. R \in Records /\ c \in Change
  BY <1>1 DEF Task
<1>3. c.op = "update" => R[s] # None
  BY <1>1 DEF Inv, TypeInv, CallInv
<1>4. Changed(R[s], c) \in SwapRecord \cup {None}
  BY <1>1, <1>2, <1>3, ChangedTyped
<1>5. new \in Records
  BY <1>2, <1>4 DEF Records
<1>6. \A r \in Swaps : new[r] = IF r = s THEN Changed(R[s], c) ELSE R[r]
  BY <1>2 DEF Records
<1>7. exchange' = exchange /\ disk' \in Overwritten(new)
  BY DEF Write
<1>8. disk' \in {new, Torn}
  BY <1>7 DEF Overwritten
<1>9. Changed(R[s], c) # None
        => c.op # "remove" /\ Changed(R[s], c).status = c.status
           /\ (c.settled => Changed(R[s], c).settled)
  BY DEF Changed
<1>10. RecordsGrounded(R)
  BY DEF Inv, Grounded
<1>11. c.op # "remove" => Grounds(c, Range(exchange[s]))
  BY <1>1 DEF Inv, Grounded, Changing
<1>12. Changed(R[s], c) # None => Grounds(Changed(R[s], c), Range(exchange[s]))
  BY <1>9, <1>11, GroundsGrow
<1>13. \A r \in Swaps : new[r] # None => Grounds(new[r], Range(exchange[r]))
  BY <1>6, <1>10, <1>12 DEF RecordsGrounded
<1>14. ExchangeGrows
  BY <1>7, SameExchange
<1> HIDE DEF new
<1>15. DiskOK
  BY <1>5, <1>7, <1>8, <1>13 DEF DiskOK
<1>16. handed' \in SUBSET Swaps /\ HistoryOK
  BY <1>1 DEF Write, HistoryOK, Inv, TypeInv, TypeOK
<1>17. task' = [task EXCEPT ![t] = Afterwards(s, c)]
  BY DEF Write
<1> QED BY <1>1, <1>14, <1>15, <1>16, <1>17, AfterwardsOK, CallStep

\* load_all, the truncation of save_all and the opening of the socket.
LEMMA LoadKeeps ==
    ASSUME Inv, NEW t \in Tasks, Load(t) \/ Truncate(t) \/ Connect(t)
    PROVE  Inv'
<1>1. /\ task[t] \in Task /\ task[t].pc \in {"load", "truncate", "connect"}
      /\ task[t].swap \in Swaps /\ handed' \in SUBSET Swaps /\ exchange' = exchange
  BY DEF Inv, TypeInv, TypeOK, CallInv, Load, Truncate, Connect
<1>2. ExchangeGrows
  BY <1>1, SameExchange
<1>3. /\ RecordsGrounded(task[t].copy)
      /\ Changing(t) /\ task[t].change.op # "remove"
           => Grounds(task[t].change, Range(exchange[task[t].swap]))
  BY DEF Inv, Grounded
<1>0. HistoryOK
  BY DEF Inv, TypeInv, TypeOK, HistoryOK, Load, Truncate, Connect, Others, history
<1>4. CASE Load(t)
  <2> DEFINE job == [task[t] EXCEPT !.pc = "truncate", !.copy = disk]
  <2>1. task' = [task EXCEPT ![t] = job] /\ disk' = disk /\ disk # Torn
        /\ task[t].pc = "load" /\ (task[t].change.op = "update" => disk[task[t].swap] # None)
    BY <1>4 DEF Load
  <2>2. disk \in Records /\ RecordsGrounded(disk)
    BY <2>1, DiskTyped DEF Inv, TypeInv, Grounded
  <2>3. /\ job.pc = "truncate" /\ job.swap = task[t].swap
        /\ job.change = task[t].change /\ job.copy = disk /\ job \in Task
    BY <1>1, <2>2 DEF Task, PC
  <2> HIDE DEF job
  <2>4. JobOK(job)
    BY <1>1, <1>3, <2>1, <2>2, <2>3 DEF JobOK, Changing, RecordsGrounded
  <2> QED BY <1>0, <1>1, <1>2, <2>1, <2>4, SameDisk, CallStep
<1>5. CASE Truncate(t)
  <2> DEFINE job == [task[t] EXCEPT !.pc = "write"]
  <2>1. task' = [task EXCEPT ![t] = job] /\ disk' = NoRecords /\ task[t].pc = "truncate"
    BY <1>5 DEF Truncate
  <2>2. \A s \in Swaps : NoRecords[s] = None
    BY DEF NoRecords
  <2>3. DiskOK
    BY <2>1, <2>2, IdleTyped DEF DiskOK
  <2>4. /\ job.pc = "write" /\ job.swap = task[t].swap
        /\ job.change = task[t].change /\ job.copy = task[t].copy /\ job \in Task
    BY <1>1 DEF Task, PC
  <2>5. task[t].change.op = "update" => task[t].copy[task[t].swap] # None
    BY <2>1 DEF Inv, TypeInv, CallInv
  <2> HIDE DEF job
  <2>6. JobOK(job)
    BY <1>1, <1>3, <2>1, <2>4, <2>5 DEF JobOK, Changing, RecordsGrounded
  <2> QED BY <1>0, <1>1, <1>2, <2>1, <2>3, <2>6, CallStep
<1>6. CASE Connect(t)
  <2> DEFINE job == [task[t] EXCEPT !.pc = "await", !.from = Len(exchange[task[t].swap])]
  <2>1. task' = [task EXCEPT ![t] = job] /\ disk' = disk
    BY <1>6 DEF Connect
  <2>2. Len(exchange[task[t].swap]) \in Nat
    BY <1>1 DEF Inv, TypeInv, TypeOK
  <2>3. job.pc = "await" /\ job.swap = task[t].swap /\ job.copy = task[t].copy /\ job \in Task
    BY <1>1, <2>2 DEF Task, PC
  <2> HIDE DEF job
  <2>4. JobOK(job)
    BY <1>1, <1>3, <2>3 DEF JobOK, RecordsGrounded
  <2> QED BY <1>0, <1>1, <1>2, <2>1, <2>4, SameDisk, CallStep
<1> QED BY <1>4, <1>5, <1>6

\* The calls that record what they received, and those that end on it.
LEMMA ReceiveKeeps ==
    ASSUME Inv, NEW t \in Tasks,
           \/ SubmarinePaid(t) \/ SubmarineRefund(t) \/ ReverseClaim(t)
           \/ LockupFailed(t) \/ Renegotiate(t)
    PROVE  Inv'
<1> USE DEF SwapStatus
<1>0. \A said :
        /\ "InvoicePaid" \in said
             => Grounds([op |-> "update", status |-> "InvoicePaid", settled |-> FALSE, again |-> FALSE], said)
        /\ \A built : "InvoiceFailedToPay" \in said
             => Grounds([op |-> "update", status |-> "TransactionRefunded", settled |-> built,
                         again |-> FALSE], said)
        /\ "TransactionConfirmed" \in said
             => Grounds([op |-> "update", status |-> "TransactionClaimed", settled |-> TRUE,
                         again |-> FALSE], said)
        /\ "TransactionLockupFailed" \in said
             => Grounds([op |-> "update", status |-> "TransactionLockupFailed", settled |-> FALSE,
                         again |-> FALSE], said)
        /\ "Created" \in said
             => Grounds([op |-> "update", status |-> "Created", settled |-> FALSE, again |-> TRUE], said)
  BY DEF Grounds
<1>1. CASE SubmarinePaid(t)
  BY <1>0, <1>1, RecordReceived DEF SubmarinePaid
<1>2. CASE SubmarineRefund(t)
  <2>1. PICK built \in BOOLEAN :
          Store(t, task[t].swap, "update", "TransactionRefunded", built, FALSE)
    BY <1>2 DEF SubmarineRefund
  <2> QED BY <1>0, <1>2, <2>1, RecordReceived DEF SubmarineRefund
<1>3. CASE ReverseClaim(t)
  BY <1>0, <1>3, RecordReceived DEF ReverseClaim
<1>4. CASE LockupFailed(t)
  BY <1>0, <1>4, RecordReceived DEF LockupFailed
<1>5. CASE Renegotiate(t)
  <2>1. task[t].pc = "await"
    BY <1>5, ReceivedWasEmitted DEF Renegotiate
  <2>2. task[t].swap \in Swaps /\ handed \in SUBSET Swaps
    BY <2>1 DEF Inv, TypeInv, CallInv, TypeOK
  <2>3. /\ exchange' = [exchange EXCEPT ![task[t].swap] = Append(@, "Created")]
        /\ Store(t, task[t].swap, "update", "Created", FALSE, TRUE)
        /\ disk' = disk /\ handed' = handed /\ UNCHANGED history
    BY <1>5 DEF Renegotiate
  <2>4. ExchangeGrows /\ "Created" \in Range(exchange'[task[t].swap])
    BY <2>2, <2>3, EmittedGrows
  <2> QED BY <1>0, <2>2, <2>3, <2>4, StoreKeeps
<1> QED BY <1>1, <1>2, <1>3, <1>4, <1>5

\* The steps of nobody's call.
LEMMA EnvironmentKeeps ==
    ASSUME Inv, (\E s \in Swaps : Emit(s)) \/ Crash \/ UNCHANGED vars
    PROVE  Inv'
<1>1. CASE UNCHANGED vars
  BY <1>1 DEF vars, history, Inv, TypeInv, TypeOK, CallInv, Grounded, RecordsGrounded, Changing
<1>2. CASE Crash
  <2>1. /\ exchange' = exchange /\ disk' = disk /\ handed' = handed
        /\ task' = [u \in Tasks |-> Idle] /\ HistoryOK
    BY <1>2 DEF Crash, HistoryOK, Inv, TypeInv, TypeOK
  <2>2. \A u \in Tasks : task'[u].pc = "idle" /\ task'[u].copy = NoRecords
    BY <2>1 DEF Idle
  <2>3. \A s \in Swaps : NoRecords[s] = None
    BY DEF NoRecords
  <2>4. TypeOK'
    BY <2>1, IdleTyped DEF Inv, TypeInv, TypeOK, HistoryOK
  <2>5. CallInv'
    BY <2>2 DEF CallInv
  <2>6. disk' # Torn => RecordsGrounded(disk)'
    BY <2>1 DEF Inv, Grounded, RecordsGrounded
  <2>7. Grounded'
    BY <2>2, <2>3, <2>6 DEF Grounded, RecordsGrounded, Changing
  <2> QED BY <2>4, <2>5, <2>7 DEF Inv, TypeInv
<1>3. ASSUME NEW s \in Swaps, Emit(s) PROVE Inv'
  <2>1. PICK status \in SwapStatus : exchange' = [exchange EXCEPT ![s] = Append(@, status)]
    BY <1>3 DEF Emit
  <2>2. ExchangeGrows /\ disk' = disk /\ handed' = handed /\ task' = task /\ UNCHANGED history
    BY <1>3, <2>1, EmittedGrows DEF Emit
  <2>3. TypeOK'
    BY <2>2 DEF ExchangeGrows, Inv, TypeInv, TypeOK, history
  <2>4. CallInv'
    BY <2>2 DEF CallInv, Inv, TypeInv
  <2>5. Grounded'
    <3>1. ASSUME NEW R, RecordsGrounded(R)
          PROVE  \A r \in Swaps : R[r] # None => Grounds(R[r], Range(exchange'[r]))
      BY <2>2, <3>1, StillGrounded
    <3>2. ASSUME NEW u \in Tasks, Changing(u), task[u].change.op # "remove"
          PROVE  Grounds(task[u].change, Range(exchange'[task[u].swap]))
      <4>1. task[u].swap \in Swaps /\ Grounds(task[u].change, Range(exchange[task[u].swap]))
        BY <3>2 DEF Inv, TypeInv, CallInv, Changing, Grounded
      <4> QED BY <2>2, <4>1, GroundsGrow DEF ExchangeGrows
    <3> QED BY <2>2, <3>1, <3>2 DEF Grounded, RecordsGrounded, Changing, Inv
  <2> QED BY <2>3, <2>4, <2>5 DEF Inv, TypeInv
<1> QED BY <1>1, <1>2, <1>3

\* Every step keeps the invariant.
LEMMA NextKeeps ==
    ASSUME Inv, [Next]_vars
    PROVE  Inv'
<1>1. handed \in SUBSET Swaps
  BY DEF Inv, TypeInv, TypeOK
<1>2. ASSUME NEW t \in Tasks, NEW s \in Swaps, Create(t, s) PROVE Inv'
  BY <1>2, CreateKeeps
<1>3. ASSUME NEW t \in Tasks, NEW s \in Swaps, RemoveSwap(t, s) PROVE Inv'
  <2>1. /\ handed' \in SUBSET Swaps /\ disk' = disk /\ exchange' = exchange
        /\ Store(t, s, "remove", "Created", FALSE, FALSE) /\ UNCHANGED history
    BY <1>1, <1>3 DEF RemoveSwap
  <2>2. ExchangeGrows /\ "Created" \in SwapStatus
    BY <2>1, SameExchange DEF SwapStatus
  <2> QED BY <2>1, <2>2, StoreKeeps
<1>4. ASSUME NEW t \in Tasks, NEW s \in Swaps, BeginWait(t, s) PROVE Inv'
  <2>1. /\ task' = [task EXCEPT ![t] = Connecting(s)]
        /\ handed' = handed /\ disk' = disk /\ exchange' = exchange /\ UNCHANGED history
    BY <1>4 DEF BeginWait
  <2>2. ExchangeGrows
    BY <2>1, SameExchange
  <2> QED BY <1>1, <2>1, <2>2, ConnectingOK, SameDisk, SameHistory, CallStep
<1>5. ASSUME NEW t \in Tasks,
             \/ ConnectFails(t) \/ LoadFails(t) \/ WaitEnds(t) \/ ReverseClaimFails(t)
             \/ ChainClaimFails(t) \/ WaitRejects(t)
      PROVE  Inv'
  BY <1>5, EndKeeps DEF ConnectFails, LoadFails, WaitEnds, ReverseClaimFails, ChainClaimFails,
                         WaitRejects
<1>6. ASSUME NEW t \in Tasks, WriteFails(t) PROVE Inv'
  <2>1. /\ Return(t) /\ exchange' = exchange /\ handed' = handed /\ disk' \in {NoRecords, Torn}
        /\ HistoryOK
    BY <1>6 DEF WriteFails, HistoryOK, Inv, TypeInv, TypeOK
  <2>2. \A s \in Swaps : NoRecords[s] = None
    BY DEF NoRecords
  <2>3. DiskOK
    BY <2>1, <2>2, IdleTyped DEF DiskOK
  <2>4. ExchangeGrows
    BY <2>1, SameExchange
  <2> QED BY <1>1, <2>1, <2>3, <2>4, ReturnKeeps
<1>7. ASSUME NEW t \in Tasks, HandOut(t) PROVE Inv'
  <2>1. /\ Return(t) /\ exchange' = exchange /\ disk' = disk /\ UNCHANGED history
        /\ handed' \in SUBSET Swaps
    BY <1>1, <1>7 DEF HandOut, Inv, TypeInv, CallInv
  <2>2. ExchangeGrows
    BY <2>1, SameExchange
  <2> QED BY <2>1, <2>2, SameDisk, SameHistory, ReturnKeeps
<1> QED BY <1>2, <1>3, <1>4, <1>5, <1>6, <1>7, LoadKeeps, WriteKeeps, ReceiveKeeps, EnvironmentKeeps
        DEF Next, Continue, CreateSubmarine, CreateReverse, CreateChainSwap

\* The inductive invariant holds throughout.
LEMMA Invariance == Spec => []Inv
BY Initially, NextKeeps, PTL DEF Spec

--------------------------------------------------------------------------------
(* Theorems *)

\* Every reachable state of the calls and of the store file is well typed.
THEOREM TypeCorrect == Spec => []TypeOK
<1>1. Inv => TypeOK
  BY DEF Inv, TypeInv
<1> QED BY <1>1, Invariance, PTL

\* Whatever calls race on the file, fail, crash or are retried, the store never
\* records more than the exchange has said (wait_submarine,
\* wait_and_claim_reverse, wait_and_claim_chain, update_status).
THEOREM RecordNeverAheadHolds == Spec => []RecordNeverAhead
<1>1. Inv => RecordNeverAhead
  BY DEF Inv, Grounded, RecordsGrounded, RecordNeverAhead, Has
<1> QED BY <1>1, Invariance, PTL

--------------------------------------------------------------------------------
(* The keys *)

\* The call in state j is a creation, or a removal, that has not ended.
Creating(j) == (j.pc \in {"load", "truncate", "write"} /\ j.change.op = "upsert") \/ j.pc = "return"
Removing(j) == j.pc \in {"load", "truncate", "write"} /\ j.change.op = "remove"

Born(s) == "Created" \in Range(exchange[s])

\* A swap is created once: while its creation runs, no other call works on it and the
\* user does not know it.  A swap that is being removed is nobody's any more.
Life ==
    /\ \A s \in handed : Born(s)
    /\ \A t \in Tasks : task[t].pc # "idle" => Born(task[t].swap)
    /\ \A t \in Tasks : Creating(task[t]) =>
          /\ task[t].swap \notin handed
          /\ \A u \in Tasks \ {t} : task[u].pc # "idle" => task[u].swap # task[t].swap
    /\ \A t \in Tasks : Removing(task[t]) => task[t].swap \notin handed

\* The swaps whose keys must be in the file.
Kept == handed \cup {task[t].swap : t \in {u \in Tasks : task[u].pc = "return"}}

Holds(R) == \A s \in Kept : R[s] # None

\* Between rewrites the file holds the keys; a call that is not overtaken has the file
\* as it is, and once it has emptied the file it is the only one of that kind.
Whole ==
    /\ (\A t \in Tasks : task[t].pc # "write") => disk # Torn /\ Holds(disk)
    /\ \A t \in Tasks \ stale :
          /\ task[t].pc = "truncate"
               => task[t].copy = disk /\ \A u \in Tasks : task[u].pc # "write"
          /\ task[t].pc = "write"
               => /\ disk = NoRecords
                  /\ Holds(task[t].copy)
                  /\ \A u \in Tasks \ {t} : task[u].pc \in {"truncate", "write"} => u \in stale
    /\ \A t \in stale : task[t].pc \in {"truncate", "write"}

KeysInv == Life /\ (damaged \/ Whole)

\* A call that goes on with its swap, or ends, keeps the life of every swap.
LEMMA LifeGoesOn ==
    ASSUME Inv, Life, NEW t \in Tasks, NEW job, task' = [task EXCEPT ![t] = job],
           job.pc # "idle" => task[t].pc # "idle" /\ job.swap = task[t].swap,
           Creating(job) => Creating(task[t]), Removing(job) => Removing(task[t]),
           ExchangeGrows, handed' = handed
    PROVE  Life'
<1>1. \A u \in Tasks : task'[u] = IF u = t THEN job ELSE task[u]
  BY DEF Inv, TypeInv, TypeOK
<1>2. \A s \in Swaps : Born(s) => Born(s)'
  BY DEF Born, ExchangeGrows
<1>3. /\ handed \in SUBSET Swaps
      /\ \A u \in Tasks : task[u].pc # "idle" => task[u].swap \in Swaps
  BY DEF Inv, TypeInv, TypeOK, CallInv
<1>4. \A u \in Tasks : task'[u].pc # "idle" => task[u].pc # "idle" /\ task'[u].swap = task[u].swap
  BY <1>1
<1>5. \A u \in Tasks : /\ Creating(task'[u]) => Creating(task[u])
                       /\ Removing(task'[u]) => Removing(task[u])
  BY <1>1
<1>6. \A u \in Tasks : Creating(task'[u]) \/ Removing(task'[u]) => task'[u].pc # "idle"
  BY DEF Creating, Removing
<1>7. (\A s \in handed : Born(s))'
  BY <1>2, <1>3 DEF Life
<1>8. (\A u \in Tasks : task[u].pc # "idle" => Born(task[u].swap))'
  <2> SUFFICES ASSUME NEW u \in Tasks, task'[u].pc # "idle" PROVE Born(task[u].swap)'
    BY DEF Born
  <2>1. task[u].pc # "idle" /\ task'[u].swap = task[u].swap /\ Born(task[u].swap)
    BY <1>4 DEF Life
  <2> QED BY <1>2, <1>3, <2>1 DEF Born
<1>9. \A u \in Tasks : Creating(task'[u]) =>
          /\ task'[u].swap \notin handed
          /\ \A v \in Tasks \ {u} : task'[v].pc # "idle" => task'[v].swap # task'[u].swap
  BY <1>4, <1>5, <1>6 DEF Life
<1>10. \A u \in Tasks : Removing(task'[u]) => task'[u].swap \notin handed
  BY <1>4, <1>5, <1>6 DEF Life
<1> QED BY <1>7, <1>8, <1>9, <1>10 DEF Life, Creating, Removing

\* A step outside load_all and save_all that makes no swap known keeps the file whole.
LEMMA WholeStays ==
    ASSUME Inv, damaged \/ Whole, NEW t \in Tasks, NEW job, task' = [task EXCEPT ![t] = job],
           task[t].pc \notin {"truncate", "write"}, job.pc \notin {"truncate", "write", "return"},
           Kept' \subseteq Kept, UNCHANGED <<disk, history>>
    PROVE  (damaged \/ Whole)'
<1>1. \A u \in Tasks : task'[u] = IF u = t THEN job ELSE task[u]
  BY DEF Inv, TypeInv, TypeOK
<1>2. \A R : Holds(R) => Holds(R)'
  BY DEF Holds
<1> SUFFICES ASSUME Whole, ~damaged PROVE Whole'
  BY DEF history
<1>3. \A u \in Tasks : /\ task'[u].pc = "write" <=> task[u].pc = "write"
                       /\ task'[u].pc = "truncate" <=> task[u].pc = "truncate"
                       /\ task'[u].pc \in {"truncate", "write"} => task'[u] = task[u]
  BY <1>1
<1>4. stale' = stale /\ disk' = disk /\ stale \in SUBSET Tasks
  BY DEF history, Inv, TypeInv, TypeOK
<1>5. (\A u \in Tasks : task'[u].pc # "write") => disk' # Torn /\ Holds(disk)'
  BY <1>2, <1>3, <1>4 DEF Whole, Holds
<1>6. \A u \in Tasks \ stale : task'[u].pc = "truncate"
               => task'[u].copy = disk' /\ \A v \in Tasks : task'[v].pc # "write"
  BY <1>3, <1>4 DEF Whole
<1>7. \A u \in Tasks \ stale : task'[u].pc = "write"
               => /\ disk' = NoRecords
                  /\ Holds(task[u].copy)
                  /\ \A v \in Tasks \ {u} : task'[v].pc \in {"truncate", "write"} => v \in stale
  BY <1>3, <1>4 DEF Whole
<1>8. \A u \in Tasks \ stale : task'[u].pc = "write" => Holds(task[u].copy)'
  BY <1>2, <1>3, <1>7 DEF Holds
<1>9. \A u \in stale : task'[u].pc \in {"truncate", "write"}
  BY <1>3, <1>4 DEF Whole
<1> QED BY <1>4, <1>5, <1>6, <1>7, <1>8, <1>9 DEF Whole

\* The swaps whose keys must be kept, after a step of one call.
LEMMA KeptAfter ==
    ASSUME Inv, NEW t \in Tasks, NEW job, task' = [task EXCEPT ![t] = job]
    PROVE  /\ job.pc # "return" /\ handed' \subseteq handed => Kept' \subseteq Kept
           /\ handed' \subseteq handed => Kept' \subseteq Kept \cup {job.swap}
<1>1. \A u \in Tasks : task'[u] = IF u = t THEN job ELSE task[u]
  BY DEF Inv, TypeInv, TypeOK
<1>2. ASSUME NEW s \in Kept', handed' \subseteq handed PROVE s \in Kept \/ (job.pc = "return" /\ s = job.swap)
  <2>1. CASE s \in handed'
    BY <1>2, <2>1 DEF Kept
  <2>2. CASE s \notin handed'
    <3>1. PICK u \in Tasks : task'[u].pc = "return" /\ s = task'[u].swap
      BY <2>2 DEF Kept
    <3> QED BY <1>1, <3>1 DEF Kept
  <2> QED BY <2>1, <2>2
<1> QED BY <1>2

\* Both, for the steps of a call that neither create, remove nor rewrite.
LEMMA KeysGoOn ==
    ASSUME Inv, KeysInv, NEW t \in Tasks, NEW job, task' = [task EXCEPT ![t] = job],
           job.pc # "idle" => task[t].pc # "idle" /\ job.swap = task[t].swap,
           Creating(job) => Creating(task[t]), Removing(job) => Removing(task[t]),
           task[t].pc \notin {"truncate", "write"}, job.pc \notin {"truncate", "write", "return"},
           ExchangeGrows, UNCHANGED <<disk, handed, history>>
    PROVE  KeysInv'
<1>1. Life'
  BY LifeGoesOn DEF KeysInv
<1>2. Kept' \subseteq Kept
  BY KeptAfter
<1> QED BY <1>1, <1>2, WholeStays DEF KeysInv

\* What a call that goes on to change the store holds.
LEMMA StoredJob ==
    ASSUME NEW t, NEW s, NEW op, NEW status, NEW settled, NEW again,
           Store(t, s, op, status, settled, again)
    PROVE  \E job : /\ task' = [task EXCEPT ![t] = job]
                    /\ job.pc = "load" /\ job.swap = s /\ job.change.op = op
<1> DEFINE job == [Idle EXCEPT !.pc = "load", !.swap = s,
                     !.change = [op |-> op, status |-> status, settled |-> settled, again |-> again]]
<1>1. job.pc = "load" /\ job.swap = s /\ job.change.op = op
  BY DEF Idle
<1>2. task' = [task EXCEPT ![t] = job]
  BY DEF Store
<1> QED BY <1>1, <1>2

\* A wait that goes on to update the record.
LEMMA UpdateKeepsKeys ==
    ASSUME Inv, KeysInv, NEW t \in Tasks, task[t].pc = "await", ExchangeGrows,
           NEW status, NEW settled, NEW again,
           Store(t, task[t].swap, "update", status, settled, again),
           UNCHANGED <<disk, handed, history>>
    PROVE  KeysInv'
<1>1. PICK job : /\ task' = [task EXCEPT ![t] = job]
                 /\ job.pc = "load" /\ job.swap = task[t].swap /\ job.change.op = "update"
  BY StoredJob
<1>2. ~Creating(job) /\ ~Removing(job)
  BY <1>1 DEF Creating, Removing
<1> QED BY <1>1, <1>2, KeysGoOn

\* A call that ends outside save_all.
LEMMA EndKeepsKeys ==
    ASSUME Inv, KeysInv, NEW t \in Tasks, task[t].pc \notin {"truncate", "write"}, Return(t),
           UNCHANGED <<exchange, disk, handed, history>>
    PROVE  KeysInv'
<1>1. Idle.pc = "idle" /\ task' = [task EXCEPT ![t] = Idle]
  BY DEF Idle, Return
<1>2. ~Creating(Idle) /\ ~Removing(Idle)
  BY <1>1 DEF Creating, Removing
<1> QED BY <1>1, <1>2, SameExchange, KeysGoOn

\* A creation begins with a swap that nobody has.
LEMMA CreateKeepsKeys ==
    ASSUME Inv, KeysInv, NEW t \in Tasks, NEW s \in Swaps, Create(t, s)
    PROVE  KeysInv'
<1>0. PICK no \in BOOLEAN : Store(t, s, "upsert", "Created", no, no)
  BY DEF Create
<1>1. PICK job : /\ task' = [task EXCEPT ![t] = job]
                 /\ job.pc = "load" /\ job.swap = s /\ job.change.op = "upsert"
  BY <1>0, StoredJob
<1>2. /\ task[t].pc = "idle" /\ exchange \in [Swaps -> Seq(SwapStatus)] /\ exchange[s] = <<>>
      /\ exchange' = [exchange EXCEPT ![s] = <<"Created">>]
      /\ UNCHANGED <<disk, handed, history>>
  BY DEF Create, Inv, TypeInv, TypeOK
<1>3. /\ \A u \in Tasks : task'[u] = IF u = t THEN job ELSE task[u]
      /\ handed \in SUBSET Swaps
      /\ \A u \in Tasks : task[u].pc # "idle" => task[u].swap \in Swaps
  BY <1>1 DEF Inv, TypeInv, TypeOK, CallInv
<1>4. ~Born(s)
  <2>1. DOMAIN <<>> = {}
    OBVIOUS
  <2> QED BY <1>2, <2>1 DEF Born, Range
<1>5. "Created" \in Range(<<"Created">>)
  <2>1. DOMAIN <<"Created">> = 1..1 /\ <<"Created">>[1] = "Created"
    OBVIOUS
  <2> QED BY <2>1 DEF Range
<1>6. \A r \in Swaps : Born(r) \/ r = s => "Created" \in Range(exchange'[r])
  BY <1>2, <1>5 DEF Born
<1>7. s \notin handed /\ \A u \in Tasks : task[u].pc # "idle" => task[u].swap # s
  BY <1>4 DEF KeysInv, Life
<1>8. Creating(job) /\ ~Removing(job)
  BY <1>1 DEF Creating, Removing
<1>9. Life'
  <2>1. \A r \in handed : "Created" \in Range(exchange'[r])
    BY <1>3, <1>6 DEF KeysInv, Life
  <2>2. \A u \in Tasks : task'[u].pc # "idle" => "Created" \in Range(exchange'[task'[u].swap])
    BY <1>1, <1>3, <1>6 DEF KeysInv, Life
  <2>3. \A u \in Tasks : Creating(task'[u]) =>
          /\ task'[u].swap \notin handed
          /\ \A v \in Tasks \ {u} : task'[v].pc # "idle" => task'[v].swap # task'[u].swap
    <3> SUFFICES ASSUME NEW u \in Tasks, Creating(task'[u])
                 PROVE  /\ task'[u].swap \notin handed
                        /\ \A v \in Tasks \ {u} : task'[v].pc # "idle" => task'[v].swap # task'[u].swap
      OBVIOUS
    <3>1. CASE u = t
      BY <1>1, <1>3, <1>7, <3>1
    <3>2. CASE u # t
      <4>1. task'[u] = task[u] /\ Creating(task[u]) /\ task[u].pc # "idle"
        BY <1>3, <3>2 DEF Creating
      <4> QED BY <1>1, <1>3, <1>7, <4>1 DEF KeysInv, Life
    <3> QED BY <3>1, <3>2
  <2>4. \A u \in Tasks : Removing(task'[u]) => task'[u].swap \notin handed
    BY <1>3, <1>8 DEF KeysInv, Life
  <2> QED BY <1>2, <2>1, <2>2, <2>3, <2>4 DEF Life, Born, Creating, Removing
<1>10. Kept' \subseteq Kept
  BY <1>1, <1>2, KeptAfter
<1> QED BY <1>1, <1>2, <1>9, <1>10, WholeStays DEF KeysInv

\* A removal gives its swap up before it touches the file.
LEMMA RemoveKeepsKeys ==
    ASSUME Inv, KeysInv, NEW t \in Tasks, NEW s \in Swaps, RemoveSwap(t, s)
    PROVE  KeysInv'
<1>0. PICK no \in BOOLEAN : Store(t, s, "remove", "Created", no, no)
  BY DEF RemoveSwap
<1>1. PICK job : /\ task' = [task EXCEPT ![t] = job]
                 /\ job.pc = "load" /\ job.swap = s /\ job.change.op = "remove"
  BY <1>0, StoredJob
<1>2. task[t].pc = "idle" /\ s \in handed /\ handed' = handed \ {s} /\ UNCHANGED <<exchange, disk, history>>
  BY DEF RemoveSwap
<1>3. \A u \in Tasks : task'[u] = IF u = t THEN job ELSE task[u]
  BY <1>1 DEF Inv, TypeInv, TypeOK
<1>4. ~Creating(job) /\ Removing(job)
  BY <1>1 DEF Creating, Removing
<1>5. Life'
  <2>1. \A r \in handed' : Born(r)
    BY <1>2 DEF KeysInv, Life
  <2>2. \A u \in Tasks : task'[u].pc # "idle" => Born(task'[u].swap)
    BY <1>1, <1>2, <1>3 DEF KeysInv, Life
  <2>3. \A u \in Tasks : Creating(task'[u]) =>
          /\ task'[u].swap \notin handed'
          /\ \A v \in Tasks \ {u} : task'[v].pc # "idle" => task'[v].swap # task'[u].swap
    <3> SUFFICES ASSUME NEW u \in Tasks, Creating(task'[u])
                 PROVE  /\ task'[u].swap \notin handed'
                        /\ \A v \in Tasks \ {u} : task'[v].pc # "idle" => task'[v].swap # task'[u].swap
      OBVIOUS
    <3>1. u # t /\ task'[u] = task[u] /\ task[u].swap \notin handed
      BY <1>3, <1>4 DEF KeysInv, Life
    <3> QED BY <1>1, <1>2, <1>3, <3>1 DEF KeysInv, Life
  <2>4. \A u \in Tasks : Removing(task'[u]) => task'[u].swap \notin handed'
    BY <1>1, <1>2, <1>3 DEF KeysInv, Life
  <2> QED BY <1>2, <2>1, <2>2, <2>3, <2>4 DEF Life, Born, Creating, Removing
<1>6. Kept' \subseteq Kept
  BY <1>1, <1>2, KeptAfter
<1> QED BY <1>1, <1>2, <1>5, <1>6, WholeStays DEF KeysInv

\* A wait begins with a swap that the user was given.
LEMMA BeginWaitKeepsKeys ==
    ASSUME Inv, KeysInv, NEW t \in Tasks, NEW s \in Swaps, BeginWait(t, s)
    PROVE  KeysInv'
<1>1. PICK job : job = Connecting(s)
  OBVIOUS
<1>2. /\ task' = [task EXCEPT ![t] = job] /\ job.pc = "connect" /\ job.swap = s
      /\ task[t].pc = "idle" /\ s \in handed /\ UNCHANGED <<exchange, disk, handed, history>>
  BY <1>1 DEF BeginWait, Connecting, Idle
<1>3. \A u \in Tasks : task'[u] = IF u = t THEN job ELSE task[u]
  BY <1>2 DEF Inv, TypeInv, TypeOK
<1>4. ~Creating(job) /\ ~Removing(job)
  BY <1>2 DEF Creating, Removing
<1>5. Life'
  <2>2. \A u \in Tasks : task'[u].pc # "idle" => Born(task'[u].swap)
    BY <1>2, <1>3 DEF KeysInv, Life
  <2>3. \A u \in Tasks : Creating(task'[u]) =>
          /\ task'[u].swap \notin handed
          /\ \A v \in Tasks \ {u} : task'[v].pc # "idle" => task'[v].swap # task'[u].swap
    <3> SUFFICES ASSUME NEW u \in Tasks, Creating(task'[u])
                 PROVE  /\ task'[u].swap \notin handed
                        /\ \A v \in Tasks \ {u} : task'[v].pc # "idle" => task'[v].swap # task'[u].swap
      OBVIOUS
    <3>1. u # t /\ task'[u] = task[u] /\ task[u].swap \notin handed
      BY <1>3, <1>4 DEF KeysInv, Life
    <3> QED BY <1>2, <1>3, <3>1 DEF KeysInv, Life
  <2>4. \A u \in Tasks : Removing(task'[u]) => task'[u].swap \notin handed
    BY <1>3, <1>4 DEF KeysInv, Life
  <2> QED BY <1>2, <2>2, <2>3, <2>4 DEF KeysInv, Life, Born, Creating, Removing
<1>6. Kept' \subseteq Kept
  BY <1>2, KeptAfter
<1> QED BY <1>2, <1>5, <1>6, WholeStays DEF KeysInv

\* The address a creation hands out is one whose keys were kept before.
LEMMA HandOutKeepsKeys ==
    ASSUME Inv, KeysInv, NEW t \in Tasks, HandOut(t)
    PROVE  KeysInv'
<1> DEFINE s == task[t].swap
<1>1. /\ task' = [task EXCEPT ![t] = Idle] /\ Idle.pc = "idle" /\ task[t].pc = "return"
      /\ handed' = handed \cup {s} /\ UNCHANGED <<exchange, disk, history>>
  BY DEF HandOut, Return, Idle
<1>2. \A u \in Tasks : task'[u] = IF u = t THEN Idle ELSE task[u]
  BY <1>1 DEF Inv, TypeInv, TypeOK
<1>3. Creating(task[t]) /\ ~Creating(Idle) /\ ~Removing(Idle)
  BY <1>1 DEF Creating, Removing
<1>4. Born(s) /\ \A u \in Tasks \ {t} : task[u].pc # "idle" => task[u].swap # s
  BY <1>1, <1>3 DEF KeysInv, Life
<1>5. Life'
  <2>1. \A r \in handed' : Born(r)
    BY <1>1, <1>4 DEF KeysInv, Life
  <2>2. \A u \in Tasks : task'[u].pc # "idle" => u # t /\ task'[u] = task[u] /\ Born(task'[u].swap)
    BY <1>1, <1>2 DEF KeysInv, Life
  <2>3. \A u \in Tasks : Creating(task'[u]) \/ Removing(task'[u]) => task'[u].pc # "idle"
    BY DEF Creating, Removing
  <2>4. \A u \in Tasks : Creating(task'[u]) =>
          /\ task'[u].swap \notin handed'
          /\ \A v \in Tasks \ {u} : task'[v].pc # "idle" => task'[v].swap # task'[u].swap
    BY <1>1, <1>4, <2>2, <2>3 DEF KeysInv, Life
  <2>5. \A u \in Tasks : Removing(task'[u]) => task'[u].swap \notin handed'
    BY <1>1, <1>4, <2>2, <2>3 DEF KeysInv, Life
  <2> QED BY <1>1, <2>1, <2>2, <2>4, <2>5 DEF Life, Born, Creating, Removing
<1>6. Kept' \subseteq Kept
  <2> SUFFICES ASSUME NEW r \in Kept' PROVE r \in Kept
    OBVIOUS
  <2>1. CASE r \in handed'
    BY <1>1, <2>1 DEF Kept
  <2>2. CASE r \notin handed'
    <3>1. PICK u \in Tasks : task'[u].pc = "return" /\ r = task'[u].swap
      BY <2>2 DEF Kept
    <3> QED BY <1>1, <1>2, <3>1 DEF Kept
  <2> QED BY <2>1, <2>2
<1> QED BY <1>1, <1>5, <1>6, WholeStays DEF KeysInv

\* A call reads the file: whole, unless another one has emptied it.
LEMMA LoadKeepsKeys ==
    ASSUME Inv, KeysInv, NEW t \in Tasks, Load(t)
    PROVE  KeysInv'
<1>1. PICK job : job = [task[t] EXCEPT !.pc = "truncate", !.copy = disk]
  OBVIOUS
<1>2. task[t] \in Task /\ task \in [Tasks -> Task] /\ stale \in SUBSET Tasks
  BY DEF Inv, TypeInv, TypeOK
<1>3. /\ task' = [task EXCEPT ![t] = job] /\ task[t].pc = "load" /\ disk # Torn
      /\ stale' = (IF Others(t, {"write"}) = {} THEN stale ELSE stale \cup {t})
      /\ UNCHANGED <<exchange, disk, handed, damaged>>
  BY <1>1 DEF Load
<1>4. job.pc = "truncate" /\ job.swap = task[t].swap /\ job.change = task[t].change /\ job.copy = disk
  BY <1>1, <1>2 DEF Task
<1>5. Life'
  BY <1>3, <1>4, SameExchange, LifeGoesOn DEF KeysInv, Creating, Removing
<1>6. Kept' \subseteq Kept
  BY <1>3, <1>4, KeptAfter
<1>7. ASSUME Whole PROVE Whole'
  <2>1. \A u \in Tasks : task'[u] = IF u = t THEN job ELSE task[u]
    BY <1>2, <1>3
  <2>2. \A R : Holds(R) => Holds(R)'
    BY <1>6 DEF Holds
  <2>3. t \notin stale
    BY <1>3, <1>7 DEF Whole
  <2>4. /\ t \notin stale' <=> \A u \in Tasks : task[u].pc # "write"
        /\ \A u \in Tasks \ {t} : u \in stale' <=> u \in stale
    BY <1>3, <2>3 DEF Others
  <2>5. \A u \in Tasks : task'[u].pc = "write" <=> task[u].pc = "write"
    BY <1>3, <1>4, <2>1
  <2>6. (\A u \in Tasks : task'[u].pc # "write") => disk' # Torn /\ Holds(disk)'
    BY <1>3, <1>7, <2>2, <2>5 DEF Whole, Holds
  <2>7. ASSUME NEW u \in Tasks, u \notin stale'
        PROVE  /\ task'[u].pc = "truncate"
                    => task'[u].copy = disk' /\ \A v \in Tasks : task'[v].pc # "write"
               /\ task'[u].pc = "write"
                    => /\ disk' = NoRecords
                       /\ Holds(task[u].copy)'
                       /\ \A v \in Tasks \ {u} : task'[v].pc \in {"truncate", "write"} => v \in stale'
    <3>1. CASE u = t
      BY <1>3, <1>4, <2>1, <2>4, <2>5, <2>7, <3>1
    <3>2. CASE u # t
      <4>1. u \notin stale /\ task'[u] = task[u]
        BY <2>1, <2>4, <2>7, <3>2
      <4>2. task[u].pc = "truncate" => task[u].copy = disk /\ \A v \in Tasks : task[v].pc # "write"
        BY <1>7, <4>1 DEF Whole
      <4>3. ASSUME task[u].pc = "write"
            PROVE  /\ disk = NoRecords /\ Holds(task[u].copy)'
                   /\ \A v \in Tasks \ {u} : task'[v].pc \in {"truncate", "write"} => v \in stale'
        <5>1. /\ disk = NoRecords /\ Holds(task[u].copy)
              /\ \A v \in Tasks \ {u} : task[v].pc \in {"truncate", "write"} => v \in stale
          BY <1>7, <4>1, <4>3 DEF Whole
        <5>2. t \in stale'
          BY <2>4, <4>3
        <5>3. Holds(task[u].copy)'
          BY <2>2, <4>1, <5>1 DEF Holds
        <5> QED BY <2>1, <2>4, <5>1, <5>2, <5>3
      <4> QED BY <1>3, <2>5, <4>1, <4>2, <4>3
    <3> QED BY <3>1, <3>2
  <2>8. \A u \in stale' : u \in Tasks /\ task'[u].pc \in {"truncate", "write"}
    BY <1>2, <1>3, <1>4, <1>7, <2>1 DEF Whole
  <2> QED BY <2>6, <2>7, <2>8 DEF Whole
<1> QED BY <1>3, <1>5, <1>7 DEF KeysInv

\* A call empties the file; every other call that has read it is overtaken.
LEMMA TruncateKeepsKeys ==
    ASSUME Inv, KeysInv, NEW t \in Tasks, Truncate(t)
    PROVE  KeysInv'
<1>1. PICK job : job = [task[t] EXCEPT !.pc = "write"]
  OBVIOUS
<1>2. task[t] \in Task /\ task \in [Tasks -> Task] /\ stale \in SUBSET Tasks
  BY DEF Inv, TypeInv, TypeOK
<1>3. /\ task' = [task EXCEPT ![t] = job] /\ task[t].pc = "truncate" /\ disk' = NoRecords
      /\ stale' = stale \cup Others(t, {"truncate", "write"})
      /\ UNCHANGED <<exchange, handed, damaged>>
  BY <1>1 DEF Truncate
<1>4. /\ job.pc = "write" /\ job.swap = task[t].swap /\ job.change = task[t].change
      /\ job.copy = task[t].copy
  BY <1>1, <1>2 DEF Task
<1>5. Life'
  BY <1>3, <1>4, SameExchange, LifeGoesOn DEF KeysInv, Creating, Removing
<1>6. Kept' \subseteq Kept
  BY <1>3, <1>4, KeptAfter
<1>7. ASSUME Whole PROVE Whole'
  <2>1. \A u \in Tasks : task'[u] = IF u = t THEN job ELSE task[u]
    BY <1>2, <1>3
  <2>2. \A u \in Tasks \ {t} : task[u].pc \in {"truncate", "write"} => u \in stale'
    BY <1>3 DEF Others
  <2>3. t \in stale' <=> t \in stale
    BY <1>3 DEF Others
  <2>4. ASSUME t \notin stale PROVE Holds(task[t].copy)'
    <3>1. task[t].copy = disk /\ Holds(disk)
      BY <1>3, <1>7, <2>4 DEF Whole
    <3>2. task'[t].copy = disk
      BY <1>4, <2>1, <3>1
    <3> QED BY <1>6, <3>1, <3>2 DEF Holds
  <2>5. task'[t].pc = "write"
    BY <1>4, <2>1
  <2>6. ASSUME NEW u \in Tasks, u \notin stale'
        PROVE  /\ task'[u].pc # "truncate"
               /\ task'[u].pc = "write"
                    => /\ disk' = NoRecords
                       /\ Holds(task[u].copy)'
                       /\ \A v \in Tasks \ {u} : task'[v].pc \in {"truncate", "write"} => v \in stale'
    <3>1. CASE u = t
      BY <1>3, <2>1, <2>2, <2>3, <2>4, <2>5, <2>6, <3>1
    <3>2. CASE u # t
      BY <2>1, <2>2, <2>6, <3>2
    <3> QED BY <3>1, <3>2
  <2>7. \A u \in stale' : u \in Tasks /\ task'[u].pc \in {"truncate", "write"}
    BY <1>2, <1>3, <1>4, <1>7, <2>1 DEF Whole, Others
  <2> QED BY <2>5, <2>6, <2>7 DEF Whole
<1> QED BY <1>3, <1>5, <1>7 DEF KeysInv

\* A call that is not overtaken writes back everything that must be kept, with the
\* record of a creation added.
LEMMA WriteKeepsKeys ==
    ASSUME Inv, KeysInv, NEW t \in Tasks, Write(t)
    PROVE  KeysInv'
<1> DEFINE s == task[t].swap
           c == task[t].change
           R == task[t].copy
           new == [R EXCEPT ![s] = Changed(R[s], c)]
<1>1. PICK job : job = Afterwards(s, c)
  OBVIOUS
<1>2. /\ task[t] \in Task /\ task \in [Tasks -> Task] /\ stale \in SUBSET Tasks
      /\ task[t].pc = "write" /\ s \in Swaps /\ R \in Records /\ c \in Change
      /\ handed \in SUBSET Swaps
      /\ c.op = "update" => R[s] # None
  BY DEF Inv, TypeInv, TypeOK, CallInv, Task, Write
<1>3. /\ task' = [task EXCEPT ![t] = job] /\ disk' \in Overwritten(new)
      /\ stale' = stale \ {t} /\ UNCHANGED <<exchange, handed>>
  BY <1>1 DEF Write
<1>4. damaged' <=> damaged \/ t \in stale
  BY DEF Write
<1>5. /\ job.pc \in {"return", "connect", "idle"}
      /\ job.pc # "idle" => job.swap = s
      /\ job.pc = "return" <=> c.op = "upsert"
  <2>1. CASE c.op = "upsert"
    BY <1>1, <2>1 DEF Afterwards, Idle
  <2>2. CASE c.op # "upsert"
    <3>1. job \in {Connecting(s), Idle}
      BY <1>1, <2>2 DEF Afterwards
    <3>2. Connecting(s).pc = "connect" /\ Connecting(s).swap = s /\ Idle.pc = "idle"
      BY DEF Connecting, Idle
    <3> QED BY <2>2, <3>1, <3>2
  <2> QED BY <2>1, <2>2
<1>6. Life'
  <2>1. Creating(job) => Creating(task[t])
    BY <1>2, <1>5 DEF Creating
  <2>2. ~Removing(job)
    BY <1>5 DEF Removing
  <2> QED BY <1>2, <1>3, <1>5, <2>1, <2>2, SameExchange, LifeGoesOn DEF KeysInv
<1>7. ASSUME Whole, t \notin stale PROVE Whole'
  <2>1. \A u \in Tasks : task'[u] = IF u = t THEN job ELSE task[u]
    BY <1>2, <1>3
  <2>2. /\ disk = NoRecords /\ Holds(R)
        /\ \A u \in Tasks \ {t} : task[u].pc \in {"truncate", "write"} => u \in stale
    BY <1>2, <1>7 DEF Whole
  <2>3. disk' = new
    BY <1>3, <2>2 DEF Overwritten
  <2>4. Changed(R[s], c) \in SwapRecord \cup {None}
    BY <1>2, ChangedTyped
  <2>5. new \in Records /\ \A r \in Swaps : new[r] = IF r = s THEN Changed(R[s], c) ELSE R[r]
    BY <1>2, <2>4 DEF Records
  <2>6. c.op # "remove" => Changed(R[s], c) # None
    <3> SUFFICES ASSUME c.op # "remove" PROVE Changed(R[s], c) # None
      OBVIOUS
    <3>1. Changed(R[s], c) = [status |-> c.status,
                              settled |-> c.settled \/ (c.op = "update" /\ R[s].settled)]
      BY DEF Changed
    <3>2. c.status \in SwapStatus /\ (c.settled \/ (c.op = "update" /\ R[s].settled)) \in BOOLEAN
      BY <1>2 DEF Change
    <3>3. Changed(R[s], c) \in SwapRecord
      BY <3>1, <3>2 DEF SwapRecord
    <3> QED BY <3>3, RecordAssumption
  <2>7. c.op = "remove" => s \notin Kept
    <3> SUFFICES ASSUME c.op = "remove", s \in Kept PROVE FALSE
      OBVIOUS
    <3>1. s \notin handed
      BY <1>2 DEF KeysInv, Life, Removing
    <3>2. PICK u \in Tasks : task[u].pc = "return" /\ task[u].swap = s
      BY <3>1 DEF Kept
    <3>3. u # t /\ Creating(task[u])
      BY <1>2, <3>2 DEF Creating
    <3> QED BY <1>2, <3>2, <3>3 DEF KeysInv, Life
  <2>8. \A r \in Kept : r \in Swaps
    BY <1>2 DEF Kept, Inv, TypeInv, CallInv
  <2>9. Kept' \subseteq Kept \cup {job.swap} /\ (job.pc # "return" => Kept' \subseteq Kept)
    BY <1>3, KeptAfter
  <2> HIDE DEF new
  <2>10. ASSUME NEW r \in Kept' PROVE new[r] # None
    <3>1. CASE r = s
      <4>1. c.op # "remove"
        BY <1>5, <2>7, <2>9, <3>1
      <4> QED BY <1>2, <2>5, <2>6, <3>1, <4>1
    <3>2. CASE r # s
      <4>1. r \in Kept /\ r \in Swaps
        BY <1>5, <2>8, <2>9, <2>10, <3>2
      <4> QED BY <2>2, <2>5, <3>2, <4>1 DEF Holds
    <3> QED BY <3>1, <3>2
  <2>11. disk' # Torn /\ Holds(disk)'
    BY <2>3, <2>5, <2>10, TornAssumption DEF Holds
  <2>12. \A u \in Tasks : task'[u].pc \in {"truncate", "write"} => u \in stale'
    BY <1>3, <1>5, <2>1, <2>2
  <2>13. \A u \in stale' : u \in Tasks /\ task'[u].pc \in {"truncate", "write"}
    BY <1>2, <1>3, <1>7, <2>1 DEF Whole
  <2> QED BY <2>11, <2>12, <2>13 DEF Whole
<1> QED BY <1>4, <1>6, <1>7 DEF KeysInv

\* A write that fails, and a crash, leave no call with a claim on the file.
LEMMA FailureKeepsKeys ==
    ASSUME Inv, KeysInv, Crash \/ \E t \in Tasks : WriteFails(t)
    PROVE  KeysInv'
<1>0. Idle.pc = "idle" /\ ~Creating(Idle) /\ ~Removing(Idle)
  BY DEF Idle, Creating, Removing
<1>1. ASSUME NEW t \in Tasks, WriteFails(t) PROVE KeysInv'
  <2>1. task' = [task EXCEPT ![t] = Idle] /\ exchange' = exchange /\ handed' = handed /\ damaged'
    BY <1>1 DEF WriteFails, Return
  <2> QED BY <1>0, <2>1, SameExchange, LifeGoesOn DEF KeysInv
<1>2. CASE Crash
  <2>1. /\ task' = [u \in Tasks |-> Idle] /\ stale' = {} /\ UNCHANGED <<exchange, disk, handed>>
        /\ damaged' <=> damaged \/ \E t \in Tasks : task[t].pc = "write"
    BY <1>2 DEF Crash
  <2>2. \A u \in Tasks : task'[u].pc = "idle" /\ ~Creating(task'[u]) /\ ~Removing(task'[u])
    BY <1>0, <2>1
  <2>3. Life'
    BY <2>1, <2>2 DEF KeysInv, Life, Born, Creating, Removing
  <2>4. Kept' \subseteq Kept
    BY <2>1, <2>2 DEF Kept
  <2>5. ASSUME Whole, \A t \in Tasks : task[t].pc # "write" PROVE Whole'
    <3>1. disk' # Torn /\ Holds(disk)'
      BY <2>1, <2>4, <2>5 DEF Whole, Holds
    <3> QED BY <2>1, <2>2, <3>1 DEF Whole
  <2> QED BY <2>1, <2>3, <2>5 DEF KeysInv
<1> QED BY <1>1, <1>2

\* The exchange says more, or nothing happens.
LEMMA NoCallKeepsKeys ==
    ASSUME Inv, KeysInv, ExchangeGrows, UNCHANGED <<disk, handed, task, history>>
    PROVE  KeysInv'
<1>1. Kept' = Kept
  BY DEF Kept
<1>2. Whole => Whole'
  BY <1>1 DEF Whole, Holds, history
<1>3. handed \in SUBSET Swaps /\ \A t \in Tasks : task[t].pc # "idle" => task[t].swap \in Swaps
  BY DEF Inv, TypeInv, TypeOK, CallInv
<1>4. \A s \in Swaps : Born(s) => Born(s)'
  BY DEF Born, ExchangeGrows
<1>5. (\A s \in handed : Born(s))'
  BY <1>3, <1>4 DEF KeysInv, Life
<1>6. (\A t \in Tasks : task[t].pc # "idle" => Born(task[t].swap))'
  BY <1>3, <1>4 DEF KeysInv, Life, Born
<1>7. Life'
  BY <1>5, <1>6 DEF KeysInv, Life, Creating, Removing
<1> QED BY <1>2, <1>7 DEF KeysInv, history

LEMMA KeysInitially == Init => KeysInv
<1> SUFFICES ASSUME Init PROVE KeysInv
  OBVIOUS
<1>1. \A t \in Tasks : task[t].pc = "idle"
  BY DEF Init, Idle
<1>2. Kept = {}
  BY <1>1 DEF Kept, Init
<1>3. disk # Torn
  BY IdleTyped, TornAssumption DEF Init
<1>4. Life
  BY <1>1 DEF Life, Init, Creating, Removing
<1>5. Whole
  BY <1>1, <1>2, <1>3 DEF Whole, Holds, Init
<1> QED BY <1>4, <1>5 DEF KeysInv

\* Every step keeps the keys.
LEMMA NextKeepsKeys ==
    ASSUME Inv, KeysInv, [Next]_vars
    PROVE  KeysInv'
<1>1. ASSUME NEW t \in Tasks, NEW s \in Swaps,
             Create(t, s) \/ RemoveSwap(t, s) \/ BeginWait(t, s)
      PROVE  KeysInv'
  BY <1>1, CreateKeepsKeys, RemoveKeepsKeys, BeginWaitKeepsKeys
<1>2. ASSUME NEW t \in Tasks,
             \/ ConnectFails(t) \/ LoadFails(t) \/ WaitEnds(t) \/ ReverseClaimFails(t)
             \/ ChainClaimFails(t) \/ WaitRejects(t)
      PROVE  KeysInv'
  <2>1. Return(t) /\ UNCHANGED <<exchange, disk, handed, history>>
    BY <1>2 DEF ConnectFails, LoadFails, WaitEnds, ReverseClaimFails, ChainClaimFails, WaitRejects
  <2>2. task[t].pc \in {"connect", "load", "await"}
    BY <1>2 DEF ConnectFails, LoadFails, WaitEnds, ReverseClaimFails, ChainClaimFails, WaitRejects,
                Receives
  <2> QED BY <2>1, <2>2, EndKeepsKeys
<1>3. ASSUME NEW t \in Tasks,
             SubmarinePaid(t) \/ SubmarineRefund(t) \/ ReverseClaim(t) \/ LockupFailed(t)
      PROVE  KeysInv'
  <2>1. /\ task[t].pc = "await" /\ UNCHANGED <<exchange, disk, handed, history>>
        /\ \E status : \E settled, no \in BOOLEAN :
              Store(t, task[t].swap, "update", status, settled, no)
    BY <1>3 DEF SubmarinePaid, SubmarineRefund, ReverseClaim, LockupFailed, Receives
  <2> QED BY <2>1, SameExchange, UpdateKeepsKeys
<1>4. ASSUME NEW t \in Tasks, Renegotiate(t) PROVE KeysInv'
  <2>1. /\ task[t].pc = "await" /\ UNCHANGED <<disk, handed, history>>
        /\ exchange' = [exchange EXCEPT ![task[t].swap] = Append(@, "Created")]
    BY <1>4 DEF Renegotiate, Receives
  <2>2. PICK no, yes \in BOOLEAN : Store(t, task[t].swap, "update", "Created", no, yes)
    BY <1>4 DEF Renegotiate
  <2>3. task[t].swap \in Swaps /\ "Created" \in SwapStatus
    BY <2>1 DEF Inv, TypeInv, CallInv, SwapStatus
  <2>4. ExchangeGrows
    BY <2>1, <2>3, EmittedGrows
  <2> QED BY <2>1, <2>2, <2>4, UpdateKeepsKeys
<1>5. ASSUME NEW t \in Tasks, Connect(t) PROVE KeysInv'
  <2>1. PICK job : job = [task[t] EXCEPT !.pc = "await", !.from = Len(exchange[task[t].swap])]
    OBVIOUS
  <2>2. /\ task' = [task EXCEPT ![t] = job] /\ task[t].pc = "connect"
        /\ UNCHANGED <<exchange, disk, handed, history>>
    BY <1>5, <2>1 DEF Connect
  <2>3. job.pc = "await" /\ job.swap = task[t].swap
    BY <2>1 DEF Inv, TypeInv, TypeOK, Task
  <2>4. ~Creating(job) /\ ~Removing(job)
    BY <2>3 DEF Creating, Removing
  <2> QED BY <2>2, <2>3, <2>4, SameExchange, KeysGoOn
<1>6. ASSUME NEW s \in Swaps, Emit(s) PROVE KeysInv'
  <2>1. PICK status \in SwapStatus : exchange' = [exchange EXCEPT ![s] = Append(@, status)]
    BY <1>6 DEF Emit
  <2> QED BY <1>6, <2>1, EmittedGrows, NoCallKeepsKeys DEF Emit
<1>7. CASE UNCHANGED vars
  BY <1>7, SameExchange, NoCallKeepsKeys DEF vars
<1> QED BY <1>1, <1>2, <1>3, <1>4, <1>5, <1>6, <1>7, LoadKeepsKeys, TruncateKeepsKeys,
           WriteKeepsKeys, HandOutKeepsKeys, FailureKeepsKeys
        DEF Next, Continue, CreateSubmarine, CreateReverse, CreateChainSwap

\* The keys of every swap a user was given are in the file whenever no call is
\* rewriting it, for any number of swaps and calls and wherever the process dies, until
\* a rewrite is cut off or overtakes another (create_submarine, create_reverse,
\* create_chain_swap, SwapStore).
THEOREM KeysKeptHolds == Spec => []KeysKept
<1>1. Inv /\ KeysInv => KeysKept
  <2> SUFFICES ASSUME Inv, KeysInv, ~damaged, NEW s \in handed,
                      \A t \in Tasks : task[t].pc # "write"
               PROVE  Has(s)
    BY DEF KeysKept, KeysStay
  <2>1. s \in Kept
    BY DEF Kept
  <2> QED BY <2>1 DEF KeysInv, Whole, Holds, Has
<1>2. Inv /\ KeysInv /\ [Next]_vars => KeysInv'
  BY NextKeepsKeys
<1> QED BY <1>1, <1>2, KeysInitially, Invariance, PTL DEF Spec

================================================================================
