--------------------------------- MODULE Swaps ---------------------------------
(***************************************************************************)
(* The life cycles of submarine, reverse and chain swaps over one store    *)
(* file (satspath-swaps: submarine.rs, reverse.rs, chain_swap.rs,          *)
(* swap_manager.rs, swap_store.rs, boltz_client.rs).                       *)
(*                                                                         *)
(* A call of the SwapManager talks to the exchange and changes the store   *)
(* by reading the whole file, changing its copy and writing it back; the   *)
(* write first empties the file.  Several calls may run at once, the       *)
(* process may die and a write may fail anywhere.  The exchange is         *)
(* external: for every swap it emits a sequence of statuses, of which a    *)
(* subscriber gets the current one and all later ones, in order.           *)
(*                                                                         *)
(* Abstractions.  A record is its status and whether it has a settlement   *)
(* transaction; its keys and preimage are in it whenever it exists.        *)
(* Building a transaction succeeds or fails.  Amounts are left out.        *)
(***************************************************************************)
EXTENDS Naturals, Sequences, SequencesExt, FiniteSets

CONSTANTS
    Submarines, Reverses, Chains,  \* the ids the exchange gives to swaps of each kind
    Tasks,                         \* calls that may run at once
    MaxSwaps,                      \* bound on the swaps created
    MaxStatuses,                   \* bound on what the exchange emits for one swap
    None,                          \* an absent value
    Torn                           \* a file load_all cannot read

Swaps == Submarines \cup Reverses \cup Chains

ASSUME KindsAssumption ==
    /\ Submarines \cap Reverses = {}
    /\ Submarines \cap Chains = {}
    /\ Reverses \cap Chains = {}

SwapStatus ==
    {"Created", "TransactionConfirmed", "InvoicePaid", "InvoiceSettled",
     "TransactionClaimed", "InvoiceFailedToPay", "TransactionLockupFailed", "TransactionRefunded"}

Terminal ==
    {"InvoicePaid", "InvoiceSettled", "TransactionClaimed", "InvoiceFailedToPay",
     "TransactionRefunded"}

SwapRecord == [status : SwapStatus, settled : BOOLEAN]

ASSUME RecordAssumption == None \notin SwapRecord

\* What load_all finds in a file it can read.
Records == [Swaps -> SwapRecord \cup {None}]
NoRecords == [s \in Swaps |-> None]

ASSUME TornAssumption == Torn \notin Records

\* A pending change of the store: upsert a record, update a status, remove.
Change == [op : {"upsert", "update", "remove"}, status : SwapStatus, settled : BOOLEAN,
           again : BOOLEAN]  \* whether the call waits again after the change

PC == {"idle", "connect", "await", "load", "truncate", "write", "return"}

Task == [pc : PC, swap : Swaps \cup {None},
         from : Nat,        \* the first status this subscriber gets
         change : Change,
         copy : Records]

NoChange == [op |-> "update", status |-> "Created", settled |-> FALSE, again |-> FALSE]
Idle == [pc |-> "idle", swap |-> None, from |-> 0, change |-> NoChange, copy |-> NoRecords]

VARIABLES
    exchange,  \* the statuses emitted for each swap; empty before its creation
    disk,      \* the store file
    handed,    \* the swaps whose creation returned to the user and that are not removed
    task,
    \* History: the calls whose copy of the file is overtaken by another call's rewrite,
    \* and whether one of them has been written, or a rewrite was cut off.
    stale,
    damaged

history == <<stale, damaged>>
vars == <<exchange, disk, handed, task, history>>

TypeOK ==
    /\ exchange \in [Swaps -> Seq(SwapStatus)]
    /\ disk \in Records \cup {Torn}
    /\ handed \in SUBSET Swaps
    /\ task \in [Tasks -> Task]
    /\ stale \in SUBSET Tasks
    /\ damaged \in BOOLEAN

Init ==
    /\ exchange = [s \in Swaps |-> <<>>]
    /\ disk = NoRecords
    /\ handed = {}
    /\ task = [t \in Tasks |-> Idle]
    /\ stale = {}
    /\ damaged = FALSE

--------------------------------------------------------------------------------
(* The store: load_all, change, save_all *)

Has(s) == disk # Torn /\ disk[s] # None

\* wait_for_status is called.
Connecting(s) == [Idle EXCEPT !.pc = "connect", !.swap = s]

Return(t) == task' = [task EXCEPT ![t] = Idle]

\* The call goes on to change the record of its swap.
Store(t, s, op, status, settled, again) ==
    task' = [task EXCEPT ![t] = [Idle EXCEPT
                !.pc = "load", !.swap = s,
                !.change = [op |-> op, status |-> status, settled |-> settled, again |-> again]]]

\* The calls other than t that are at one of these points.
Others(t, pcs) == {u \in Tasks \ {t} : task[u].pc \in pcs}

Load(t) ==
    /\ task[t].pc = "load"
    /\ disk # Torn
    /\ task[t].change.op = "update" => disk[task[t].swap] # None
    /\ task' = [task EXCEPT ![t].pc = "truncate", ![t].copy = disk]
    /\ stale' = IF Others(t, {"write"}) = {} THEN stale ELSE stale \cup {t}
    /\ UNCHANGED <<exchange, disk, handed, damaged>>

\* The file cannot be read, or has no record to update.
LoadFails(t) ==
    /\ task[t].pc = "load"
    /\ \/ disk = Torn
       \/ task[t].change.op = "update" /\ ~Has(task[t].swap)
    /\ Return(t)
    /\ UNCHANGED <<exchange, disk, handed, history>>

Truncate(t) ==
    /\ task[t].pc = "truncate"
    /\ disk' = NoRecords
    /\ task' = [task EXCEPT ![t].pc = "write"]
    /\ stale' = stale \cup Others(t, {"truncate", "write"})
    /\ UNCHANGED <<exchange, handed, damaged>>

\* The record after the change; a settlement transaction is never unset.
Changed(record, change) ==
    IF change.op = "remove" THEN None
    ELSE [status |-> change.status,
          settled |-> change.settled \/ (change.op = "update" /\ record.settled)]

\* What the file holds after content was written at its start: if another call
\* has written since this one emptied the file, that call's longer content may
\* leave a tail, with which nothing decrypts.
Overwritten(content) == {content} \cup (IF disk = NoRecords THEN {} ELSE {Torn})

\* What a call does once the store is changed: a creation returns to the user, a
\* renegotiated chain swap waits again.
Afterwards(s, c) ==
    CASE c.op = "upsert" -> [Idle EXCEPT !.pc = "return", !.swap = s]
      [] c.op = "update" /\ c.again -> Connecting(s)
      [] OTHER -> Idle

\* The changed copy becomes the file.
Write(t) ==
    LET s == task[t].swap
        c == task[t].change
    IN /\ task[t].pc = "write"
       /\ disk' \in Overwritten([task[t].copy EXCEPT ![s] = Changed(@, c)])
       /\ task' = [task EXCEPT ![t] = Afterwards(s, c)]
       /\ stale' = stale \ {t}
       /\ damaged' = (damaged \/ t \in stale)
       /\ UNCHANGED <<exchange, handed>>

\* The device is full: the file stays empty or holds a part of the bytes.
WriteFails(t) ==
    /\ task[t].pc = "write"
    /\ disk' \in {NoRecords, Torn}
    /\ Return(t)
    /\ stale' = stale \ {t}
    /\ damaged' = TRUE
    /\ UNCHANGED <<exchange, handed>>

\* The creation returns: the user learns the lockup address or the invoice.
HandOut(t) ==
    /\ task[t].pc = "return"
    /\ handed' = handed \cup {task[t].swap}
    /\ Return(t)
    /\ UNCHANGED <<exchange, disk, history>>

--------------------------------------------------------------------------------
(* Creation, removal, waiting *)

\* Mutant: the user learns the address before the keys are stored.
Create_ReturnsFirst(t, s) ==
    /\ task[t].pc = "idle"
    /\ exchange[s] = <<>>
    /\ Cardinality({r \in Swaps : exchange[r] # <<>>}) < MaxSwaps
    /\ exchange' = [exchange EXCEPT ![s] = <<"Created">>]
    /\ handed' = handed \cup {s}
    /\ Store(t, s, "upsert", "Created", FALSE, FALSE)
    /\ UNCHANGED <<disk, history>>

\* The exchange first, then upsert; a request outside the limits changes nothing.
Create(t, s) ==
    /\ task[t].pc = "idle"
    /\ exchange[s] = <<>>
    /\ Cardinality({r \in Swaps : exchange[r] # <<>>}) < MaxSwaps
    /\ exchange' = [exchange EXCEPT ![s] = <<"Created">>]
    /\ Store(t, s, "upsert", "Created", FALSE, FALSE)
    /\ UNCHANGED <<disk, handed, history>>

CreateSubmarine(t, s) == s \in Submarines /\ Create(t, s)

CreateReverse(t, s) == s \in Reverses /\ Create(t, s)

CreateChainSwap(t, s) == s \in Chains /\ Create(t, s)

RemoveSwap(t, s) ==
    /\ task[t].pc = "idle"
    /\ s \in handed
    /\ handed' = handed \ {s}
    /\ Store(t, s, "remove", "Created", FALSE, FALSE)
    /\ UNCHANGED <<exchange, disk, history>>

\* wait_and_claim reads the record for its kind.
BeginWait(t, s) ==
    /\ task[t].pc = "idle"
    /\ s \in handed
    /\ Has(s)
    /\ task' = [task EXCEPT ![t] = Connecting(s)]
    /\ UNCHANGED <<exchange, disk, handed, history>>

\* The socket is open and the subscription sent: no limit applies to these two.
Connect(t) ==
    /\ task[t].pc = "connect"
    /\ task' = [task EXCEPT ![t].pc = "await", ![t].from = Len(exchange[task[t].swap])]
    /\ UNCHANGED <<exchange, disk, handed, history>>

ConnectFails(t) ==
    /\ task[t].pc = "connect"
    /\ Return(t)
    /\ UNCHANGED <<exchange, disk, handed, history>>

Targets(s) ==
    CASE s \in Submarines -> {"InvoicePaid", "InvoiceFailedToPay"}
      [] s \in Reverses -> {"TransactionConfirmed", "TransactionLockupFailed"}
      [] s \in Chains -> {"TransactionConfirmed", "TransactionLockupFailed", "TransactionClaimed"}

\* wait_for_status returns status: the first one this subscriber gets that is
\* a target or terminal.
Receives(t, status) ==
    LET s == task[t].swap
        Wanted == Targets(s) \cup Terminal
    IN /\ task[t].pc = "await"
       /\ status \in Wanted
       /\ \E i \in DOMAIN exchange[s] :
            /\ i >= task[t].from
            /\ exchange[s][i] = status
            /\ \A j \in task[t].from..(i - 1) : exchange[s][j] \notin Wanted

\* Mutant: a call waits for its update without a limit.
WaitEnds_Never(t) == FALSE /\ UNCHANGED vars

\* The time is up, or the socket is closed.
WaitEnds(t) ==
    /\ task[t].pc = "await"
    /\ Return(t)
    /\ UNCHANGED <<exchange, disk, handed, history>>

\* Mutant: every terminal status counts as paid.
SubmarinePaid_AnyTerminal(t) ==
    /\ task[t].swap \in Submarines
    /\ \E status \in Terminal : Receives(t, status)
    /\ Store(t, task[t].swap, "update", "InvoicePaid", FALSE, FALSE)
    /\ UNCHANGED <<exchange, disk, handed, history>>

SubmarinePaid(t) ==
    /\ task[t].swap \in Submarines
    /\ Receives(t, "InvoicePaid")
    /\ Store(t, task[t].swap, "update", "InvoicePaid", FALSE, FALSE)
    /\ UNCHANGED <<exchange, disk, handed, history>>

\* The refund is attempted; its failure is not told apart in the new status.
SubmarineRefund(t) ==
    /\ task[t].swap \in Submarines
    /\ Receives(t, "InvoiceFailedToPay")
    /\ \E built \in BOOLEAN :
         /\ built => Has(task[t].swap)
         /\ Store(t, task[t].swap, "update", "TransactionRefunded", built, FALSE)
    /\ UNCHANGED <<exchange, disk, handed, history>>

ReverseClaim(t) ==
    /\ task[t].swap \in Reverses
    /\ Receives(t, "TransactionConfirmed")
    /\ Has(task[t].swap)
    /\ Store(t, task[t].swap, "update", "TransactionClaimed", TRUE, FALSE)
    /\ UNCHANGED <<exchange, disk, handed, history>>

\* The record is not there, or build_and_broadcast_claim fails.
ReverseClaimFails(t) ==
    /\ task[t].swap \in Reverses
    /\ Receives(t, "TransactionConfirmed")
    /\ Return(t)
    /\ UNCHANGED <<exchange, disk, handed, history>>

\* build_cooperative_claim always fails.
ChainClaimFails(t) ==
    /\ task[t].swap \in Chains
    /\ Receives(t, "TransactionConfirmed") \/ Receives(t, "TransactionClaimed")
    /\ Return(t)
    /\ UNCHANGED <<exchange, disk, handed, history>>

\* A reverse swap, or a chain swap for which there is no new quote.
LockupFailed(t) ==
    /\ task[t].swap \in Reverses \cup Chains
    /\ Receives(t, "TransactionLockupFailed")
    /\ Store(t, task[t].swap, "update", "TransactionLockupFailed", FALSE, FALSE)
    /\ UNCHANGED <<exchange, disk, handed, history>>

\* The quote is fetched and accepted; then the record starts anew.
Renegotiate(t) ==
    LET s == task[t].swap IN
    /\ s \in Chains
    /\ Receives(t, "TransactionLockupFailed")
    /\ Last(exchange[s]) = "TransactionLockupFailed"
    /\ exchange' = [exchange EXCEPT ![s] = Append(@, "Created")]
    /\ Store(t, s, "update", "Created", FALSE, TRUE)
    /\ UNCHANGED <<disk, handed, history>>

\* Mutant: whatever was received is recorded.
WaitRejects_Records(t) ==
    /\ task[t].pc = "await"
    /\ \E status \in Terminal \ Targets(task[t].swap) : Receives(t, status)
    /\ Store(t, task[t].swap, "update", "Unknown", FALSE, FALSE)
    /\ UNCHANGED <<exchange, disk, handed, history>>

\* The exchange refuses the quote, or the update is not one the call handles.
WaitRejects(t) ==
    /\ task[t].pc = "await"
    /\ \/ task[t].swap \in Chains /\ Receives(t, "TransactionLockupFailed")
       \/ \E status \in Terminal \ Targets(task[t].swap) : Receives(t, status)
    /\ Return(t)
    /\ UNCHANGED <<exchange, disk, handed, history>>

--------------------------------------------------------------------------------
(* The environment *)

\* The statuses the exchange may emit one after the other.  Statuses that no
\* call waits for (the lockup transaction in the mempool) are left out.
Follows(s) ==
    {<<"Created", "TransactionConfirmed">>, <<"Created", "TransactionLockupFailed">>}
    \cup ({"TransactionConfirmed"} \X
             CASE s \in Submarines -> {"InvoicePaid", "InvoiceFailedToPay"}
               [] s \in Reverses -> {"InvoiceSettled"}
               [] s \in Chains -> {"TransactionClaimed"})

\* Nobody pays before the creation has returned to the user.
Emit(s) ==
    /\ s \in handed
    /\ Len(exchange[s]) \in 1..(MaxStatuses - 1)
    /\ \E status \in SwapStatus :
         /\ <<Last(exchange[s]), status>> \in Follows(s)
         /\ exchange' = [exchange EXCEPT ![s] = Append(@, status)]
    /\ UNCHANGED <<disk, handed, task, history>>

Crash ==
    /\ \E t \in Tasks : task[t].pc # "idle"
    /\ task' = [t \in Tasks |-> Idle]
    /\ stale' = {}
    /\ damaged' = (damaged \/ \E t \in Tasks : task[t].pc = "write")
    /\ UNCHANGED <<exchange, disk, handed>>

\* The steps of a call that do not depend on the exchange's answer.
Continue(t) ==
    \/ Load(t)
    \/ LoadFails(t)
    \/ Truncate(t)
    \/ Write(t)
    \/ WriteFails(t)
    \/ HandOut(t)
    \/ WaitEnds(t)
    \/ SubmarinePaid(t)
    \/ SubmarineRefund(t)
    \/ ReverseClaim(t)
    \/ ReverseClaimFails(t)
    \/ ChainClaimFails(t)
    \/ LockupFailed(t)
    \/ Renegotiate(t)
    \/ WaitRejects(t)

Next ==
    \/ \E t \in Tasks :
         \/ \E s \in Swaps : CreateSubmarine(t, s) \/ CreateReverse(t, s) \/ CreateChainSwap(t, s)
         \/ \E s \in Swaps : RemoveSwap(t, s) \/ BeginWait(t, s)
         \/ Connect(t)
         \/ ConnectFails(t)
         \/ Continue(t)
    \/ \E s \in Swaps : Emit(s)
    \/ Crash

\* The runtime polls every call and file operations end; the wait on an open socket
\* is under tokio's timeout, its opening is not.
Fairness == \A t \in Tasks : WF_vars(Continue(t))

Spec == Init /\ [][Next]_vars /\ Fairness

--------------------------------------------------------------------------------
(* Properties *)

\* What the record r may say of a swap for which the exchange has said these statuses.
Grounds(r, said) ==
    CASE r.status = "TransactionClaimed" -> "TransactionConfirmed" \in said /\ r.settled
      [] r.status = "TransactionRefunded" -> "InvoiceFailedToPay" \in said
      [] OTHER -> r.status \in said

\* The store is never ahead of the exchange, whatever calls race, fail or are
\* retried: a swap is recorded as paid or failed only after the exchange has said so,
\* as claimed only with its claim transaction, as refunded only after the exchange has
\* failed to pay (wait_submarine, wait_and_claim_reverse, wait_and_claim_chain).  That
\* there is a refund is not claimed: submarine.rs:149 records one that was not built.
RecordNeverAhead ==
    \A s \in Swaps : Has(s) => Grounds(disk[s], Range(exchange[s]))

\* The keys of a swap the user may pay into stay in the store while calls run:
\* the store is persistent and the preimage is the only way to the funds.
KeysStay ==
    \A s \in handed : (\A t \in Tasks : task[t].pc # "write") => Has(s)

\* They are lost in no other way than by a rewrite of the file that is cut off, or that
\* another call's has overtaken: the keys are stored before the address is handed out,
\* and creations, removals and updates of other swaps, failed calls and crashes between
\* the exchange, the store and the return lose none of them (create_submarine,
\* create_reverse, create_chain_swap, update_status, remove).
KeysKept == damaged \/ KeysStay

\* A call on a submarine or reverse swap that has its socket, or that changes the
\* store, ends, whatever the exchange does (wait_for_status: max_wait).  A chain
\* swap may renegotiate for ever.
CallsReturn ==
    \A t \in Tasks :
        task[t].pc \notin {"idle", "connect"} /\ task[t].swap \notin Chains
            ~> task[t].pc = "idle"

================================================================================
