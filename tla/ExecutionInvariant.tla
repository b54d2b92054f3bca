-------------------------- MODULE ExecutionInvariant --------------------------
(***************************************************************************)
(* The inductive invariant behind WriteAhead: how the record in memory,    *)
(* the copies check_status works on, the journal and the archive relate at *)
(* every location of the process.                                          *)
(***************************************************************************)
EXTENDS Execution

Submitting == {"funding", "allowance", "preflight", "push", "refresh", "sign",
               "request", "response", "submitted"}
Sending    == {"sign", "request", "response", "submitted"}
Scanning   == {"status", "poll", "present"}

(* Two versions of the record of one run: the same transactions, under the *)
(* same locally computed hashes.                                           *)
SameEntries(a, b) ==
  /\ Len(a) = Len(b)
  /\ \A i \in 1..Len(b) : /\ a[i].transaction = b[i].transaction
                          /\ a[i].signed_hash = b[i].signed_hash

(* Every entry of a record belongs to run r, and there is one.             *)
RecordOf(rec, r) == rec # <<>> /\ \A i \in 1..Len(rec) : rec[i].transaction.run = r

(* Before the first run nothing is on disk and nothing runs.               *)
NothingYet == run = 0 => pc = "idle" /\ journal.file # "saved"

(* The journal holds one unarchived run, no later than the current one.    *)
JournalOfOneRun ==
  /\ journal.file = "saved" =>
       \E r \in Runs : r <= run /\ RecordOf(journal.record, r) /\ archive[r] = <<>>
  /\ \A r \in Runs : r > run => archive[r] = <<>>

(* While submit runs, the record in memory is the one in the journal.      *)
MemoryIsDurable ==
  pc \in Submitting \/ (pc \in {"status", "poll"} /\ caller # "resume") =>
    /\ run \in Runs /\ archive[run] = <<>>
    /\ record # <<>> => journal = [file |-> "saved", record |-> record]
    /\ record # <<>> => RecordOf(record, run)

(* The entry of the transaction being sent is the last one; a signed one   *)
(* is hashed before it is posted.                                          *)
EntryBeforeSend ==
  /\ pc \in Sending =>
       record # <<>> /\ record[Len(record)].transaction = This
  /\ pc \in Sending \ {"sign"} /\ run \in signed => record[Len(record)].signed_hash = "known"

(* check_status and present() work on versions of the journalled record.   *)
ScanOfJournal ==
  /\ pc \in Scanning =>
       journal.file = "saved" /\ SameEntries(current, journal.record)
  /\ pc = "status" => SameEntries(updated, journal.record) /\ cursor \in 1..Len(updated)
  /\ pc \in {"status", "poll"} /\ caller # "resume" => record # <<>>

IInv ==
  /\ TypeOK
  /\ NothingYet
  /\ JournalOfOneRun
  /\ MemoryIsDurable
  /\ EntryBeforeSend
  /\ ScanOfJournal
  /\ WriteAhead

-----------------------------------------------------------------------------
(***************************************************************************)
(* What else holds, however often the chain is reorganized.                *)
(***************************************************************************)

(* Before its transaction is pushed, and after the approval is confirmed.  *)
Preparing == {"funding", "allowance", "preflight", "push", "refresh"}

(* submit or wait_for_swap has not returned: it sends, or awaits a status. *)
UnderWay == pc \in Submitting \/ (pc \in {"status", "poll"} /\ caller # "resume")

(* A record is that of an approval, of a swap, or of both in this order.   *)
ApprovalThenSwap(rec) ==
  /\ Len(rec) <= 2
  /\ Len(rec) = 2 => rec[1].transaction.kind = "Approval" /\ rec[2].transaction.kind = "Swap"
ApprovalOnly(rec) == Len(rec) = 1 /\ rec[1].transaction.kind = "Approval"

(* Nothing is left of a status check that is over, nor of a file.          *)
NothingLeftOver ==
  /\ pc \notin Scanning => current = <<>>
  /\ pc \notin {"status", "poll"} => updated = <<>>
  /\ journal.file # "saved" => journal.record = <<>>

(* The journal and the archive hold records of that shape, each under its  *)
(* own run.                                                                *)
StoredShape ==
  /\ ApprovalThenSwap(journal.record)
  /\ \A r \in Runs : archive[r] # <<>> => RecordOf(archive[r], r)

(* A swap is prepared with no entry, or with that of the approval; neither *)
(* is sent before its entry is pushed, or twice.                           *)
NotSentYet ==
  /\ pc \in Preparing =>
       \/ record = <<>> /\ \A k \in Kinds : net[Tx(run, k)] = "absent"
       \/ ApprovalOnly(record)
  /\ pc \in {"preflight", "push"} /\ kind = "Approval" => record = <<>>
  /\ pc \in {"sign", "request"} => net[This] = "absent"
  /\ pc \in {"sign", "request", "response"} => record[Len(record)].submission = "Unknown"
  /\ pc \in {"status", "poll"} /\ caller = "approval" => ApprovalOnly(record)

(* A call that has not returned, or was never made, has no result.         *)
NoResultYet == UnderWay \/ run = 0 => result = "none"

(* The outcomes of the older record are those of the newer one.            *)
KeepsOutcomes(new, old) ==
  \A i \in 1..Len(old) : old[i].submission # "Unknown" => new[i].submission = old[i].submission
ScanLearns ==
  /\ pc \in Scanning => KeepsOutcomes(current, journal.record)
  /\ pc = "status" => KeepsOutcomes(updated, journal.record)

SInv ==
  /\ NothingLeftOver
  /\ StoredShape
  /\ NotSentYet
  /\ NoResultYet
  /\ ScanLearns
  /\ RejectedNeverLands
  /\ FailureIsFinal

SafetyInvariant == IInv /\ SInv

-----------------------------------------------------------------------------
(***************************************************************************)
(* What holds while no mined transaction is undone.                        *)
(***************************************************************************)
Versions == {record, journal.record, current, updated} \union {archive[r] : r \in Runs}

(* A receipt that was read is that of the chain, of the very transaction.  *)
ReceiptsTrue(rec) ==
  \A i \in DOMAIN rec : rec[i].receipt # "none" =>
    rec[i].receipt = Receipt(rec[i].transaction) /\ rec[i].transaction \notin altered

Confirmed(e) == e.submission = "Submitted" /\ e.receipt = "success"

(* A swap is pushed only after its approval was confirmed.                 *)
ApprovalConfirmed ==
  /\ \A rec \in {journal.record, current, updated} : Len(rec) = 2 => Confirmed(rec[1])
  /\ pc \in Preparing /\ record # <<>> => Confirmed(record[1])

(* Nothing of a closed record can take effect any more.                    *)
Closed(rec) == \A i \in DOMAIN rec : rec[i].submission = "Rejected" \/ rec[i].receipt # "none"

(* What check_status has found so far, and what is archived for it.        *)
VerdictTrue ==
  /\ pc = "status" /\ verdict = "Confirmed" => \A i \in 1..cursor - 1 : Confirmed(updated[i])
  /\ pc = "status" => verdict # "Failed"
  /\ pc = "present" => Closed(current)
  /\ \A r \in Runs : Closed(archive[r])

(* Once the simulation has passed the allowance stays, unless the journal  *)
(* is going to refuse the run.                                             *)
Simulated == pc = "preflight" =>
  \E j \in 1..step - 1 : Checks(run \in signed)[j] \in {"simulate", "estimate"}
AllowanceStays ==
  /\ pc = "preflight" => step <= Len(Checks(run \in signed))
  /\ pc \in {"preflight", "push", "sign", "request"} /\ kind = "Swap" /\ Simulated
     /\ (record # <<>> \/ journal.file = "absent") => Allowance

(* Only what was delivered is mined; every version of a record is true.    *)
MinedWasPublic == \A t \in Transactions : Mined(t) => net[t] = "public"
RecordsTrue    == \A rec \in Versions : ReceiptsTrue(rec)

FInv ==
  /\ MinedWasPublic
  /\ RecordsTrue
  /\ ApprovalConfirmed
  /\ VerdictTrue
  /\ AllowanceStays

FinalityInvariant == SafetyInvariant /\ FInv
=============================================================================
