---------------------------- MODULE ExecutionProofs ----------------------------
(***************************************************************************)
(* Proofs about Execution, in three parts: what the invariant holds for    *)
(* every number of runs and of reorgs; what a run's outcome says, as       *)
(* generally; and what is read from the chain, as long as no mined         *)
(* transaction is undone (MaxReorgs = 0).                                  *)
(***************************************************************************)
EXTENDS ExecutionInvariant, SequenceTheorems, TLAPS

-----------------------------------------------------------------------------
(***************************************************************************)
(* The operators on records.                                               *)
(***************************************************************************)

(* Replacing an entry keeps a record a record of the same length.          *)
LEMMA ReplaceEntry ==
  ASSUME NEW rec \in ExecutionRecord, NEW i \in 1..Len(rec),
         NEW e \in TransactionRecord
  PROVE  /\ [rec EXCEPT ![i] = e] \in ExecutionRecord
         /\ Len([rec EXCEPT ![i] = e]) = Len(rec)
         /\ \A j \in 1..Len(rec) : [rec EXCEPT ![i] = e][j] = IF j = i THEN e ELSE rec[j]
  BY DEF ExecutionRecord

(* The same transactions under the same hashes, when the new entry keeps   *)
(* those of the old one.                                                   *)
LEMMA ReplaceSame ==
  ASSUME NEW rec \in ExecutionRecord, NEW i \in 1..Len(rec),
         NEW e \in TransactionRecord,
         e.transaction = rec[i].transaction, e.signed_hash = rec[i].signed_hash
  PROVE  [rec EXCEPT ![i] = e] \in ExecutionRecord /\ SameEntries([rec EXCEPT ![i] = e], rec)
  BY ReplaceEntry DEF SameEntries

LEMMA WithSubmissionKeeps ==
  ASSUME NEW rec \in ExecutionRecord, rec # <<>>, NEW s \in SubmissionState
  PROVE  /\ WithSubmission(rec, s) \in ExecutionRecord
         /\ SameEntries(WithSubmission(rec, s), rec)
  <1> DEFINE n == Len(rec)
             e == [rec[n] EXCEPT !.submission = s]
  <1>1. n \in 1..Len(rec) /\ rec[n] \in TransactionRecord
    BY DEF ExecutionRecord
  <1>2. /\ e \in TransactionRecord
        /\ e.transaction = rec[n].transaction /\ e.signed_hash = rec[n].signed_hash
    BY <1>1 DEF TransactionRecord
  <1>3. WithSubmission(rec, s) = [rec EXCEPT ![n] = e]
    BY DEF WithSubmission
  <1> HIDE DEF n, e
  <1>4. QED
    BY <1>1, <1>2, <1>3, ReplaceSame

(* The last entry learns its hash; the others keep theirs.                 *)
LEMMA WithSignedHashSets ==
  ASSUME NEW rec \in ExecutionRecord, rec # <<>>
  PROVE  /\ WithSignedHash(rec) \in ExecutionRecord
         /\ Len(WithSignedHash(rec)) = Len(rec)
         /\ \A i \in 1..Len(rec) :
              /\ WithSignedHash(rec)[i].transaction = rec[i].transaction
              /\ rec[i].signed_hash = "known" => WithSignedHash(rec)[i].signed_hash = "known"
         /\ WithSignedHash(rec)[Len(rec)].signed_hash = "known"
  <1> DEFINE n == Len(rec)
             e == [rec[n] EXCEPT !.signed_hash = "known"]
  <1>1. n \in 1..Len(rec) /\ rec[n] \in TransactionRecord
    BY DEF ExecutionRecord
  <1>2. /\ e \in TransactionRecord
        /\ e.transaction = rec[n].transaction /\ e.signed_hash = "known"
    BY <1>1 DEF TransactionRecord
  <1>3. WithSignedHash(rec) = [rec EXCEPT ![n] = e]
    BY DEF WithSignedHash
  <1>4. n = Len(rec)
    OBVIOUS
  <1> HIDE DEF n, e
  <1>5. /\ WithSignedHash(rec) \in ExecutionRecord
        /\ Len(WithSignedHash(rec)) = Len(rec)
        /\ \A j \in 1..Len(rec) : WithSignedHash(rec)[j] = IF j = n THEN e ELSE rec[j]
    BY <1>1, <1>2, <1>3 DEF ExecutionRecord
  <1>6. QED
    BY <1>1, <1>2, <1>4, <1>5

(* What check_status writes into an entry keeps its identity.              *)
LEMMA ReceiptKeeps ==
  ASSUME NEW rec \in ExecutionRecord, NEW i \in 1..Len(rec), NEW p \in Receipts
  PROVE  /\ [rec EXCEPT ![i].receipt = p] \in ExecutionRecord
         /\ SameEntries([rec EXCEPT ![i].receipt = p], rec)
  <1> DEFINE e == [rec[i] EXCEPT !.receipt = p]
  <1>1. rec[i] \in TransactionRecord
    BY DEF ExecutionRecord
  <1>2. /\ e \in TransactionRecord
        /\ e.transaction = rec[i].transaction /\ e.signed_hash = rec[i].signed_hash
    BY <1>1 DEF TransactionRecord
  <1>3. [rec EXCEPT ![i].receipt = p] = [rec EXCEPT ![i] = e]
    OBVIOUS
  <1> HIDE DEF e
  <1>4. QED
    BY <1>2, <1>3, ReplaceSame

LEMMA SubmissionKeeps ==
  ASSUME NEW rec \in ExecutionRecord, NEW i \in 1..Len(rec), NEW s \in SubmissionState
  PROVE  /\ [rec EXCEPT ![i].submission = s] \in ExecutionRecord
         /\ SameEntries([rec EXCEPT ![i].submission = s], rec)
  <1> DEFINE e == [rec[i] EXCEPT !.submission = s]
  <1>1. rec[i] \in TransactionRecord
    BY DEF ExecutionRecord
  <1>2. /\ e \in TransactionRecord
        /\ e.transaction = rec[i].transaction /\ e.signed_hash = rec[i].signed_hash
    BY <1>1 DEF TransactionRecord
  <1>3. [rec EXCEPT ![i].submission = s] = [rec EXCEPT ![i] = e]
    OBVIOUS
  <1> HIDE DEF e
  <1>4. QED
    BY <1>2, <1>3, ReplaceSame

(* SameEntries carries what the invariant says about a record over to      *)
(* another version of it.                                                  *)
LEMMA SameEntriesCarries ==
  ASSUME NEW a \in ExecutionRecord, NEW b \in ExecutionRecord, SameEntries(a, b)
  PROVE  /\ SameEntries(b, a)
         /\ b # <<>> => a # <<>>
         /\ \A r \in Runs : RecordOf(b, r) => RecordOf(a, r)
         /\ \A c \in ExecutionRecord : SameEntries(b, c) => SameEntries(a, c)
  BY DEF SameEntries, RecordOf, ExecutionRecord

(* Two writes to an entry, in the order EXCEPT takes them.                 *)
LEMMA MinedKeeps ==
  ASSUME NEW rec \in ExecutionRecord, NEW i \in 1..Len(rec), NEW p \in Receipts,
         NEW s \in SubmissionState
  PROVE  /\ [rec EXCEPT ![i].submission = s, ![i].receipt = p] \in ExecutionRecord
         /\ SameEntries([rec EXCEPT ![i].submission = s, ![i].receipt = p], rec)
  <1> DEFINE d == [rec EXCEPT ![i].submission = s]
  <1>1. d \in ExecutionRecord /\ SameEntries(d, rec)
    BY SubmissionKeeps
  <1>2. i \in 1..Len(d)
    BY <1>1 DEF SameEntries
  <1>3. [rec EXCEPT ![i].submission = s, ![i].receipt = p] = [d EXCEPT ![i].receipt = p]
    OBVIOUS
  <1> HIDE DEF d
  <1>4. /\ [d EXCEPT ![i].receipt = p] \in ExecutionRecord
        /\ SameEntries([d EXCEPT ![i].receipt = p], d)
    BY <1>1, <1>2, ReceiptKeeps
  <1>5. QED
    BY <1>1, <1>3, <1>4, SameEntriesCarries

LEMMA PushedAppends ==
  ASSUME NEW rec \in ExecutionRecord, run \in Runs, kind \in Kinds
  PROVE  /\ Pushed(rec) \in ExecutionRecord
         /\ Len(Pushed(rec)) = Len(rec) + 1
         /\ \A i \in 1..Len(rec) : Pushed(rec)[i] = rec[i]
         /\ Pushed(rec)[Len(rec) + 1].transaction = This
  <1>1. This \in Transactions
    BY DEF This, Tx, Transactions
  <1>2. Fresh(This) \in TransactionRecord /\ Fresh(This).transaction = This
    BY <1>1 DEF Fresh, TransactionRecord, SubmissionState, Receipts
  <1> HIDE DEF This
  <1>3. QED
    BY <1>2 DEF Pushed, ExecutionRecord

(* The receipt a node returns is one of three values.                      *)
LEMMA ReceiptType == ASSUME NEW t PROVE Receipt(t) \in Receipts
  BY DEF Receipt, Receipts

-----------------------------------------------------------------------------
(***************************************************************************)
(* The initial states.                                                     *)
(***************************************************************************)

LEMMA InitIInv == Init => IInv
  <1> SUFFICES ASSUME Init PROVE IInv
    OBVIOUS
  <1>1. 0 \in 0..MaxRuns
    BY MaxRunsAssumption
  <1>2. <<>> \in ExecutionRecord
    BY DEF ExecutionRecord
  <1>3. NetworkTypeOK
    BY MaxReorgsAssumption DEF Init, NetworkInit, NetworkTypeOK, NetState
  <1>4. TypeOK
    <2>1. journal \in [file : {"absent", "saved", "torn"}, record : ExecutionRecord]
      BY <1>2 DEF Init, NoJournal
    <2>2. archive \in [Runs -> ExecutionRecord]
      BY <1>2 DEF Init
    <2>3. pinned \in BOOLEAN /\ expired \in BOOLEAN
      BY DEF Init
    <2>4. QED
      BY <1>1, <1>2, <1>3, <2>1, <2>2, <2>3 DEF Init, TypeOK, Locations, Kinds, Statuses
  <1>5. NothingYet /\ JournalOfOneRun /\ MemoryIsDurable /\ EntryBeforeSend
        /\ ScanOfJournal
    BY DEF Init, NothingYet, JournalOfOneRun, MemoryIsDurable, EntryBeforeSend,
           ScanOfJournal, NoJournal, Submitting, Sending, Scanning, Runs
  <1>6. WriteAhead
    BY DEF Init, NetworkInit, WriteAhead
  <1>7. QED
    BY <1>4, <1>5, <1>6 DEF IInv

-----------------------------------------------------------------------------
(***************************************************************************)
(* What storage does to WriteAhead.                                        *)
(***************************************************************************)

(* A newer record has every entry of the old one, with its hash.           *)
Covers(new, old) ==
  /\ Len(new) >= Len(old)
  /\ \A i \in 1..Len(old) :
       /\ new[i].transaction = old[i].transaction
       /\ old[i].signed_hash = "known" => new[i].signed_hash = "known"

NothingNewSent == \A t \in Transactions : net'[t] # "absent" => net[t] # "absent"

LEMMA SameIsCovered ==
  ASSUME NEW a \in ExecutionRecord, NEW b \in ExecutionRecord, SameEntries(a, b)
  PROVE  Covers(a, b)
  BY DEF SameEntries, Covers, ExecutionRecord

LEMMA StorageUnchanged ==
  ASSUME WriteAhead, NothingNewSent, signed' = signed,
         archive' = archive, journal' = journal
  PROVE  WriteAhead'
  BY DEF WriteAhead, Durable, NothingNewSent

LEMMA JournalTorn ==
  ASSUME WriteAhead, TypeOK, NothingNewSent, signed' = signed, archive' = archive,
         journal.file # "saved", journal'.file # "saved"
  PROVE  WriteAhead'
  BY DEF WriteAhead, Durable, NothingNewSent

LEMMA JournalSaved ==
  ASSUME WriteAhead, TypeOK, NothingNewSent, signed' = signed, archive' = archive,
         NEW rec \in ExecutionRecord, journal' = [file |-> "saved", record |-> rec],
         journal.file = "saved" => Covers(rec, journal.record)
  PROVE  WriteAhead'
  <1> SUFFICES ASSUME NEW t \in Transactions, net'[t] # "absent"
               PROVE  \E i \in DOMAIN Durable(t.run)' :
                        /\ Durable(t.run)'[i].transaction = t
                        /\ t.run \in signed' => Durable(t.run)'[i].signed_hash = "known"
    BY DEF WriteAhead
  <1>1. PICK i \in DOMAIN Durable(t.run) :
          /\ Durable(t.run)[i].transaction = t
          /\ t.run \in signed => Durable(t.run)[i].signed_hash = "known"
    BY DEF WriteAhead, NothingNewSent
  <1>2. CASE archive[t.run] # <<>>
    BY <1>1, <1>2 DEF Durable
  <1>3. CASE archive[t.run] = <<>>
    <2>1. journal.file = "saved" /\ Durable(t.run) = journal.record
      BY <1>1, <1>3 DEF Durable
    <2>2. Durable(t.run)' = rec
      BY <1>3 DEF Durable
    <2>3. journal.record \in ExecutionRecord /\ i \in 1..Len(journal.record)
      BY <1>1, <2>1 DEF TypeOK, ExecutionRecord
    <2>4. /\ i \in DOMAIN rec
          /\ rec[i].transaction = t
          /\ t.run \in signed => rec[i].signed_hash = "known"
      BY <1>1, <2>1, <2>3 DEF Covers, ExecutionRecord
    <2>5. QED
      BY <2>2, <2>4
  <1>4. QED
    BY <1>2, <1>3

-----------------------------------------------------------------------------
(***************************************************************************)
(* Steps that write nothing and send nothing.                              *)
(***************************************************************************)

(* Whether an allowance suffices is a Boolean.                             *)
LEMMA AllowanceType == ASSUME NetworkTypeOK, NEW n PROVE AllowanceAt(n) \in BOOLEAN
  BY DEF AllowanceAt, NetworkTypeOK

LEMMA NetworkTypeKept ==
  ASSUME NetworkTypeOK, UNCHANGED networkVars PROVE NetworkTypeOK'
  BY DEF NetworkTypeOK, networkVars

LEMMA StartRunKeeps == ASSUME IInv, StartRun PROVE IInv'
  <1>1. TypeOK'
    <2>1. pinned' \in BOOLEAN /\ expired' \in BOOLEAN
      BY AllowanceType DEF IInv, TypeOK, StartRun
    <2>2. NetworkTypeOK'
      BY NetworkTypeKept DEF IInv, TypeOK, StartRun
    <2>3. run' \in 0..MaxRuns /\ step' \in Nat \ {0} /\ record' \in ExecutionRecord
      BY MaxRunsAssumption DEF IInv, TypeOK, StartRun, ExecutionRecord
    <2>4. QED
      BY <2>1, <2>2, <2>3
      DEF IInv, TypeOK, StartRun, storeVars, scanVars, Locations
  <1>2. /\ run \in 0..MaxRuns /\ run' = run + 1 /\ run' \in Runs /\ pc' = "funding"
        /\ record' = <<>> /\ journal' = journal /\ archive' = archive
    BY MaxRunsAssumption DEF IInv, TypeOK, StartRun, storeVars, Runs
  <1>3. NothingYet' /\ JournalOfOneRun' /\ MemoryIsDurable' /\ EntryBeforeSend'
        /\ ScanOfJournal'
    BY <1>2 DEF IInv, NothingYet, JournalOfOneRun, MemoryIsDurable, EntryBeforeSend,
       ScanOfJournal, Submitting, Sending, Scanning, RecordOf, Runs
  <1>4. WriteAhead'
    BY StorageUnchanged DEF IInv, StartRun, NothingNewSent, storeVars, networkVars
  <1>5. QED
    BY <1>1, <1>3, <1>4 DEF IInv

(* The other steps of this kind end the call or stay in submit.            *)
LEMMA QuietStep ==
  ASSUME IInv, TypeOK', NothingNewSent, UNCHANGED <<run, signed, journal, archive>>,
         \/ pc' = "idle"
         \/ /\ pc \in Submitting
            /\ pc' \in {"funding", "allowance", "preflight", "push", "refresh"}
            /\ record' = record
  PROVE  IInv'
  <1>1. NothingYet' /\ JournalOfOneRun'
    BY DEF IInv, NothingYet, JournalOfOneRun, MemoryIsDurable, Runs, RecordOf
  <1>2. MemoryIsDurable' /\ EntryBeforeSend' /\ ScanOfJournal'
    BY DEF IInv, MemoryIsDurable, EntryBeforeSend, ScanOfJournal, RecordOf,
           Submitting, Sending, Scanning
  <1>3. WriteAhead'
    BY StorageUnchanged DEF IInv
  <1>4. QED
    BY <1>1, <1>2, <1>3 DEF IInv

LEMMA CheckFundingKeeps == ASSUME IInv, CheckFunding PROVE IInv'
  <1>1. TypeOK'
    BY NetworkTypeKept
    DEF IInv, TypeOK, CheckFunding, runVars, storeVars, scanVars, Goto, Return,
        Locations, Failures
  <1>2. QED
    BY <1>1, QuietStep
    DEF CheckFunding, Goto, Return, NothingNewSent, networkVars, runVars, storeVars,
        Submitting

LEMMA NeedsApprovalKeeps == ASSUME IInv, NeedsApproval PROVE IInv'
  <1>1. TypeOK'
    <2>1. kind' \in Kinds /\ pc' \in Locations /\ step' \in Nat \ {0}
          /\ result' \in {"none"} \union Statuses \union Failures
      BY DEF IInv, TypeOK, NeedsApproval, Send, Return, Kinds, Locations, Failures
    <2>2. QED
      BY <2>1, NetworkTypeKept
      DEF IInv, TypeOK, NeedsApproval, runVars, storeVars, scanVars
  <1>2. QED
    BY <1>1, QuietStep
    DEF NeedsApproval, Send, Return, NothingNewSent, networkVars, storeVars, Submitting

LEMMA RefreshKeeps == ASSUME IInv, Refresh PROVE IInv'
  <1>1. TypeOK'
    <2>1. pinned' \in BOOLEAN /\ expired' \in BOOLEAN
      BY AllowanceType DEF IInv, TypeOK, Refresh
    <2>2. pc' \in Locations /\ step' \in Nat \ {0}
          /\ result' \in {"none"} \union Statuses \union Failures
      BY DEF IInv, TypeOK, Refresh, Goto, Return, Locations, Failures
    <2>3. QED
      BY <2>1, <2>2, NetworkTypeKept
      DEF IInv, TypeOK, Refresh, storeVars, scanVars
  <1>2. QED
    BY <1>1, QuietStep
    DEF Refresh, Goto, Return, NothingNewSent, networkVars, storeVars, Submitting

LEMMA CheckPassesKeeps == ASSUME IInv, CheckPasses PROVE IInv'
  <1>1. TypeOK'
    <2>1. pc' \in Locations /\ step' \in Nat \ {0}
      BY DEF IInv, TypeOK, CheckPasses, Locations
    <2>2. QED
      BY <2>1, NetworkTypeKept
      DEF IInv, TypeOK, CheckPasses, runVars, storeVars, scanVars
  <1>2. QED
    BY <1>1, QuietStep
    DEF CheckPasses, NothingNewSent, networkVars, runVars, storeVars, Submitting

LEMMA CheckFailsKeeps == ASSUME IInv, CheckFails PROVE IInv'
  <1>1. TypeOK'
    <2>1. pc' \in Locations /\ step' \in Nat \ {0} /\ result' \in Failures
      BY DEF CheckFails, FailureOf, Return, Locations, Failures
    <2>2. QED
      BY <2>1, NetworkTypeKept
      DEF IInv, TypeOK, CheckFails, runVars, storeVars, scanVars
  <1>2. QED
    BY <1>1, QuietStep
    DEF CheckFails, Return, NothingNewSent, networkVars, runVars, storeVars

LEMMA WalletFailsKeeps == ASSUME IInv, WalletFails PROVE IInv'
  <1>1. TypeOK'
    BY NetworkTypeKept
    DEF IInv, TypeOK, WalletFails, runVars, storeVars, scanVars, Return, Locations, Failures
  <1>2. QED
    BY <1>1, QuietStep
    DEF WalletFails, Return, NothingNewSent, networkVars, runVars, storeVars

(* Dropping check_status's copies.                                         *)
LEMMA ClearScanType ==
  ASSUME ClearScan
  PROVE  /\ caller' \in {"none", "approval", "swap", "resume"}
         /\ current' \in ExecutionRecord /\ updated' \in ExecutionRecord
         /\ cursor' \in Nat /\ verdict' \in Statuses
  BY DEF ClearScan, ExecutionRecord, Statuses

LEMMA StatusFailsKeeps == ASSUME IInv, StatusFails PROVE IInv'
  <1>1. TypeOK'
    BY NetworkTypeKept, ClearScanType
    DEF IInv, TypeOK, StatusFails, runVars, storeVars, Return, Locations, Failures
  <1>2. QED
    BY <1>1, QuietStep
    DEF StatusFails, Return, NothingNewSent, networkVars, runVars, storeVars

LEMMA CrashKeeps == ASSUME IInv, Crash PROVE IInv'
  <1>1. TypeOK'
    <2>1. record' \in ExecutionRecord
      BY DEF Crash, ExecutionRecord
    <2>2. QED
      BY <2>1, NetworkTypeKept, ClearScanType
      DEF IInv, TypeOK, Crash, runVars, storeVars, Return, Locations
  <1>2. QED
    BY <1>1, QuietStep
    DEF Crash, Return, NothingNewSent, networkVars, runVars, storeVars

LEMMA ExpireKeeps == ASSUME IInv, Expire PROVE IInv'
  <1>1. TypeOK'
    <2>1. expired' \in BOOLEAN
      BY DEF Expire
    <2>2. QED
      BY <2>1, NetworkTypeKept
      DEF IInv, TypeOK, Expire, runVars, storeVars, scanVars
  <1>2. NothingYet' /\ JournalOfOneRun' /\ MemoryIsDurable' /\ EntryBeforeSend'
        /\ ScanOfJournal'
    BY DEF IInv, Expire, NothingYet, JournalOfOneRun, MemoryIsDurable, EntryBeforeSend,
       ScanOfJournal, This, runVars, storeVars, scanVars
  <1>3. WriteAhead'
    BY StorageUnchanged DEF IInv, Expire, NothingNewSent, networkVars, storeVars, runVars
  <1>4. QED
    BY <1>1, <1>2, <1>3 DEF IInv

-----------------------------------------------------------------------------
(***************************************************************************)
(* Steps that write the journal.                                           *)
(***************************************************************************)

(* The call ends, having tried to save a newer version of its record.      *)
LEMMA SaveAndReturn ==
  ASSUME IInv, TypeOK', NothingNewSent, UNCHANGED <<run, signed, archive>>,
         pc \in Submitting, record # <<>>, pc' = "idle",
         Covers(record', record), RecordOf(record', run),
         journal' = journal \/ journal' = [file |-> "saved", record |-> record']
  PROVE  IInv'
  <1>1. /\ run \in Runs /\ archive[run] = <<>>
        /\ journal = [file |-> "saved", record |-> record]
        /\ record' \in ExecutionRecord
    BY DEF IInv, MemoryIsDurable, TypeOK
  <1>2. NothingYet' /\ JournalOfOneRun'
    BY <1>1 DEF IInv, NothingYet, JournalOfOneRun, RecordOf, Runs
  <1>3. MemoryIsDurable' /\ EntryBeforeSend' /\ ScanOfJournal'
    BY DEF MemoryIsDurable, EntryBeforeSend, ScanOfJournal, Submitting, Sending, Scanning
  <1>4. WriteAhead'
    BY <1>1, StorageUnchanged, JournalSaved DEF IInv
  <1>5. QED
    BY <1>2, <1>3, <1>4 DEF IInv

(* While a transaction is being sent, the record has its entry.            *)
LEMMA SendingRecord ==
  ASSUME IInv, pc \in Sending
  PROVE  /\ pc \in Submitting /\ run \in Runs /\ archive[run] = <<>>
         /\ record \in ExecutionRecord /\ record # <<>> /\ RecordOf(record, run)
         /\ journal = [file |-> "saved", record |-> record]
         /\ Len(record) \in 1..Len(record)
  BY DEF IInv, TypeOK, EntryBeforeSend, MemoryIsDurable, Sending, Submitting,
         ExecutionRecord

(* Both updates of the last entry keep the record's run.                   *)
LEMMA SubmissionSet ==
  ASSUME IInv, pc \in Sending, NEW s \in SubmissionState
  PROVE  /\ WithSubmission(record, s) \in ExecutionRecord
         /\ SameEntries(WithSubmission(record, s), record)
         /\ Covers(WithSubmission(record, s), record)
         /\ RecordOf(WithSubmission(record, s), run)
         /\ WithSubmission(record, s) # <<>>
  BY SendingRecord, WithSubmissionKeeps, SameIsCovered, SameEntriesCarries

LEMMA SignedHashSet ==
  ASSUME IInv, pc \in Sending
  PROVE  /\ WithSignedHash(record) \in ExecutionRecord
         /\ Len(WithSignedHash(record)) = Len(record)
         /\ Covers(WithSignedHash(record), record)
         /\ RecordOf(WithSignedHash(record), run)
         /\ WithSignedHash(record)[Len(record)].transaction
              = record[Len(record)].transaction
         /\ WithSignedHash(record)[Len(record)].signed_hash = "known"
         /\ WithSignedHash(record) # <<>>
  BY SendingRecord, WithSignedHashSets DEF Covers, RecordOf, ExecutionRecord

LEMMA RejectSubmissionKeeps ==
  ASSUME IInv, pc \in Sending, NEW res \in Failures, RejectSubmission(res),
         NetworkTypeOK', NothingNewSent, UNCHANGED <<runVars, archive, expired>>
  PROVE  IInv'
  <1>1. record' = WithSubmission(record, "Rejected") /\ "Rejected" \in SubmissionState
    BY DEF RejectSubmission, SubmissionState
  <1>2. pc' = "idle" /\ step' = 1 /\ result' \in Failures
    BY DEF RejectSubmission, PersistFails, Return, Failures
  <1>3. journal' = journal \/ journal' = [file |-> "saved", record |-> record']
    BY DEF RejectSubmission, PersistFails, PersistFailed, Persisted
  <1>4. /\ record' \in ExecutionRecord /\ Covers(record', record)
        /\ RecordOf(record', run)
    BY <1>1, SubmissionSet
  <1>5. TypeOK'
    BY <1>2, <1>3, <1>4
    DEF IInv, TypeOK, RejectSubmission, runVars, scanVars, Locations
  <1>6. QED
    BY <1>2, <1>3, <1>4, <1>5, SendingRecord, SaveAndReturn DEF runVars

LEMMA SignFailsKeeps == ASSUME IInv, SignFails PROVE IInv'
  <1>1. PICK res \in {"Signing", "SignatureMismatch"} : RejectSubmission(res)
    BY DEF SignFails
  <1>2. res \in Failures /\ pc \in Sending
    BY DEF Failures, SignFails, Sending
  <1>3. NetworkTypeOK' /\ NothingNewSent /\ UNCHANGED <<runVars, archive, expired>>
    BY NetworkTypeKept DEF IInv, TypeOK, SignFails, NothingNewSent, networkVars
  <1>4. QED
    BY <1>1, <1>2, <1>3, RejectSubmissionKeeps

(* A request that was refused, of the transaction being sent.              *)
LEMMA RefusedType ==
  ASSUME IInv, net' = [net EXCEPT ![This] = "refused"], net[This] = "flight",
         UNCHANGED <<altered, ledger, reorgs, preapproved>>
  PROVE  NetworkTypeOK' /\ NothingNewSent
  BY DEF IInv, TypeOK, NetworkTypeOK, NetState, NothingNewSent

LEMMA UserRejectsKeeps == ASSUME IInv, UserRejects PROVE IInv'
  <1>1. "Rejected" \in Failures /\ pc \in Sending
    BY DEF Failures, UserRejects, Sending
  <1>2. QED
    BY <1>1, RefusedType, RejectSubmissionKeeps DEF UserRejects

LEMMA SubmitterFailsKeeps == ASSUME IInv, SubmitterFails PROVE IInv'
  <1>1. pc \in Sending /\ "BroadcastRejected" \in Failures
    BY DEF SubmitterFails, Sending, Failures
  <1>2. NetworkTypeOK' /\ NothingNewSent /\ UNCHANGED <<runVars, archive, expired>>
    <2>1. PICK error \in SubmitErrors :
            IF NotTaken(error)
            THEN net[This] = "flight" /\ net' = [net EXCEPT ![This] = "refused"]
            ELSE net' = net
      BY DEF SubmitterFails
    <2>2. CASE NotTaken(error)
      BY <2>1, <2>2, RefusedType DEF SubmitterFails
    <2>3. CASE ~NotTaken(error)
      BY <2>1, <2>3, NetworkTypeKept
      DEF IInv, TypeOK, SubmitterFails, NothingNewSent, networkVars
    <2>4. QED
      BY <2>2, <2>3
  <1>3. CASE RejectSubmission("BroadcastRejected")
    BY <1>1, <1>2, <1>3, RejectSubmissionKeeps
  <1>4. CASE Return("UnknownBroadcast") /\ UNCHANGED <<record, journal, scanVars>>
    <2>1. TypeOK'
      BY <1>2, <1>4
      DEF IInv, TypeOK, runVars, scanVars, Return, Locations, Failures
    <2>2. QED
      BY <1>2, <1>4, <2>1, QuietStep DEF Return, runVars
  <1>5. QED
    BY <1>3, <1>4 DEF SubmitterFails

LEMMA PushKeeps == ASSUME IInv, Push PROVE IInv'
  <1>1. /\ run \in Runs /\ archive[run] = <<>> /\ record \in ExecutionRecord
        /\ kind \in Kinds /\ record' = Pushed(record)
        /\ record # <<>> => /\ RecordOf(record, run)
                            /\ journal = [file |-> "saved", record |-> record]
    BY DEF IInv, TypeOK, MemoryIsDurable, Push, Submitting
  <1>2. This \in Transactions /\ This.run = run
    BY <1>1 DEF This, Tx, Transactions
  <1>3. /\ record' \in ExecutionRecord /\ record' # <<>>
        /\ record'[Len(record')].transaction = This
    BY <1>1, PushedAppends DEF ExecutionRecord
  <1>4. RecordOf(record', run)
    <2>1. /\ Len(record') = Len(record) + 1 /\ Len(record) \in Nat
          /\ \A i \in 1..Len(record) : record'[i] = record[i]
      BY <1>1, PushedAppends DEF ExecutionRecord
    <2>2. \A i \in 1..Len(record) : record[i].transaction.run = run
      <3>1. CASE record = <<>>
        BY <3>1
      <3>2. CASE record # <<>>
        BY <1>1, <3>2 DEF RecordOf
      <3>3. QED
        BY <3>1, <3>2
    <2>3. ASSUME NEW i \in 1..Len(record') PROVE record'[i].transaction.run = run
      <3>1. CASE i = Len(record')
        BY <1>2, <1>3, <3>1
      <3>2. CASE i # Len(record')
        BY <2>1, <2>2, <3>2
      <3>3. QED
        BY <3>1, <3>2
    <2>4. QED
      BY <1>3, <2>3 DEF RecordOf
  <1>5. Covers(record', record)
    BY <1>1, PushedAppends DEF Covers, ExecutionRecord
  <1>6. pc' \in {"sign", "request", "idle"} /\ step' \in Nat \ {0}
        /\ result' \in {"none"} \union Statuses \union Failures
    BY DEF IInv, TypeOK, Push, Goto, PersistFails, Return, Failures
  <1>7. TypeOK'
    <2>1. journal' \in [file : {"absent", "saved", "torn"}, record : ExecutionRecord]
      BY <1>3
      DEF IInv, TypeOK, Push, Persisted, PersistFails, PersistFailed, TornFile,
          ExecutionRecord
    <2>2. QED
      BY <1>3, <1>6, <2>1, NetworkTypeKept
      DEF IInv, TypeOK, Push, runVars, scanVars, Locations
  <1>8. NothingNewSent /\ UNCHANGED <<run, kind, signed, archive>>
    BY DEF Push, NothingNewSent, networkVars, runVars
  <1>9. CASE Persisted(record = <<>>, record') /\ pc' # "idle"
    <2>1. /\ journal' = [file |-> "saved", record |-> record']
          /\ journal.file = "saved" => Covers(record', journal.record)
      BY <1>1, <1>5, <1>9 DEF Persisted, BeginAllowed
    <2>2. NothingYet' /\ JournalOfOneRun' /\ MemoryIsDurable'
      BY <1>1, <1>3, <1>4, <1>8, <2>1
      DEF IInv, NothingYet, JournalOfOneRun, MemoryIsDurable, Runs
    <2>3. pc' = "request" => run \notin signed
      BY <1>9 DEF Push, Goto, PersistFails, Return
    <2>4. EntryBeforeSend' /\ ScanOfJournal'
      BY <1>3, <1>6, <1>8, <2>3
      DEF EntryBeforeSend, ScanOfJournal, Sending, Scanning, This
    <2>5. WriteAhead'
      BY <1>3, <1>8, <2>1, JournalSaved DEF IInv
    <2>6. QED
      BY <1>7, <2>2, <2>4, <2>5 DEF IInv
  <1>10. CASE PersistFails(record = <<>>)
    <2>1. pc' = "idle"
      BY <1>10 DEF PersistFails, Return
    <2>2. CASE journal' = journal
      BY <1>7, <1>8, <2>1, <2>2, QuietStep
    <2>3. CASE journal' = TornFile /\ journal.file = "absent"
      <3>1. NothingYet' /\ JournalOfOneRun'
        BY <1>8, <2>1, <2>3 DEF IInv, NothingYet, JournalOfOneRun, TornFile
      <3>2. MemoryIsDurable' /\ EntryBeforeSend' /\ ScanOfJournal'
        BY <2>1 DEF MemoryIsDurable, EntryBeforeSend, ScanOfJournal, Submitting,
                    Sending, Scanning
      <3>3. WriteAhead'
        BY <1>8, <2>3, JournalTorn DEF IInv, TornFile
      <3>4. QED
        BY <1>7, <3>1, <3>2, <3>3 DEF IInv
    <2>4. QED
      BY <1>10, <2>2, <2>3 DEF PersistFails, PersistFailed
  <1>11. QED
    BY <1>6, <1>9, <1>10 DEF Push, Goto

LEMMA SignKeeps == ASSUME IInv, Sign PROVE IInv'
  <1>1. pc \in Sending
    BY DEF Sign, Sending
  <1>2. pc' \in {"request", "idle"} /\ step' \in Nat \ {0}
        /\ result' \in {"none"} \union Statuses \union Failures
    <2>1. Goto("request") \/ Return("Persistence") \/ Return("Expired")
      BY DEF Sign, PersistFails
    <2>2. "Persistence" \in Failures /\ "Expired" \in Failures
      BY DEF Failures
    <2>3. QED
      BY <2>1, <2>2 DEF IInv, TypeOK, Goto, Return
  <1>3. NothingNewSent /\ UNCHANGED <<run, kind, signed, archive>>
    BY DEF Sign, NothingNewSent, networkVars, runVars
  <1>4. journal' = journal \/ journal' = [file |-> "saved", record |-> record']
    BY DEF Sign, SaveHash, PersistFails, PersistFailed, Persisted
  <1> DEFINE hashed == WithSignedHash(record)
  <1>5. /\ hashed \in ExecutionRecord /\ hashed # <<>> /\ Covers(hashed, record)
        /\ RecordOf(hashed, run) /\ Len(hashed) = Len(record)
        /\ hashed[Len(record)].transaction = record[Len(record)].transaction
        /\ hashed[Len(record)].signed_hash = "known"
    BY <1>1, SignedHashSet
  <1>6. record' = hashed \/ (pc' = "idle" /\ record' = WithSubmission(hashed, "Rejected"))
    BY DEF Sign, PersistFails, Return
  <1> HIDE DEF hashed
  <1>7. record' \in ExecutionRecord /\ Covers(record', record) /\ RecordOf(record', run)
    <2>1. CASE record' = hashed
      BY <1>5, <2>1
    <2>2. CASE record' = WithSubmission(hashed, "Rejected")
      <3>1. record' \in ExecutionRecord /\ SameEntries(record', hashed)
        BY <1>5, <2>2, WithSubmissionKeeps DEF SubmissionState
      <3>2. Covers(record', hashed) /\ RecordOf(record', run)
        BY <1>1, <1>5, <3>1, SendingRecord, SameIsCovered, SameEntriesCarries
      <3>3. QED
        BY <1>1, <1>5, <3>1, <3>2, SendingRecord DEF Covers, ExecutionRecord
    <2>3. QED
      BY <1>6, <2>1, <2>2
  <1>8. TypeOK'
    BY <1>2, <1>4, <1>7, NetworkTypeKept
    DEF IInv, TypeOK, Sign, runVars, scanVars, Locations
  <1>9. CASE pc' = "idle"
    BY <1>1, <1>3, <1>4, <1>7, <1>8, <1>9, SendingRecord, SaveAndReturn
  <1>10. CASE pc' = "request"
    <2>1. record' = hashed /\ journal' = [file |-> "saved", record |-> record']
      BY <1>6, <1>10 DEF Sign, SaveHash, Persisted, PersistFails, Return
    <2>2. NothingYet' /\ JournalOfOneRun' /\ MemoryIsDurable'
      BY <1>1, <1>3, <1>7, <2>1, SendingRecord
      DEF IInv, NothingYet, JournalOfOneRun, MemoryIsDurable, Runs
    <2>3. EntryBeforeSend' /\ ScanOfJournal'
      BY <1>1, <1>3, <1>5, <1>10, <2>1, SendingRecord
      DEF IInv, EntryBeforeSend, ScanOfJournal, Scanning, This
    <2>4. WriteAhead'
      BY <1>1, <1>3, <1>7, <2>1, SendingRecord, JournalSaved DEF IInv
    <2>5. QED
      BY <1>8, <2>2, <2>3, <2>4 DEF IInv
  <1>11. QED
    BY <1>2, <1>9, <1>10

LEMMA RequestKeeps == ASSUME IInv, Request PROVE IInv'
  <1>1. pc \in Sending /\ pc' = "response" /\ pc = "request"
    BY DEF Request, Sending, Goto
  <1>2. /\ net' = [net EXCEPT ![This] = "flight"] /\ journal' = journal
        /\ UNCHANGED <<run, kind, signed, archive, record>>
    BY DEF Request, runVars, storeVars
  <1>3. TypeOK'
    <2>1. NetworkTypeOK'
      BY DEF IInv, TypeOK, Request, NetworkTypeOK, NetState
    <2>2. QED
      BY <2>1
      DEF IInv, TypeOK, Request, Goto, runVars, storeVars, scanVars, Locations
  <1>4. NothingYet' /\ JournalOfOneRun' /\ MemoryIsDurable' /\ EntryBeforeSend'
        /\ ScanOfJournal'
    BY <1>1, <1>2
    DEF IInv, NothingYet, JournalOfOneRun, MemoryIsDurable, EntryBeforeSend,
        ScanOfJournal, Submitting, Sending, Scanning, This
  <1>5. WriteAhead'
    <2>1. /\ Durable(run)' = record
          /\ record[Len(record)].transaction = This
          /\ run \in signed => record[Len(record)].signed_hash = "known"
          /\ Len(record) \in DOMAIN record
      BY <1>1, <1>2, SendingRecord
      DEF IInv, Durable, EntryBeforeSend, Sending, ExecutionRecord
    <2>2. \A r \in Runs : Durable(r)' = Durable(r)
      BY <1>2 DEF Durable
    <2>3. This.run = run
      BY DEF This, Tx
    <2>4. \A t \in Transactions : t # This => net'[t] = net[t]
      BY <1>2 DEF IInv, TypeOK, NetworkTypeOK
    <2>5. \A t \in Transactions : t.run \in Runs
      BY DEF Transactions
    <2>6. QED
      BY <1>2, <2>1, <2>2, <2>3, <2>4, <2>5 DEF IInv, WriteAhead
  <1>6. QED
    BY <1>3, <1>4, <1>5 DEF IInv

-----------------------------------------------------------------------------
(***************************************************************************)
(* check_status, wait and present.                                         *)
(***************************************************************************)

LEMMA JournalReplaced ==
  ASSUME IInv, NothingNewSent, UNCHANGED <<run, signed, archive>>,
         journal.file = "saved", NEW rec \in ExecutionRecord,
         SameEntries(rec, journal.record),
         journal' = [file |-> "saved", record |-> rec]
  PROVE  JournalOfOneRun' /\ WriteAhead'
  <1>1. journal.record \in ExecutionRecord
    BY DEF IInv, TypeOK
  <1>2. JournalOfOneRun'
    BY <1>1, SameEntriesCarries DEF IInv, JournalOfOneRun
  <1>3. WriteAhead'
    BY <1>1, SameIsCovered, JournalSaved DEF IInv
  <1>4. QED
    BY <1>2, <1>3

LEMMA BeginStatusType ==
  ASSUME IInv, NEW rec \in ExecutionRecord,
         NEW who \in {"approval", "swap", "resume", "none"}, BeginStatus(rec, who)
  PROVE  /\ caller' = who /\ current' = rec /\ updated' = rec /\ cursor' = 1
         /\ verdict' \in Statuses /\ pc' = "status" /\ pc' \in Locations
         /\ step' = step /\ result' = result
  BY DEF BeginStatus, Goto, Statuses, Locations

LEMMA ScanBegins ==
  ASSUME IInv, NEW rec \in ExecutionRecord, rec # <<>>,
         NEW who \in {"approval", "swap", "resume", "none"}, BeginStatus(rec, who),
         journal'.file = "saved", SameEntries(rec, journal'.record),
         who # "resume" => record' # <<>>
  PROVE  EntryBeforeSend' /\ ScanOfJournal'
  <1>1. 1 \in 1..Len(rec)
    BY DEF ExecutionRecord
  <1>2. QED
    BY <1>1, BeginStatusType DEF EntryBeforeSend, ScanOfJournal, Sending

LEMMA SelfSame == ASSUME NEW rec PROVE SameEntries(rec, rec)
  BY DEF SameEntries

LEMMA HashReturnedKeeps == ASSUME IInv, HashReturned PROVE IInv'
  <1>1. pc \in Sending
    BY DEF HashReturned, Sending
  <1>2. record' = WithSubmission(record, "Submitted") /\ "Submitted" \in SubmissionState
    BY DEF HashReturned, AcceptSubmission, SubmissionState
  <1>3. /\ record' \in ExecutionRecord /\ SameEntries(record', record)
        /\ Covers(record', record) /\ RecordOf(record', run) /\ record' # <<>>
    BY <1>1, <1>2, SubmissionSet
  <1>4. NothingNewSent /\ UNCHANGED <<networkVars, runVars, archive, expired>>
    BY DEF HashReturned, AcceptSubmission, NothingNewSent, networkVars
  <1>5. NetworkTypeOK'
    BY <1>4, NetworkTypeKept DEF IInv, TypeOK
  <1>6. CASE PersistFails(FALSE) /\ UNCHANGED scanVars
    <2>1. journal' = journal /\ pc' = "idle" /\ step' = 1 /\ result' \in Failures
      BY <1>6 DEF PersistFails, PersistFailed, Return, Failures
    <2>2. TypeOK'
      BY <1>3, <1>4, <1>5, <1>6, <2>1 DEF IInv, TypeOK, runVars, scanVars, Locations
    <2>3. QED
      BY <1>4, <2>1, <2>2, QuietStep DEF runVars
  <1>7. CASE Persisted(FALSE, record')
    <2>1. journal' = [file |-> "saved", record |-> record']
      BY <1>7 DEF Persisted
    <2>2. \/ BeginStatus(record', "approval")
          \/ Goto("submitted") /\ UNCHANGED scanVars
          \/ pc' = "idle" /\ step' = 1 /\ result' = "Persistence" /\ UNCHANGED scanVars
      BY DEF HashReturned, AcceptSubmission, PersistFails, Return
    <2>3. NothingYet' /\ JournalOfOneRun' /\ MemoryIsDurable' /\ WriteAhead'
      <3>1. JournalOfOneRun' /\ WriteAhead'
        BY <1>1, <1>3, <1>4, <2>1, SendingRecord, JournalReplaced DEF runVars
      <3>2. NothingYet' /\ MemoryIsDurable'
        BY <1>1, <1>3, <1>4, <2>1, SendingRecord
        DEF NothingYet, MemoryIsDurable, runVars, Runs
      <3>3. QED
        BY <3>1, <3>2
    <2>4. CASE BeginStatus(record', "approval")
      <3>1. TypeOK'
        BY <1>3, <1>4, <1>5, <2>1, <2>4, BeginStatusType DEF IInv, TypeOK, runVars
      <3>2. EntryBeforeSend' /\ ScanOfJournal'
        BY <1>3, <2>1, <2>4, SelfSame, ScanBegins
      <3>3. QED
        BY <2>3, <3>1, <3>2 DEF IInv
    <2>5. CASE Goto("submitted") /\ UNCHANGED scanVars
      <3>1. TypeOK'
        BY <1>3, <1>4, <1>5, <2>1, <2>5
        DEF IInv, TypeOK, runVars, scanVars, Goto, Locations
      <3>2. /\ record'[Len(record')].transaction = This'
            /\ run \in signed => record'[Len(record')].signed_hash = "known"
        BY <1>1, <1>3, <1>4, SendingRecord
        DEF IInv, EntryBeforeSend, HashReturned, Sending, SameEntries, This, runVars,
            ExecutionRecord
      <3>3. EntryBeforeSend' /\ ScanOfJournal'
        BY <1>3, <1>4, <2>5, <3>2
        DEF EntryBeforeSend, ScanOfJournal, Goto, Scanning, runVars
      <3>4. QED
        BY <2>3, <3>1, <3>3 DEF IInv
    <2>6. CASE pc' = "idle" /\ step' = 1 /\ result' = "Persistence" /\ UNCHANGED scanVars
      <3>1. TypeOK'
        BY <1>3, <1>4, <1>5, <2>1, <2>6
        DEF IInv, TypeOK, runVars, scanVars, Locations, Failures
      <3>2. QED
        BY <1>1, <1>3, <1>4, <2>1, <2>6, <3>1, SendingRecord, SaveAndReturn DEF runVars
    <2>7. QED
      BY <2>2, <2>4, <2>5, <2>6
  <1>8. QED
    BY <1>6, <1>7 DEF HashReturned, AcceptSubmission

LEMMA AfterSubmitKeeps == ASSUME IInv, AfterSubmit PROVE IInv'
  <1>1. pc \in Sending /\ NothingNewSent
        /\ UNCHANGED <<networkVars, runVars, journal, archive, expired, record>>
    BY DEF AfterSubmit, Sending, NothingNewSent, networkVars, storeVars
  <1>2. NetworkTypeOK'
    BY <1>1, NetworkTypeKept DEF IInv, TypeOK
  <1>3. CASE Return("Pending") /\ UNCHANGED scanVars
    <2>1. TypeOK'
      BY <1>1, <1>2, <1>3
      DEF IInv, TypeOK, runVars, scanVars, Return, Locations, Statuses
    <2>2. QED
      BY <1>1, <1>3, <2>1, QuietStep DEF Return, runVars
  <1>4. CASE BeginStatus(record, "swap")
    <2>1. TypeOK'
      BY <1>1, <1>2, <1>4, BeginStatusType DEF IInv, TypeOK, runVars
    <2>2. EntryBeforeSend' /\ ScanOfJournal'
      BY <1>1, <1>4, SendingRecord, SelfSame, ScanBegins
    <2>3. NothingYet' /\ JournalOfOneRun' /\ MemoryIsDurable'
      BY <1>1, SendingRecord
      DEF IInv, NothingYet, JournalOfOneRun, MemoryIsDurable, runVars, Runs
    <2>4. WriteAhead'
      BY <1>1, StorageUnchanged DEF IInv, runVars
    <2>5. QED
      BY <2>1, <2>2, <2>3, <2>4 DEF IInv
  <1>5. QED
    BY <1>3, <1>4 DEF AfterSubmit

LEMMA PollKeeps == ASSUME IInv, Poll PROVE IInv'
  <1>1. /\ pc = "poll" /\ NothingNewSent /\ BeginStatus(current, caller)
        /\ UNCHANGED <<networkVars, runVars, journal, archive, expired, record>>
    BY DEF Poll, NothingNewSent, networkVars, storeVars
  <1>2. /\ journal.file = "saved" /\ SameEntries(current, journal.record)
        /\ journal.record \in ExecutionRecord /\ current \in ExecutionRecord
        /\ journal.record # <<>> /\ caller \in {"approval", "swap", "resume", "none"}
        /\ caller # "resume" => record # <<>>
    BY <1>1 DEF IInv, TypeOK, ScanOfJournal, Scanning, JournalOfOneRun, RecordOf
  <1>3. current # <<>>
    BY <1>2, SameEntriesCarries
  <1>4. TypeOK'
    BY <1>1, <1>2, NetworkTypeKept, BeginStatusType DEF IInv, TypeOK, runVars
  <1>5. EntryBeforeSend' /\ ScanOfJournal'
    BY <1>1, <1>2, <1>3, ScanBegins
  <1>6. NothingYet' /\ JournalOfOneRun'
    BY <1>1 DEF IInv, NothingYet, JournalOfOneRun, runVars
  <1>7. MemoryIsDurable'
    BY <1>1, <1>2, BeginStatusType DEF IInv, MemoryIsDurable, runVars, Submitting
  <1>8. WriteAhead'
    BY <1>1, StorageUnchanged DEF IInv, runVars
  <1>9. QED
    BY <1>4, <1>5, <1>6, <1>7, <1>8 DEF IInv

LEMMA ResumeKeeps == ASSUME IInv, Resume PROVE IInv'
  <1>1. /\ journal.file = "saved" /\ NothingNewSent /\ BeginStatus(journal.record, "resume")
        /\ UNCHANGED <<networkVars, runVars, journal, archive, expired, record>>
    BY DEF Resume, NothingNewSent, networkVars, storeVars
  <1>2. journal.record \in ExecutionRecord /\ journal.record # <<>> /\ run # 0
    BY <1>1 DEF IInv, TypeOK, JournalOfOneRun, RecordOf, NothingYet
  <1>3. TypeOK'
    BY <1>1, <1>2, NetworkTypeKept, BeginStatusType DEF IInv, TypeOK, runVars
  <1>4. EntryBeforeSend' /\ ScanOfJournal'
    BY <1>1, <1>2, SelfSame, ScanBegins
  <1>5. NothingYet' /\ JournalOfOneRun'
    BY <1>1, <1>2 DEF IInv, NothingYet, JournalOfOneRun, runVars
  <1>6. MemoryIsDurable'
    BY <1>1, <1>2, BeginStatusType DEF MemoryIsDurable, Submitting
  <1>7. WriteAhead'
    BY <1>1, StorageUnchanged DEF IInv, runVars
  <1>8. QED
    BY <1>3, <1>4, <1>5, <1>6, <1>7 DEF IInv

(* What every step of check_status and wait leaves alone.                  *)
ScanFrame == UNCHANGED <<networkVars, runVars, archive, expired>>

LEMMA ScanFrameKeeps ==
  ASSUME IInv, ScanFrame
  PROVE  /\ NetworkTypeOK' /\ NothingNewSent /\ UNCHANGED <<run, kind, signed, archive>>
         /\ pinned' = pinned /\ expired' = expired
  BY NetworkTypeKept DEF IInv, TypeOK, ScanFrame, NothingNewSent, networkVars, runVars

LEMMA BeginPresentType ==
  ASSUME IInv, NEW rec \in ExecutionRecord, NEW v \in Statuses, BeginPresent(rec, v)
  PROVE  /\ caller' = "none" /\ current' = rec /\ updated' \in ExecutionRecord
         /\ cursor' \in Nat /\ verdict' = v
         /\ pc' = "present" /\ step' = step /\ result' = result
  BY DEF BeginPresent, Goto, ExecutionRecord

LEMMA WaitReturnsKeeps ==
  ASSUME IInv, ScanFrame, pc \in {"status", "poll"}, caller # "resume",
         NEW rec \in ExecutionRecord, SameEntries(rec, journal.record),
         NEW v \in Statuses, WaitReturns(rec, v)
  PROVE  IInv'
  <1>1. record' = rec
    BY DEF WaitReturns
  <1>2. /\ run \in Runs /\ archive[run] = <<>> /\ RecordOf(record, run)
        /\ journal = [file |-> "saved", record |-> record]
        /\ record \in ExecutionRecord
    BY DEF IInv, TypeOK, MemoryIsDurable, ScanOfJournal
  <1>3. RecordOf(rec, run) /\ rec # <<>>
    BY <1>2, SameEntriesCarries DEF RecordOf
  <1>4. CASE PersistFails(FALSE) /\ ClearScan
    <2>1. pc' = "idle" /\ step' = 1 /\ result' \in Failures /\ journal' = journal
      BY <1>4 DEF PersistFails, PersistFailed, Return, Failures
    <2>2. TypeOK'
      BY <1>1, <1>4, <2>1, ScanFrameKeeps, ClearScanType DEF IInv, TypeOK, Locations
    <2>3. QED
      BY <2>1, <2>2, ScanFrameKeeps, QuietStep
  <1>5. CASE Persisted(FALSE, rec)
    <2>1. journal' = [file |-> "saved", record |-> rec]
      BY <1>5 DEF Persisted
    <2>2. JournalOfOneRun' /\ WriteAhead'
      BY <1>2, <2>1, ScanFrameKeeps, JournalReplaced
    <2>3. NothingYet' /\ MemoryIsDurable'
      BY <1>1, <1>2, <1>3, <2>1, ScanFrameKeeps DEF NothingYet, MemoryIsDurable, Runs
    <2>4. CASE Return("Pending") /\ ClearScan
      <3>1. TypeOK'
        BY <1>1, <2>1, <2>4, ScanFrameKeeps, ClearScanType
        DEF IInv, TypeOK, Return, Locations, Statuses
      <3>2. EntryBeforeSend' /\ ScanOfJournal'
        BY <2>4 DEF EntryBeforeSend, ScanOfJournal, Return, Sending, Scanning
      <3>3. QED
        BY <2>2, <2>3, <3>1, <3>2 DEF IInv
    <2>5. CASE Goto("refresh") /\ ClearScan
      <3>1. TypeOK'
        BY <1>1, <2>1, <2>5, ScanFrameKeeps, ClearScanType DEF IInv, TypeOK, Goto, Locations
      <3>2. EntryBeforeSend' /\ ScanOfJournal'
        BY <2>5 DEF EntryBeforeSend, ScanOfJournal, Goto, Sending, Scanning
      <3>3. QED
        BY <2>2, <2>3, <3>1, <3>2 DEF IInv
    <2>6. CASE BeginPresent(rec, v)
      <3>1. TypeOK'
        BY <1>1, <2>1, <2>6, ScanFrameKeeps, BeginPresentType DEF IInv, TypeOK, Locations
      <3>2. EntryBeforeSend' /\ ScanOfJournal'
        BY <2>1, <2>6, BeginPresentType, SelfSame
        DEF EntryBeforeSend, ScanOfJournal, Sending, Scanning
      <3>3. QED
        BY <2>2, <2>3, <3>1, <3>2 DEF IInv
    <2>7. CASE PersistFails(FALSE) /\ ClearScan
      BY <1>4, <2>7
    <2>8. QED
      BY <2>4, <2>5, <2>6, <2>7 DEF WaitReturns
  <1>6. QED
    BY <1>4, <1>5 DEF WaitReturns

LEMMA WaitTimesOutKeeps == ASSUME IInv, WaitTimesOut PROVE IInv'
  <1>1. pc \in {"status", "poll"} /\ caller # "resume" /\ WaitReturns(current, "Pending")
        /\ ScanFrame
    BY DEF WaitTimesOut, Waiting, ScanFrame
  <1>2. current \in ExecutionRecord /\ SameEntries(current, journal.record)
        /\ "Pending" \in Statuses
    BY <1>1 DEF IInv, TypeOK, ScanOfJournal, Scanning, Statuses
  <1>3. QED
    BY <1>1, <1>2, WaitReturnsKeeps

LEMMA StatusReturnsKeeps ==
  ASSUME IInv, ScanFrame, pc = "status",
         NEW rec \in ExecutionRecord, SameEntries(rec, journal.record),
         NEW v \in Statuses, StatusReturns(rec, v)
  PROVE  IInv'
  <1>1. CASE caller = "resume"
    <2>1. /\ UNCHANGED <<record, journal>>
          /\ (Return("Pending") /\ ClearScan) \/ BeginPresent(rec, v)
      BY <1>1 DEF StatusReturns
    <2>2. CASE Return("Pending") /\ ClearScan
      <3>1. TypeOK'
        BY <2>1, <2>2, ScanFrameKeeps, ClearScanType
        DEF IInv, TypeOK, Return, Locations, Statuses
      <3>2. QED
        BY <2>1, <2>2, <3>1, ScanFrameKeeps, QuietStep DEF Return
    <2>3. CASE BeginPresent(rec, v)
      <3>1. TypeOK'
        BY <2>1, <2>3, ScanFrameKeeps, BeginPresentType DEF IInv, TypeOK, Locations
      <3>2. EntryBeforeSend' /\ ScanOfJournal' /\ MemoryIsDurable'
        BY <2>1, <2>3, BeginPresentType
        DEF IInv, EntryBeforeSend, ScanOfJournal, MemoryIsDurable, Sending, Scanning,
            Submitting
      <3>3. NothingYet' /\ JournalOfOneRun'
        BY <2>1, ScanFrameKeeps DEF IInv, NothingYet, JournalOfOneRun
      <3>4. WriteAhead'
        BY <2>1, ScanFrameKeeps, StorageUnchanged DEF IInv
      <3>5. QED
        BY <3>1, <3>2, <3>3, <3>4 DEF IInv
    <2>4. QED
      BY <2>1, <2>2, <2>3
  <1>2. CASE caller # "resume" /\ v = "Pending"
    <2>1. /\ current' = rec /\ pc' = "poll" /\ step' = step /\ result' = result
          /\ UNCHANGED <<caller, updated, cursor, verdict, record, journal>>
      BY <1>2 DEF StatusReturns, Goto
    <2>2. TypeOK'
      BY <2>1, ScanFrameKeeps DEF IInv, TypeOK, Locations
    <2>3. EntryBeforeSend' /\ ScanOfJournal' /\ MemoryIsDurable'
      BY <2>1, ScanFrameKeeps
      DEF IInv, EntryBeforeSend, ScanOfJournal, MemoryIsDurable, Sending, Scanning,
          Submitting
    <2>4. NothingYet' /\ JournalOfOneRun'
      BY <2>1, ScanFrameKeeps DEF IInv, NothingYet, JournalOfOneRun
    <2>5. WriteAhead'
      BY <2>1, ScanFrameKeeps, StorageUnchanged DEF IInv
    <2>6. QED
      BY <2>2, <2>3, <2>4, <2>5 DEF IInv
  <1>3. CASE caller # "resume" /\ v # "Pending"
    BY <1>3, WaitReturnsKeeps DEF StatusReturns
  <1>4. QED
    BY <1>1, <1>2, <1>3

LEMMA NextEntryKeeps ==
  ASSUME IInv, ScanFrame, pc = "status",
         NEW rec \in ExecutionRecord, SameEntries(rec, updated),
         NEW v \in Statuses, NextEntry(rec, v)
  PROVE  IInv'
  <1>1. /\ SameEntries(rec, journal.record) /\ Len(rec) = Len(updated)
        /\ cursor \in 1..Len(rec) /\ Len(rec) \in Nat
    <2>1. journal.record \in ExecutionRecord /\ updated \in ExecutionRecord
      BY DEF IInv, TypeOK
    <2>2. SameEntries(updated, journal.record) /\ cursor \in 1..Len(updated)
      BY DEF IInv, ScanOfJournal
    <2>3. QED
      BY <2>1, <2>2, SameEntriesCarries DEF SameEntries, ExecutionRecord
  <1>2. CASE cursor = Len(rec)
    BY <1>1, <1>2, StatusReturnsKeeps DEF NextEntry
  <1>3. CASE cursor # Len(rec)
    <2>1. /\ updated' = rec /\ cursor' = cursor + 1 /\ verdict' = v
          /\ UNCHANGED <<pc, step, result, caller, current, record, journal>>
      BY <1>3 DEF NextEntry
    <2>2. cursor' \in 1..Len(updated')
      BY <1>1, <1>3, <2>1
    <2>3. TypeOK'
      BY <2>1, <2>2, ScanFrameKeeps DEF IInv, TypeOK
    <2>4. EntryBeforeSend' /\ ScanOfJournal' /\ MemoryIsDurable'
      BY <1>1, <2>1, <2>2, ScanFrameKeeps
      DEF IInv, EntryBeforeSend, ScanOfJournal, MemoryIsDurable, Sending, Scanning,
          Submitting
    <2>5. NothingYet' /\ JournalOfOneRun'
      BY <2>1, ScanFrameKeeps DEF IInv, NothingYet, JournalOfOneRun
    <2>6. WriteAhead'
      BY <2>1, ScanFrameKeeps, StorageUnchanged DEF IInv
    <2>7. QED
      BY <2>3, <2>4, <2>5, <2>6 DEF IInv
  <1>4. QED
    BY <1>2, <1>3

LEMMA CheckEntryKeeps == ASSUME IInv, CheckEntry PROVE IInv'
  <1> DEFINE e == updated[cursor]
  <1>1. pc = "status" /\ ScanFrame
    BY DEF CheckEntry, ScanFrame
  <1>2. /\ updated \in ExecutionRecord /\ cursor \in 1..Len(updated)
        /\ SameEntries(updated, journal.record) /\ SameEntries(updated, updated)
        /\ journal.record \in ExecutionRecord /\ verdict \in Statuses
    BY <1>1, SelfSame DEF IInv, TypeOK, ScanOfJournal
  <1>3. "Pending" \in Statuses /\ "Failed" \in Statuses
        /\ "none" \in Receipts /\ "Submitted" \in SubmissionState
    BY DEF Statuses, Receipts, SubmissionState
  <1>4. CASE EntryUnknown(e)
    BY <1>1, <1>2, <1>3, <1>4, NextEntryKeeps DEF EntryUnknown
  <1>5. CASE EntryRejected(e)
    BY <1>1, <1>2, <1>3, <1>5, StatusReturnsKeeps DEF EntryRejected
  <1>6. CASE EntryNotMined(e)
    <2> DEFINE rec == [updated EXCEPT ![cursor].receipt = "none"]
    <2>1. rec \in ExecutionRecord /\ SameEntries(rec, updated)
      BY <1>2, <1>3, ReceiptKeeps
    <2>2. NextEntry(rec, "Pending")
      BY <1>6 DEF EntryNotMined
    <2> HIDE DEF rec
    <2>3. QED
      BY <1>1, <1>3, <2>1, <2>2, NextEntryKeeps
  <1>7. CASE EntryDiffers(e)
    <2>1. TypeOK'
      BY <1>1, <1>7, ScanFrameKeeps, ClearScanType
      DEF IInv, TypeOK, EntryDiffers, Return, Locations, Failures
    <2>2. QED
      BY <1>1, <1>7, <2>1, ScanFrameKeeps, QuietStep DEF EntryDiffers, Return
  <1>8. CASE EntryMined(e)
    <2> DEFINE p == Receipt(e.transaction)
               rec == [updated EXCEPT ![cursor].submission = "Submitted",
                                      ![cursor].receipt = p]
    <2>1. p \in Receipts
      BY ReceiptType
    <2>2. NextEntry(rec, verdict) \/ StatusReturns(rec, "Failed")
      BY <1>8 DEF EntryMined
    <2> HIDE DEF p
    <2>3. rec \in ExecutionRecord /\ SameEntries(rec, updated)
      BY <1>2, <1>3, <2>1, MinedKeeps
    <2> HIDE DEF rec
    <2>4. SameEntries(rec, journal.record)
      BY <1>2, <2>3, SameEntriesCarries
    <2>5. QED
      BY <1>1, <1>2, <1>3, <2>2, <2>3, <2>4, NextEntryKeeps, StatusReturnsKeeps
  <1>9. QED
    BY <1>4, <1>5, <1>6, <1>7, <1>8 DEF CheckEntry

LEMMA PresentKeeps == ASSUME IInv, Present PROVE IInv'
  <1> DEFINE saved == [file |-> "saved", record |-> current]
             r == current[1].transaction.run
  <1>1. /\ UNCHANGED <<networkVars, runVars, expired, record>> /\ NothingNewSent
        /\ pc' = "idle" /\ step' = 1 /\ result' = verdict /\ ClearScan
        /\ UNCHANGED <<run, kind, signed, pinned>>
    BY DEF Present, Return, NothingNewSent, networkVars, runVars
  <1>2. /\ journal.file = "saved" /\ SameEntries(current, journal.record)
        /\ journal.record \in ExecutionRecord /\ current \in ExecutionRecord
        /\ archive \in [Runs -> ExecutionRecord]
    BY DEF IInv, TypeOK, ScanOfJournal, Scanning, Present
  <1>3. PICK q \in Runs : q <= run /\ RecordOf(journal.record, q) /\ archive[q] = <<>>
    BY <1>2 DEF IInv, JournalOfOneRun
  <1>4. RecordOf(current, q) /\ r = q
    <2>1. RecordOf(current, q)
      BY <1>2, <1>3, SameEntriesCarries
    <2>2. 1 \in 1..Len(current)
      BY <1>2, <2>1 DEF RecordOf, ExecutionRecord
    <2>3. QED
      BY <2>1, <2>2 DEF RecordOf
  <1>5. EntryBeforeSend' /\ ScanOfJournal' /\ MemoryIsDurable'
    BY <1>1 DEF EntryBeforeSend, ScanOfJournal, MemoryIsDurable, Sending, Scanning,
                Submitting
  <1>6. NetworkTypeOK'
    BY <1>1, NetworkTypeKept DEF IInv, TypeOK
  <1>7. CASE journal' = journal /\ archive' = archive
    <2>1. TypeOK'
      BY <1>1, <1>6, <1>7, ClearScanType DEF IInv, TypeOK, Locations
    <2>2. QED
      BY <1>1, <1>7, <2>1, QuietStep
  <1>8. CASE journal' = saved /\ archive' = archive
    <2>1. TypeOK'
      BY <1>1, <1>2, <1>6, <1>8, ClearScanType DEF IInv, TypeOK, Locations
    <2>2. JournalOfOneRun' /\ WriteAhead'
      BY <1>1, <1>2, <1>8, JournalReplaced
    <2>3. NothingYet'
      BY <1>1, <1>2 DEF IInv, NothingYet
    <2>4. QED
      BY <1>5, <2>1, <2>2, <2>3 DEF IInv
  <1>9. CASE journal' = NoJournal /\ archive' = [archive EXCEPT ![r] = current]
    <2>1. TypeOK'
      <3>1. journal' \in [file : {"absent", "saved", "torn"}, record : ExecutionRecord]
        BY <1>9 DEF NoJournal, ExecutionRecord
      <3>2. archive' \in [Runs -> ExecutionRecord]
        BY <1>2, <1>9
      <3>3. QED
        BY <1>1, <1>6, <3>1, <3>2, ClearScanType DEF IInv, TypeOK, Locations
    <2>2. NothingYet' /\ JournalOfOneRun'
      BY <1>1, <1>2, <1>3, <1>4, <1>9
      DEF IInv, TypeOK, NothingYet, JournalOfOneRun, NoJournal, Runs
    <2>3. WriteAhead'
      <3>1. SUFFICES ASSUME NEW t \in Transactions, net[t] # "absent"
                     PROVE  \E i \in DOMAIN Durable(t.run)' :
                              /\ Durable(t.run)'[i].transaction = t
                              /\ t.run \in signed => Durable(t.run)'[i].signed_hash = "known"
        BY <1>1 DEF WriteAhead, networkVars
      <3>2. PICK i \in DOMAIN Durable(t.run) :
              /\ Durable(t.run)[i].transaction = t
              /\ t.run \in signed => Durable(t.run)[i].signed_hash = "known"
        BY <3>1 DEF IInv, WriteAhead
      <3>3. t.run \in Runs
        BY DEF Transactions
      <3>4. CASE t.run = q
        <4>1. Durable(t.run) = journal.record /\ i \in 1..Len(journal.record)
          BY <1>2, <1>3, <3>2, <3>4 DEF Durable, ExecutionRecord
        <4>2. Durable(t.run)' = current
          BY <1>2, <1>4, <1>9, <3>3, <3>4 DEF Durable, RecordOf
        <4>3. i \in DOMAIN current /\ current[i].transaction = journal.record[i].transaction
              /\ current[i].signed_hash = journal.record[i].signed_hash
          BY <1>2, <4>1 DEF SameEntries, ExecutionRecord
        <4>4. QED
          BY <3>2, <4>1, <4>2, <4>3
      <3>5. CASE t.run # q
        <4>1. archive[t.run] # <<>>
          <5>1. SUFFICES ASSUME archive[t.run] = <<>> PROVE FALSE
            OBVIOUS
          <5>2. i \in 1..Len(journal.record) /\ journal.record[i].transaction = t
            BY <1>2, <3>2, <5>1 DEF Durable, ExecutionRecord
          <5>3. QED
            BY <1>3, <3>5, <5>2 DEF RecordOf
        <4>2. Durable(t.run)' = Durable(t.run)
          BY <1>2, <1>4, <1>9, <3>3, <3>5, <4>1 DEF Durable
        <4>3. QED
          BY <3>2, <4>2
      <3>6. QED
        BY <3>4, <3>5
    <2>4. QED
      BY <1>5, <2>1, <2>2, <2>3 DEF IInv
  <1>10. QED
    BY <1>7, <1>8, <1>9 DEF Present

-----------------------------------------------------------------------------
(***************************************************************************)
(* Steps of the network, and the theorems.                                 *)
(***************************************************************************)

LEMMA NetworkSteps ==
  ASSUME NetworkTypeOK,
         NEW t \in Transactions, NEW mayAlter \in BOOLEAN,
         Deliver(t, mayAlter) \/ Lose(t) \/ Mine(t) \/ Reorg
  PROVE  NetworkTypeOK' /\ NothingNewSent
  <1>1. CASE Deliver(t, mayAlter)
    <2>1. net' \in [Transactions -> NetState]
      BY <1>1 DEF NetworkTypeOK, NetState, Deliver
    <2>2. altered' \subseteq Transactions
      BY <1>1 DEF NetworkTypeOK, Deliver
    <2>3. NothingNewSent
      BY <1>1 DEF NetworkTypeOK, Deliver, NothingNewSent
    <2>4. QED
      BY <1>1, <2>1, <2>2, <2>3 DEF NetworkTypeOK, Deliver
  <1>2. CASE Lose(t)
    BY <1>2 DEF NetworkTypeOK, NetState, Lose, NothingNewSent
  <1>3. CASE Mine(t)
    <2>1. PICK ok \in BOOLEAN : ledger' = Append(ledger, [tx |-> t, ok |-> ok])
      BY <1>3 DEF Mine
    <2>2. [tx |-> t, ok |-> ok] \in [tx : Transactions, ok : BOOLEAN]
      OBVIOUS
    <2>3. ledger' \in Seq([tx : Transactions, ok : BOOLEAN])
      <3> HIDE DEF Transactions
      <3>1. QED
        BY <2>1, <2>2, AppendProperties DEF NetworkTypeOK
    <2>4. QED
      BY <1>3, <2>3 DEF NetworkTypeOK, Mine, NothingNewSent
  <1>4. CASE Reorg
    <2>1. ledger' \in Seq([tx : Transactions, ok : BOOLEAN])
      <3> DEFINE S == [tx : Transactions, ok : BOOLEAN]
      <3>1. ledger \in Seq(S) /\ ledger # <<>> /\ ledger' = SubSeq(ledger, 1, Len(ledger) - 1)
        BY <1>4 DEF Reorg, NetworkTypeOK
      <3> HIDE DEF S
      <3>2. Len(ledger) - 1 \in Int /\ \A i \in 1..(Len(ledger) - 1) : ledger[i] \in S
        BY <3>1
      <3>3. ledger' \in Seq(S)
        BY <3>1, <3>2, SubSeqProperties
      <3>4. QED
        BY <3>3 DEF S
    <2>2. reorgs' \in 0..MaxReorgs
      BY <1>4, MaxReorgsAssumption DEF Reorg, NetworkTypeOK
    <2>3. QED
      BY <1>4, <2>1, <2>2 DEF Reorg, NetworkTypeOK, NothingNewSent
  <1>5. QED
    BY <1>1, <1>2, <1>3, <1>4

LEMMA WorldKeeps == ASSUME IInv, World PROVE IInv'
  <1>1. NetworkTypeOK' /\ NothingNewSent
    <2>1. Tx(1, "Swap") \in Transactions
      BY MaxRunsAssumption DEF Tx, Transactions, Runs, Kinds
    <2>2. CASE Reorg
      BY <2>1, <2>2, NetworkSteps DEF IInv, TypeOK
    <2>3. CASE \E t \in Transactions : Deliver(t, t.run \notin signed) \/ Lose(t) \/ Mine(t)
      <3>1. PICK t \in Transactions : Deliver(t, t.run \notin signed) \/ Lose(t) \/ Mine(t)
        BY <2>3
      <3>2. (t.run \notin signed) \in BOOLEAN
        OBVIOUS
      <3>3. QED
        BY <3>1, <3>2, NetworkSteps DEF IInv, TypeOK
    <2>4. QED
      BY <2>2, <2>3 DEF World
  <1>2. UNCHANGED <<runVars, scanVars, storeVars, pc, step, expired, record, result>>
    BY DEF World
  <1>3. TypeOK'
    BY <1>1, <1>2 DEF IInv, TypeOK, runVars, scanVars, storeVars
  <1>4. NothingYet' /\ JournalOfOneRun' /\ MemoryIsDurable' /\ EntryBeforeSend'
        /\ ScanOfJournal'
    BY <1>2
    DEF IInv, NothingYet, JournalOfOneRun, MemoryIsDurable, EntryBeforeSend,
        ScanOfJournal, This, runVars, scanVars, storeVars
  <1>5. WriteAhead'
    BY <1>1, <1>2, StorageUnchanged DEF IInv, runVars, storeVars
  <1>6. QED
    BY <1>3, <1>4, <1>5 DEF IInv

LEMMA StutterKeeps == ASSUME IInv, UNCHANGED vars PROVE IInv'
  <1>1. /\ UNCHANGED <<networkVars, runVars, scanVars, storeVars, pc, step, expired,
                       record, result>>
        /\ NothingNewSent
    BY DEF vars, NothingNewSent, networkVars
  <1>2. TypeOK'
    BY <1>1, NetworkTypeKept DEF IInv, TypeOK, runVars, scanVars, storeVars
  <1>3. NothingYet' /\ JournalOfOneRun' /\ MemoryIsDurable' /\ EntryBeforeSend'
        /\ ScanOfJournal'
    BY <1>1
    DEF IInv, NothingYet, JournalOfOneRun, MemoryIsDurable, EntryBeforeSend,
        ScanOfJournal, This, runVars, scanVars, storeVars
  <1>4. WriteAhead'
    BY <1>1, StorageUnchanged DEF IInv, runVars, storeVars
  <1>5. QED
    BY <1>2, <1>3, <1>4 DEF IInv

LEMMA NextKeeps == IInv /\ [Next]_vars => IInv'
  <1> SUFFICES ASSUME IInv, [Next]_vars PROVE IInv'
    OBVIOUS
  <1>1. CASE StartRun \/ Resume \/ WaitTimesOut \/ Crash \/ Expire \/ World
    BY <1>1, StartRunKeeps, ResumeKeeps, WaitTimesOutKeeps, CrashKeeps, ExpireKeeps,
       WorldKeeps
  <1>2. CASE Process
    BY <1>2, CheckFundingKeeps, NeedsApprovalKeeps, RefreshKeeps, CheckPassesKeeps,
       CheckFailsKeeps, PushKeeps, SignFailsKeeps, SignKeeps,
       RequestKeeps, HashReturnedKeeps, UserRejectsKeeps, WalletFailsKeeps,
       SubmitterFailsKeeps, AfterSubmitKeeps, CheckEntryKeeps, StatusFailsKeeps,
       PollKeeps, PresentKeeps
    DEF Process
  <1>3. CASE Rest \/ UNCHANGED vars
    BY <1>3, StutterKeeps DEF Rest
  <1>4. QED
    BY <1>1, <1>2, <1>3 DEF Next

(* The relations between memory, journal, archive and network hold in      *)
(* every reachable state.                                                  *)
THEOREM InvariantHolds == Spec => []IInv
  <1>1. QED
    BY InitIInv, NextKeeps, PTL DEF Spec

(* Every variable has its type: no step of submit, check_status or present *)
(* puts a value the code cannot hold into a record, the journal or the     *)
(* archive.                                                                *)
THEOREM TypeCorrect == Spec => []TypeOK
  <1>1. IInv => TypeOK
    BY DEF IInv
  <1>2. QED
    BY <1>1, InvariantHolds, PTL

(* Persist before sending: whatever was handed over is on disk, under its  *)
(* hash when it was signed locally, for every number of runs and reorgs.   *)
THEOREM WriteAheadHolds == Spec => []WriteAhead
  <1>1. IInv => WriteAhead
    BY DEF IInv
  <1>2. QED
    BY <1>1, InvariantHolds, PTL

-----------------------------------------------------------------------------
(***************************************************************************)
(* The second part, for every number of runs and of reorgs: rejected       *)
(* transactions, final failures, the swap a caller looks for after a       *)
(* crash, and the journal's memory.                                        *)
(***************************************************************************)

(* The rejected entries of a record are not on their way, in the network n. *)
RejectedSafe(rec, n) ==
  \A i \in DOMAIN rec : rec[i].submission = "Rejected"
    => n[rec[i].transaction] \in {"absent", "refused"}

(* No transaction that was not on its way gets there by this step.         *)
KeptOut == \A t \in Transactions :
  net[t] \in {"absent", "refused"} => net'[t] \in {"absent", "refused"}

-----------------------------------------------------------------------------
(***************************************************************************)
(* The operators on records, entry by entry.                               *)
(***************************************************************************)

(* WithSubmission writes the state of the last entry, and nothing else.    *)
LEMMA WithSubmissionWrites ==
  ASSUME NEW rec \in ExecutionRecord, rec # <<>>, NEW s \in SubmissionState
  PROVE  /\ Len(WithSubmission(rec, s)) = Len(rec) /\ Len(rec) \in 1..Len(rec)
         /\ DOMAIN WithSubmission(rec, s) = 1..Len(rec)
         /\ \A i \in 1..Len(rec) : i # Len(rec) => WithSubmission(rec, s)[i] = rec[i]
         /\ WithSubmission(rec, s)[Len(rec)].submission = s
         /\ \A i \in 1..Len(rec) :
              /\ WithSubmission(rec, s)[i].transaction = rec[i].transaction
              /\ WithSubmission(rec, s)[i].receipt = rec[i].receipt
  <1> DEFINE n == Len(rec)
             e == [rec[n] EXCEPT !.submission = s]
  <1>1. n \in 1..Len(rec) /\ rec[n] \in TransactionRecord
    BY DEF ExecutionRecord
  <1>2. /\ e \in TransactionRecord
        /\ e.transaction = rec[n].transaction /\ e.submission = s
        /\ e.receipt = rec[n].receipt
    BY <1>1 DEF TransactionRecord
  <1>3. WithSubmission(rec, s) = [rec EXCEPT ![n] = e]
    BY DEF WithSubmission
  <1>4. n = Len(rec)
    OBVIOUS
  <1> HIDE DEF n, e
  <1>5. /\ WithSubmission(rec, s) \in ExecutionRecord
        /\ Len(WithSubmission(rec, s)) = Len(rec)
        /\ \A j \in 1..Len(rec) : WithSubmission(rec, s)[j] = IF j = n THEN e ELSE rec[j]
    BY <1>1, <1>2, <1>3 DEF ExecutionRecord
  <1>6. QED
    BY <1>1, <1>2, <1>4, <1>5 DEF ExecutionRecord

(* A locally computed hash changes no outcome.                             *)
LEMMA WithSignedHashKeeps ==
  ASSUME NEW rec \in ExecutionRecord, rec # <<>>
  PROVE  /\ Len(WithSignedHash(rec)) = Len(rec) /\ Len(rec) \in 1..Len(rec)
         /\ DOMAIN WithSignedHash(rec) = 1..Len(rec)
         /\ \A i \in 1..Len(rec) :
              /\ WithSignedHash(rec)[i].transaction = rec[i].transaction
              /\ WithSignedHash(rec)[i].submission = rec[i].submission
              /\ WithSignedHash(rec)[i].receipt = rec[i].receipt
  <1> DEFINE n == Len(rec)
             e == [rec[n] EXCEPT !.signed_hash = "known"]
  <1>1. n \in 1..Len(rec) /\ rec[n] \in TransactionRecord
    BY DEF ExecutionRecord
  <1>2. /\ e \in TransactionRecord
        /\ e.transaction = rec[n].transaction /\ e.submission = rec[n].submission
        /\ e.receipt = rec[n].receipt
    BY <1>1 DEF TransactionRecord
  <1>3. WithSignedHash(rec) = [rec EXCEPT ![n] = e]
    BY DEF WithSignedHash
  <1>4. n = Len(rec)
    OBVIOUS
  <1> HIDE DEF n, e
  <1>5. /\ WithSignedHash(rec) \in ExecutionRecord
        /\ Len(WithSignedHash(rec)) = Len(rec)
        /\ \A j \in 1..Len(rec) : WithSignedHash(rec)[j] = IF j = n THEN e ELSE rec[j]
    BY <1>1, <1>2, <1>3 DEF ExecutionRecord
  <1>6. QED
    BY <1>1, <1>2, <1>4, <1>5 DEF ExecutionRecord

(* What check_status writes into an entry, for EntryNotMined and           *)
(* EntryMined.                                                             *)
LEMMA ReceiptWrites ==
  ASSUME NEW rec \in ExecutionRecord, NEW i \in 1..Len(rec), NEW p \in Receipts
  PROVE  /\ [rec EXCEPT ![i].receipt = p] \in ExecutionRecord
         /\ Len([rec EXCEPT ![i].receipt = p]) = Len(rec)
         /\ \A j \in 1..Len(rec) :
              /\ [rec EXCEPT ![i].receipt = p][j].transaction = rec[j].transaction
              /\ [rec EXCEPT ![i].receipt = p][j].submission = rec[j].submission
              /\ j # i => [rec EXCEPT ![i].receipt = p][j] = rec[j]
         /\ [rec EXCEPT ![i].receipt = p][i].receipt = p
  <1> DEFINE e == [rec[i] EXCEPT !.receipt = p]
  <1>1. rec[i] \in TransactionRecord
    BY DEF ExecutionRecord
  <1>2. /\ e \in TransactionRecord /\ e.transaction = rec[i].transaction
        /\ e.submission = rec[i].submission /\ e.receipt = p
    BY <1>1 DEF TransactionRecord
  <1>3. [rec EXCEPT ![i].receipt = p] = [rec EXCEPT ![i] = e]
    OBVIOUS
  <1> HIDE DEF e
  <1>4. QED
    BY <1>2, <1>3, ReplaceEntry

LEMMA MinedWrites ==
  ASSUME NEW rec \in ExecutionRecord, NEW i \in 1..Len(rec), NEW p \in Receipts
  PROVE  LET new == [rec EXCEPT ![i].submission = "Submitted", ![i].receipt = p]
         IN  /\ new \in ExecutionRecord /\ Len(new) = Len(rec)
             /\ \A j \in 1..Len(rec) : /\ new[j].transaction = rec[j].transaction
                                       /\ j # i => new[j] = rec[j]
             /\ new[i].submission = "Submitted" /\ new[i].receipt = p
  <1> DEFINE d == [rec EXCEPT ![i].submission = "Submitted"]
             e == [rec[i] EXCEPT !.submission = "Submitted"]
  <1>1. rec[i] \in TransactionRecord
    BY DEF ExecutionRecord
  <1>2. /\ e \in TransactionRecord /\ e.transaction = rec[i].transaction
        /\ e.submission = "Submitted"
    BY <1>1 DEF TransactionRecord, SubmissionState
  <1>3. d = [rec EXCEPT ![i] = e]
    OBVIOUS
  <1>4. [rec EXCEPT ![i].submission = "Submitted", ![i].receipt = p]
          = [d EXCEPT ![i].receipt = p]
    OBVIOUS
  <1> HIDE DEF d, e
  <1>5. /\ d \in ExecutionRecord /\ Len(d) = Len(rec)
        /\ \A j \in 1..Len(rec) : d[j] = IF j = i THEN e ELSE rec[j]
    BY <1>2, <1>3 DEF ExecutionRecord
  <1>6. i \in 1..Len(d)
    BY <1>5
  <1>7. QED
    BY <1>2, <1>4, <1>5, <1>6, ReceiptWrites

(* A pushed entry is fresh.                                                *)
LEMMA PushedFresh ==
  ASSUME NEW rec \in ExecutionRecord, run \in Runs, kind \in Kinds
  PROVE  Pushed(rec)[Len(rec) + 1] = Fresh(This)
  <1>1. Fresh(This) \in TransactionRecord
    BY DEF This, Tx, Transactions, Fresh, TransactionRecord, SubmissionState, Receipts
  <1>2. QED
    BY <1>1 DEF Pushed, ExecutionRecord

-----------------------------------------------------------------------------
(***************************************************************************)
(* What the parts of the invariant give.                                   *)
(***************************************************************************)

LEMMA InitSInv == Init => SInv
  <1> SUFFICES ASSUME Init PROVE SInv
    OBVIOUS
  <1>1. NothingLeftOver /\ StoredShape /\ NotSentYet /\ NoResultYet /\ ScanLearns
    BY DEF Init, NothingLeftOver, StoredShape, ApprovalThenSwap, NotSentYet,
           NoResultYet, ScanLearns, UnderWay, Preparing, Submitting, Scanning, NoJournal
  <1>2. RejectedNeverLands
    BY DEF Init, RejectedNeverLands, NoJournal
  <1>3. FailureIsFinal
    BY DEF Init, FailureIsFinal, NotSent
  <1>4. QED
    BY <1>1, <1>2, <1>3 DEF SInv

(* Every version of a record stays safe while nothing new is sent.         *)
LEMMA VersionSafe ==
  ASSUME TypeOK, RejectedNeverLands, KeptOut, NEW rec \in Versions
  PROVE  RejectedSafe(rec, net')
  <1>1. rec \in ExecutionRecord
    BY DEF TypeOK, Versions
  <1>2. \A i \in DOMAIN rec : rec[i].transaction \in Transactions
    <2>1. \A i \in DOMAIN rec : rec[i] \in TransactionRecord
      BY <1>1 DEF ExecutionRecord
    <2>2. QED
      BY <2>1 DEF TransactionRecord
  <1>3. \A i \in DOMAIN rec : rec[i].submission = "Rejected"
          => net[rec[i].transaction] \in {"absent", "refused"}
    BY DEF RejectedNeverLands, Versions
  <1>4. QED
    BY <1>2, <1>3 DEF KeptOut, RejectedSafe

(* A step that writes one new version, itself safe.                        *)
LEMMA VersionsSafe ==
  ASSUME TypeOK, RejectedNeverLands, KeptOut,
         NEW rec, RejectedSafe(rec, net'),
         record' \in Versions \union {<<>>, rec},
         journal'.record \in Versions \union {<<>>, rec},
         current' \in Versions \union {<<>>, rec},
         updated' \in Versions \union {<<>>, rec},
         \A r \in Runs : archive'[r] \in Versions \union {<<>>, rec}
  PROVE  RejectedNeverLands'
  <1>1. \A v \in Versions \union {<<>>, rec} : RejectedSafe(v, net')
    <2>1. RejectedSafe(<<>>, net')
      BY DEF RejectedSafe
    <2>2. QED
      BY <2>1, VersionSafe
  <1>2. \A v \in Versions \union {<<>>, rec} : \A i \in DOMAIN v :
          v[i].submission = "Rejected" => net'[v[i].transaction] \in {"absent", "refused"}
    BY <1>1 DEF RejectedSafe
  <1> HIDE DEF Versions
  <1>3. QED
    BY <1>2 DEF RejectedNeverLands

(* Nothing of the current run was sent that is not in its record.          *)
LEMMA UnrecordedUnsent ==
  ASSUME IInv, pc \in Submitting, record # <<>>, NEW k \in Kinds,
         \A i \in 1..Len(record) : record[i].transaction # Tx(run, k)
  PROVE  net[Tx(run, k)] = "absent"
  <1>1. /\ run \in Runs /\ archive[run] = <<>> /\ record \in ExecutionRecord
        /\ journal = [file |-> "saved", record |-> record]
    BY DEF IInv, TypeOK, MemoryIsDurable
  <1>2. Tx(run, k) \in Transactions /\ Tx(run, k).run = run
    BY <1>1 DEF Tx, Transactions
  <1>3. Durable(run) = record /\ DOMAIN record = 1..Len(record)
    BY <1>1 DEF Durable, ExecutionRecord
  <1>4. QED
    BY <1>2, <1>3 DEF IInv, WriteAhead

LEMMA ApprovalIsNoSwap == ASSUME NEW r PROVE Tx(r, "Approval") # Tx(r, "Swap")
  BY DEF Tx

(* Before its push, the swap of the run has not been sent.                 *)
LEMMA SwapUnsent ==
  ASSUME IInv, SInv, pc \in Preparing PROVE net[Tx(run, "Swap")] = "absent"
  <1>1. CASE record = <<>>
    BY <1>1 DEF SInv, NotSentYet, ApprovalOnly, Kinds
  <1>2. CASE ApprovalOnly(record)
    <2>1. record # <<>> /\ pc \in Submitting
      BY <1>2 DEF ApprovalOnly, Preparing, Submitting
    <2>2. \A i \in 1..Len(record) : record[i].transaction # Tx(run, "Swap")
      BY <1>2 DEF ApprovalOnly, Tx
    <2>3. QED
      BY <2>1, <2>2, UnrecordedUnsent DEF Kinds
  <1>3. QED
    BY <1>1, <1>2 DEF SInv, NotSentYet

(* Nor has the transaction in preparation.                                 *)
LEMMA ThisUnsent ==
  ASSUME IInv, SInv, pc \in {"preflight", "push"} PROVE net[This] = "absent"
  <1>1. kind \in Kinds /\ pc \in Preparing
    BY DEF IInv, TypeOK, Preparing
  <1>2. CASE kind = "Swap"
    BY <1>1, <1>2, SwapUnsent DEF This
  <1>3. CASE kind = "Approval"
    <2>1. record = <<>>
      BY <1>3 DEF SInv, NotSentYet
    <2>2. QED
      BY <1>1, <2>1 DEF SInv, NotSentYet, This, ApprovalOnly
  <1>4. QED
    BY <1>1, <1>2, <1>3 DEF Kinds

(* While the approval is being sent, its record is the approval's alone.   *)
LEMMA SendingApproval ==
  ASSUME IInv, SInv, pc \in Sending, kind = "Approval" PROVE ApprovalOnly(record)
  <1>1. /\ record # <<>> /\ record \in ExecutionRecord /\ journal.record = record
        /\ Len(record) \in 1..Len(record)
    BY SendingRecord
  <1>2. record[Len(record)].transaction.kind = "Approval"
    BY DEF IInv, EntryBeforeSend, This, Tx
  <1>3. ApprovalThenSwap(record)
    BY <1>1 DEF SInv, StoredShape
  <1> DEFINE n == Len(record)
  <1>4. n \in Nat /\ n >= 1 /\ n <= 2 /\ n # 2
    BY <1>1, <1>2, <1>3 DEF ApprovalThenSwap, ExecutionRecord
  <1> HIDE DEF n
  <1>5. n = 1
    BY <1>4
  <1> USE DEF n
  <1>6. QED
    BY <1>2, <1>5 DEF ApprovalOnly

(* A swap has not been sent while its approval is.                         *)
LEMMA SendingSwapUnsent ==
  ASSUME IInv, SInv, pc \in Sending, kind = "Approval"
  PROVE  net[Tx(run, "Swap")] = "absent"
  <1>1. ApprovalOnly(record)
    BY SendingApproval
  <1>2. record # <<>> /\ pc \in Submitting
    BY SendingRecord
  <1>3. \A i \in 1..Len(record) : record[i].transaction # Tx(run, "Swap")
    BY <1>1 DEF ApprovalOnly, Tx
  <1>4. QED
    BY <1>2, <1>3, UnrecordedUnsent DEF Kinds

-----------------------------------------------------------------------------
(***************************************************************************)
(* Steps that write no record.                                             *)
(***************************************************************************)

LEMMA SameVersionsSafe ==
  ASSUME IInv, SInv, KeptOut,
         record' \in Versions \union {<<>>},
         journal'.record \in Versions \union {<<>>},
         current' \in Versions \union {<<>>},
         updated' \in Versions \union {<<>>},
         \A r \in Runs : archive'[r] \in Versions \union {<<>>}
  PROVE  RejectedNeverLands'
  <1>1. RejectedSafe(<<>>, net')
    BY DEF RejectedSafe
  <1>2. QED
    BY <1>1, VersionsSafe DEF IInv, SInv

(* Each variable's version is one, and the network's frame keeps the rest. *)
LEMMA VersionsAre ==
  /\ record \in Versions /\ journal.record \in Versions
  /\ current \in Versions /\ updated \in Versions
  /\ \A r \in Runs : archive[r] \in Versions
  BY DEF Versions

LEMMA NetworkSame == ASSUME UNCHANGED networkVars PROVE KeptOut
  BY DEF KeptOut, networkVars

(* A failure stays final when nothing new is sent.                         *)
LEMMA FinalKept ==
  ASSUME IInv, SInv, KeptOut, UNCHANGED <<run, kind, result>> PROVE FailureIsFinal'
  <1>1. CASE result \in NotSent
    <2>1. run \in Runs /\ kind \in Kinds
      BY <1>1 DEF IInv, TypeOK, SInv, NoResultYet, NotSent, Runs
    <2>2. Tx(run, "Swap") \in Transactions /\ This \in Transactions
      BY <2>1 DEF Tx, This, Transactions, Kinds
    <2>3. This' = This
      BY DEF This
    <2>4. QED
      BY <2>2, <2>3 DEF SInv, FailureIsFinal, KeptOut, NotSent
  <1>2. CASE result \notin NotSent
    BY <1>2 DEF FailureIsFinal, NotSent
  <1>3. QED
    BY <1>1, <1>2

(* A result that is no failure of this kind.                               *)
LEMMA OtherResult == ASSUME result' \notin NotSent PROVE FailureIsFinal'
  BY DEF FailureIsFinal, NotSent

(* The steps of submit before its push, and those that end it unwritten.   *)
LEMMA QuietSafe ==
  ASSUME IInv, SInv, pc \in Submitting, KeptOut,
         UNCHANGED <<run, signed, storeVars, scanVars, record>>,
         pc' \in {"idle"} \union Preparing,
         NotSentYet', NoResultYet', FailureIsFinal'
  PROVE  SInv'
  <1>1. NothingLeftOver' /\ StoredShape' /\ ScanLearns'
    BY DEF SInv, NothingLeftOver, StoredShape, ScanLearns, storeVars, scanVars, Preparing,
           Submitting, Scanning
  <1>2. RejectedNeverLands'
    BY SameVersionsSafe, VersionsAre DEF storeVars, scanVars
  <1>3. QED
    BY <1>1, <1>2 DEF SInv

(* Leaving a call before anything of it is sent.                           *)
LEMMA EndsBeforePush ==
  ASSUME IInv, SInv, pc \in Preparing, pc' = "idle",
         UNCHANGED <<networkVars, run, kind, signed, storeVars, scanVars, record>>,
         result' \in NotSent,
         pc \in {"preflight", "push"} \/ result' \in {"Preflight", "AllowanceNotVisible",
                                                      "Refresh", "IntentChanged"}
  PROVE  SInv'
  <1>1. run # 0 /\ pc \in Submitting
    BY DEF IInv, NothingYet, Preparing, Submitting
  <1>2. NotSentYet' /\ NoResultYet'
    BY <1>1 DEF NotSentYet, NoResultYet, UnderWay, Preparing, Submitting
  <1>3. net'[Tx(run, "Swap")] = "absent"
    BY SwapUnsent DEF networkVars
  <1>4. pc \in {"preflight", "push"} => net'[This] = "absent"
    BY ThisUnsent DEF networkVars
  <1>5. FailureIsFinal'
    BY <1>3, <1>4 DEF FailureIsFinal, This
  <1>6. QED
    BY <1>1, <1>2, <1>5, QuietSafe, NetworkSame

LEMMA CheckFundingSafe == ASSUME IInv, SInv, CheckFunding PROVE SInv'
  <1>1. /\ pc = "funding" /\ pc \in Preparing /\ pc \in Submitting /\ KeptOut
        /\ UNCHANGED <<networkVars, run, kind, signed, storeVars, scanVars, record>>
    BY NetworkSame DEF CheckFunding, runVars, Preparing, Submitting
  <1>2. CASE Goto("allowance")
    <2>1. pc' = "allowance" /\ result' = result
      BY <1>2 DEF Goto
    <2>2. NotSentYet' /\ NoResultYet'
      BY <1>1, <2>1
      DEF SInv, NotSentYet, NoResultYet, UnderWay, Preparing, Submitting, networkVars
    <2>3. QED
      BY <1>1, <2>1, <2>2, QuietSafe, FinalKept DEF Preparing
  <1>3. CASE Return("Preflight")
    BY <1>1, <1>3, EndsBeforePush DEF Return, NotSent
  <1>4. QED
    BY <1>2, <1>3 DEF CheckFunding

LEMMA NeedsApprovalSafe == ASSUME IInv, SInv, NeedsApproval PROVE SInv'
  <1>1. /\ pc = "allowance" /\ pc \in Preparing /\ pc \in Submitting /\ KeptOut
        /\ UNCHANGED <<networkVars, run, signed, storeVars, scanVars, record>>
    BY NetworkSame DEF NeedsApproval, runVars, Preparing, Submitting
  <1>2. CASE pc' = "preflight" /\ result' = result
             /\ (kind' = "Swap" \/ (kind' = "Approval" /\ record = <<>>))
    <2>1. NotSentYet' /\ NoResultYet'
      BY <1>1, <1>2
      DEF SInv, NotSentYet, NoResultYet, UnderWay, Preparing, Submitting, networkVars
    <2>2. FailureIsFinal'
      BY <1>1, <1>2, OtherResult DEF SInv, NoResultYet, UnderWay, NotSent
    <2>3. QED
      BY <1>1, <1>2, <2>1, <2>2, QuietSafe DEF Preparing
  <1>3. CASE pc' = "idle" /\ result' \in {"Preflight", "AllowanceNotVisible"} /\ kind' = kind
    BY <1>1, <1>3, EndsBeforePush DEF NotSent
  <1>4. QED
    BY <1>2, <1>3 DEF NeedsApproval, Send, Return

LEMMA RefreshSafe == ASSUME IInv, SInv, Refresh PROVE SInv'
  <1>1. /\ pc = "refresh" /\ pc \in Preparing /\ pc \in Submitting /\ KeptOut
        /\ UNCHANGED <<networkVars, run, kind, signed, storeVars, scanVars, record>>
    BY NetworkSame DEF Refresh, runVars, Preparing, Submitting
  <1>2. CASE pc' = "funding" /\ result' = result
    <2>1. NotSentYet' /\ NoResultYet'
      BY <1>1, <1>2
      DEF SInv, NotSentYet, NoResultYet, UnderWay, Preparing, Submitting, networkVars
    <2>2. QED
      BY <1>1, <1>2, <2>1, QuietSafe, FinalKept DEF Preparing
  <1>3. CASE pc' = "idle" /\ result' \in {"Refresh", "IntentChanged"}
    BY <1>1, <1>3, EndsBeforePush DEF NotSent
  <1>4. QED
    BY <1>2, <1>3 DEF Refresh, Goto, Return

LEMMA CheckPassesSafe == ASSUME IInv, SInv, CheckPasses PROVE SInv'
  <1>1. /\ pc = "preflight" /\ pc \in Preparing /\ pc \in Submitting /\ KeptOut
        /\ UNCHANGED <<networkVars, run, kind, signed, storeVars, scanVars, record, result>>
    BY NetworkSame DEF CheckPasses, runVars, Preparing, Submitting
  <1>2. pc' \in {"preflight", "push"}
    BY <1>1 DEF CheckPasses
  <1>3. NotSentYet' /\ NoResultYet'
    BY <1>1, <1>2
    DEF SInv, NotSentYet, NoResultYet, UnderWay, Preparing, Submitting, networkVars
  <1>4. QED
    BY <1>1, <1>2, <1>3, QuietSafe, FinalKept DEF Preparing

LEMMA CheckFailsSafe == ASSUME IInv, SInv, CheckFails PROVE SInv'
  <1>1. /\ pc = "preflight" /\ pc \in Preparing
        /\ UNCHANGED <<networkVars, run, kind, signed, storeVars, scanVars, record>>
    BY DEF CheckFails, runVars, Preparing
  <1>2. pc' = "idle" /\ result' \in NotSent
    BY DEF CheckFails, Return, FailureOf, NotSent
  <1>3. QED
    BY <1>1, <1>2, EndsBeforePush

(* A transaction of a run that has not begun was never handed over.        *)
LEMMA LaterRunsUnsent ==
  ASSUME IInv, NEW t \in Transactions, t.run > run PROVE net[t] = "absent"
  <1>1. t.run \in Runs /\ run \in Nat
    BY MaxRunsAssumption DEF IInv, TypeOK, Transactions
  <1>2. archive[t.run] = <<>>
    BY <1>1 DEF IInv, JournalOfOneRun
  <1>3. SUFFICES ASSUME NEW i \in DOMAIN Durable(t.run),
                        Durable(t.run)[i].transaction = t
                 PROVE  FALSE
    BY DEF IInv, WriteAhead
  <1>4. journal.file = "saved" /\ Durable(t.run) = journal.record
    BY <1>2, <1>3 DEF Durable
  <1>5. PICK q \in Runs : q <= run /\ RecordOf(journal.record, q)
    BY <1>4 DEF IInv, JournalOfOneRun
  <1>6. i \in 1..Len(journal.record)
    BY <1>3, <1>4 DEF IInv, TypeOK, ExecutionRecord
  <1>7. t.run = q
    BY <1>3, <1>4, <1>5, <1>6 DEF RecordOf
  <1>8. QED
    BY <1>1, <1>5, <1>7 DEF Runs

LEMMA StartRunSafe == ASSUME IInv, SInv, StartRun PROVE SInv'
  <1>1. /\ pc = "idle" /\ pc' = "funding" /\ record' = <<>> /\ result' = "none"
        /\ run \in 0..MaxRuns /\ run' = run + 1 /\ run' \in Runs /\ KeptOut
        /\ UNCHANGED <<networkVars, storeVars, scanVars, kind, signed>>
    BY MaxRunsAssumption, NetworkSame DEF IInv, TypeOK, StartRun, Runs
  <1>2. NothingLeftOver' /\ StoredShape' /\ ScanLearns'
    BY <1>1 DEF SInv, NothingLeftOver, StoredShape, ScanLearns, storeVars, scanVars, Scanning
  <1>3. NotSentYet'
    <2>1. ASSUME NEW k \in Kinds PROVE net'[Tx(run', k)] = "absent"
      <3>1. Tx(run', k) \in Transactions /\ Tx(run', k).run > run
        BY <1>1 DEF Tx, Transactions
      <3>2. QED
        BY <1>1, <3>1, LaterRunsUnsent DEF networkVars
    <2>2. QED
      BY <1>1, <2>1 DEF NotSentYet, Preparing
  <1>4. NoResultYet' /\ FailureIsFinal'
    BY <1>1, OtherResult DEF NoResultYet, NotSent
  <1>5. RejectedNeverLands'
    BY <1>1, SameVersionsSafe, VersionsAre DEF storeVars, scanVars
  <1>6. QED
    BY <1>2, <1>3, <1>4, <1>5 DEF SInv

(* A failure about a transaction that was not taken.                       *)
LEMMA EndsUnsent ==
  ASSUME IInv, SInv, pc \in Sending, KeptOut, UNCHANGED <<run, kind>>,
         net'[This] \in {"absent", "refused"}
  PROVE  FailureIsFinal'
  <1>1. kind \in Kinds /\ run \in Runs
    BY SendingRecord DEF IInv, TypeOK
  <1>2. CASE kind = "Swap"
    BY <1>2 DEF FailureIsFinal, This
  <1>3. CASE kind = "Approval"
    <2>1. Tx(run, "Swap") \in Transactions
      BY <1>1 DEF Tx, Transactions, Kinds
    <2>2. net'[Tx(run, "Swap")] \in {"absent", "refused"}
      BY <1>3, <2>1, SendingSwapUnsent DEF KeptOut
    <2>3. QED
      BY <2>2 DEF FailureIsFinal, This
  <1>4. QED
    BY <1>1, <1>2, <1>3 DEF Kinds

(* A call that has ended asks nothing of what is being sent.               *)
LEMMA EndedQuiet ==
  ASSUME IInv, SInv, pc' = "idle", run' = run, pc # "idle" PROVE NotSentYet' /\ NoResultYet'
  BY DEF IInv, NothingYet, NotSentYet, NoResultYet, UnderWay, Preparing, Submitting

LEMMA WalletFailsSafe == ASSUME IInv, SInv, WalletFails PROVE SInv'
  <1>1. /\ pc = "response" /\ pc \in Submitting /\ pc' = "idle" /\ KeptOut
        /\ result' = "UnknownSubmission"
        /\ UNCHANGED <<networkVars, run, kind, signed, storeVars, scanVars, record>>
    BY NetworkSame DEF WalletFails, Return, runVars, Submitting
  <1>2. FailureIsFinal'
    BY <1>1, OtherResult DEF NotSent
  <1>3. QED
    BY <1>1, <1>2, EndedQuiet, QuietSafe

(* check_status's copies are dropped and the call ends.                    *)
LEMMA ScanEndsSafe ==
  ASSUME IInv, SInv, pc # "idle", pc' = "idle", ClearScan, KeptOut, run' = run,
         result' \notin NotSent, UNCHANGED storeVars, record' \in {record, <<>>}
  PROVE  SInv'
  <1>1. NothingLeftOver' /\ StoredShape' /\ ScanLearns'
    BY DEF SInv, NothingLeftOver, StoredShape, ScanLearns, storeVars, ClearScan, Scanning
  <1>2. RejectedNeverLands'
    BY SameVersionsSafe, VersionsAre DEF storeVars, ClearScan
  <1>3. QED
    BY <1>1, <1>2, EndedQuiet, OtherResult DEF SInv

LEMMA CrashSafe == ASSUME IInv, SInv, Crash PROVE SInv'
  <1>1. /\ pc # "idle" /\ pc' = "idle" /\ ClearScan /\ KeptOut /\ run' = run
        /\ result' = "none" /\ UNCHANGED storeVars /\ record' = <<>>
    BY NetworkSame DEF Crash, Return, runVars
  <1>2. QED
    BY <1>1, ScanEndsSafe DEF NotSent

LEMMA StatusFailsSafe == ASSUME IInv, SInv, StatusFails PROVE SInv'
  <1>1. /\ pc # "idle" /\ pc' = "idle" /\ ClearScan /\ KeptOut /\ run' = run
        /\ result' = "Confirmation" /\ UNCHANGED storeVars /\ record' = record
    BY NetworkSame DEF StatusFails, Return, runVars
  <1>2. QED
    BY <1>1, ScanEndsSafe DEF NotSent

-----------------------------------------------------------------------------
(***************************************************************************)
(* The network and the clock move on their own.                            *)
(***************************************************************************)

KeptAbsent == \A t \in Transactions : net[t] = "absent" => net'[t] = "absent"

LEMMA ElsewhereSafe ==
  ASSUME IInv, SInv, KeptOut, KeptAbsent,
         UNCHANGED <<runVars, scanVars, storeVars, pc, record, result>>
  PROVE  SInv'
  <1>1. NothingLeftOver' /\ StoredShape' /\ NoResultYet' /\ ScanLearns'
    BY DEF SInv, NothingLeftOver, StoredShape, NoResultYet, UnderWay, ScanLearns, runVars,
           storeVars, scanVars
  <1>2. NotSentYet'
    <2>1. CASE pc = "idle"
      BY <2>1 DEF NotSentYet, Preparing
    <2>2. CASE pc # "idle"
      <3>1. run \in Runs /\ kind \in Kinds
        BY <2>2 DEF IInv, TypeOK, NothingYet, Runs
      <3>2. This \in Transactions /\ \A k \in Kinds : Tx(run, k) \in Transactions
        BY <3>1 DEF This, Tx, Transactions
      <3>3. This' = This
        BY DEF This, runVars
      <3>4. QED
        BY <3>2, <3>3 DEF SInv, NotSentYet, KeptAbsent, runVars, scanVars
    <2>3. QED
      BY <2>1, <2>2
  <1>3. RejectedNeverLands'
    BY SameVersionsSafe, VersionsAre DEF storeVars, scanVars
  <1>4. FailureIsFinal'
    BY FinalKept DEF runVars
  <1>5. QED
    BY <1>1, <1>2, <1>3, <1>4 DEF SInv

LEMMA ExpireSafe == ASSUME IInv, SInv, Expire PROVE SInv'
  BY ElsewhereSafe, NetworkSame DEF Expire, KeptAbsent, networkVars

LEMMA StutterSafe == ASSUME IInv, SInv, UNCHANGED vars PROVE SInv'
  BY ElsewhereSafe, NetworkSame DEF vars, KeptAbsent, networkVars

LEMMA WorldSafe == ASSUME IInv, SInv, World PROVE SInv'
  <1>1. UNCHANGED <<runVars, scanVars, storeVars, pc, record, result>>
    BY DEF World
  <1>2. net \in [Transactions -> NetState]
    BY DEF IInv, TypeOK, NetworkTypeOK
  <1>3. KeptOut /\ KeptAbsent
    <2>1. CASE Reorg
      BY <2>1 DEF Reorg, KeptOut, KeptAbsent
    <2>2. CASE \E t \in Transactions : Deliver(t, t.run \notin signed) \/ Lose(t) \/ Mine(t)
      <3>1. PICK t \in Transactions : Deliver(t, t.run \notin signed) \/ Lose(t) \/ Mine(t)
        BY <2>2
      <3>2. \/ net[t] = "flight" /\ net' = [net EXCEPT ![t] = "public"]
            \/ net[t] = "flight" /\ net' = [net EXCEPT ![t] = "lost"]
            \/ net' = net
        BY <3>1 DEF Deliver, Lose, Mine
      <3>3. QED
        BY <1>2, <3>2 DEF KeptOut, KeptAbsent
    <2>3. QED
      BY <2>1, <2>2 DEF World
  <1>4. QED
    BY <1>1, <1>3, ElsewhereSafe

-----------------------------------------------------------------------------
(***************************************************************************)
(* Steps of send that write the record.                                    *)
(***************************************************************************)

(* The shape of a record is that of its transactions.                      *)
LEMMA ShapeKept ==
  ASSUME NEW a \in ExecutionRecord, NEW b \in ExecutionRecord, Len(a) = Len(b),
         \A i \in 1..Len(b) : a[i].transaction = b[i].transaction
  PROVE  /\ ApprovalThenSwap(b) => ApprovalThenSwap(a)
         /\ ApprovalOnly(b) => ApprovalOnly(a)
  <1> DEFINE n == Len(b)
  <1>1. n \in Nat /\ Len(a) = n
    BY DEF ExecutionRecord
  <1>2. n = 2 => a[1].transaction = b[1].transaction /\ a[2].transaction = b[2].transaction
    BY <1>1
  <1>3. n = 1 => a[1].transaction = b[1].transaction
    BY <1>1
  <1>4. QED
    BY <1>1, <1>2, <1>3 DEF ApprovalThenSwap, ApprovalOnly

LEMMA SubmissionSafe ==
  ASSUME NEW rec \in ExecutionRecord, rec # <<>>, NEW s \in SubmissionState, NEW n,
         RejectedSafe(rec, n),
         s = "Rejected" => n[rec[Len(rec)].transaction] \in {"absent", "refused"}
  PROVE  RejectedSafe(WithSubmission(rec, s), n)
  <1>1. DOMAIN rec = 1..Len(rec)
    BY DEF ExecutionRecord
  <1>2. QED
    BY <1>1, WithSubmissionWrites DEF RejectedSafe

LEMMA SignedHashSafe ==
  ASSUME NEW rec \in ExecutionRecord, rec # <<>>, NEW n, RejectedSafe(rec, n)
  PROVE  RejectedSafe(WithSignedHash(rec), n)
  <1>1. DOMAIN rec = 1..Len(rec)
    BY DEF ExecutionRecord
  <1>2. QED
    BY <1>1, WithSignedHashKeeps DEF RejectedSafe

(* The record of a sending process, with its last entry.                   *)
LEMMA SendingSafe ==
  ASSUME IInv, SInv, pc \in Sending, KeptOut
  PROVE  /\ record \in ExecutionRecord /\ record # <<>> /\ RejectedSafe(record, net')
         /\ record[Len(record)].transaction = This
         /\ journal = [file |-> "saved", record |-> record]
         /\ ApprovalThenSwap(record) /\ run # 0
  <1>1. RejectedSafe(record, net')
    BY VersionSafe, VersionsAre DEF IInv, SInv
  <1>2. record[Len(record)].transaction = This
    BY DEF IInv, EntryBeforeSend
  <1>3. QED
    BY <1>1, <1>2, SendingRecord DEF SInv, StoredShape, Runs

(* A call that ends while it sends, with a new version of its record.      *)
LEMMA SendEndsSafe ==
  ASSUME IInv, SInv, pc \in Sending, pc' = "idle", KeptOut,
         UNCHANGED <<run, archive, scanVars>>,
         record' \in ExecutionRecord, Len(record') = Len(record),
         \A i \in 1..Len(record) : record'[i].transaction = record[i].transaction,
         RejectedSafe(record', net'),
         journal' = journal \/ journal' = [file |-> "saved", record |-> record'],
         FailureIsFinal'
  PROVE  SInv'
  <1>1. /\ record \in ExecutionRecord /\ ApprovalThenSwap(record) /\ pc # "idle"
        /\ journal.record = record /\ journal'.record \in {record, record'}
        /\ journal'.file = "saved"
    BY SendingSafe DEF Sending
  <1>2. ApprovalThenSwap(record')
    BY <1>1, ShapeKept
  <1>3. NothingLeftOver' /\ StoredShape' /\ ScanLearns'
    BY <1>1, <1>2
    DEF SInv, NothingLeftOver, StoredShape, ScanLearns, Scanning, Sending, scanVars
  <1>4. RejectedNeverLands'
    <2>1. /\ record' \in Versions \union {<<>>, record'}
          /\ journal'.record \in Versions \union {<<>>, record'}
          /\ current' \in Versions \union {<<>>, record'}
          /\ updated' \in Versions \union {<<>>, record'}
          /\ \A r \in Runs : archive'[r] \in Versions \union {<<>>, record'}
      BY <1>1, VersionsAre DEF scanVars
    <2>2. QED
      BY <2>1, VersionsSafe DEF IInv, SInv
  <1>5. QED
    BY <1>1, <1>3, <1>4, EndedQuiet DEF SInv

LEMMA RejectSafe ==
  ASSUME IInv, SInv, pc \in Sending, NEW res, RejectSubmission(res), KeptOut,
         UNCHANGED <<runVars, archive>>, net'[This] \in {"absent", "refused"}
  PROVE  SInv'
  <1>1. /\ record' = WithSubmission(record, "Rejected") /\ "Rejected" \in SubmissionState
        /\ pc' = "idle" /\ UNCHANGED <<run, kind, archive, scanVars>>
        /\ journal' = journal \/ journal' = [file |-> "saved", record |-> record']
    BY DEF RejectSubmission, PersistFails, PersistFailed, Persisted, Return,
           SubmissionState, runVars
  <1>2. /\ record' \in ExecutionRecord /\ Len(record') = Len(record)
        /\ \A i \in 1..Len(record) : record'[i].transaction = record[i].transaction
    BY <1>1, SendingSafe, SubmissionSet, WithSubmissionWrites
  <1>3. RejectedSafe(record', net')
    BY <1>1, SendingSafe, SubmissionSafe
  <1>4. FailureIsFinal'
    BY <1>1, EndsUnsent
  <1>5. QED
    BY <1>1, <1>2, <1>3, <1>4, SendEndsSafe

LEMMA SignFailsSafe == ASSUME IInv, SInv, SignFails PROVE SInv'
  <1>1. PICK res \in {"Signing", "SignatureMismatch"} : RejectSubmission(res)
    BY DEF SignFails
  <1>2. /\ pc \in Sending /\ UNCHANGED <<networkVars, runVars, archive>> /\ KeptOut
    BY NetworkSame DEF SignFails, Sending
  <1>3. net'[This] = "absent"
    BY <1>2 DEF SInv, NotSentYet, networkVars, SignFails
  <1>4. QED
    BY <1>1, <1>2, <1>3, RejectSafe

(* A transaction that is refused is not on its way.                        *)
LEMMA Refuses ==
  ASSUME IInv, pc \in Sending, net' = [net EXCEPT ![This] = "refused"]
  PROVE  KeptOut /\ net'[This] = "refused"
  <1>1. This \in Transactions
    BY SendingRecord DEF IInv, TypeOK, This, Tx, Transactions
  <1>2. net \in [Transactions -> NetState]
    BY DEF IInv, TypeOK, NetworkTypeOK
  <1>3. QED
    BY <1>1, <1>2 DEF KeptOut

LEMMA UserRejectsSafe == ASSUME IInv, SInv, UserRejects PROVE SInv'
  <1>1. /\ pc \in Sending /\ UNCHANGED <<runVars, archive>> /\ RejectSubmission("Rejected")
        /\ net' = [net EXCEPT ![This] = "refused"]
    BY DEF UserRejects, Sending
  <1>2. QED
    BY <1>1, Refuses, RejectSafe

LEMMA SubmitterFailsSafe == ASSUME IInv, SInv, SubmitterFails PROVE SInv'
  <1>1. pc = "response" /\ pc \in Sending /\ pc \in Submitting /\ UNCHANGED <<runVars, archive>>
    BY DEF SubmitterFails, Sending, Submitting
  <1>2. PICK error \in SubmitErrors :
          /\ IF NotTaken(error)
             THEN net[This] = "flight" /\ net' = [net EXCEPT ![This] = "refused"]
             ELSE net' = net
          /\ IF IsRejection(error)
             THEN RejectSubmission("BroadcastRejected")
             ELSE Return("UnknownBroadcast") /\ UNCHANGED <<record, journal, scanVars>>
    BY DEF SubmitterFails
  <1>3. CASE IsRejection(error)
    <2>1. NotTaken(error)
      BY <1>3 DEF IsRejection, NotTaken
    <2>2. QED
      BY <1>1, <1>2, <1>3, <2>1, Refuses, RejectSafe
  <1>4. CASE ~IsRejection(error)
    <2>1. KeptOut
      BY <1>1, <1>2, Refuses DEF KeptOut
    <2>2. FailureIsFinal'
      BY <1>2, <1>4, OtherResult DEF Return, NotSent
    <2>3. QED
      BY <1>1, <1>2, <1>4, <2>1, <2>2, EndedQuiet, QuietSafe
      DEF Return, runVars, storeVars
  <1>5. QED
    BY <1>3, <1>4

(* Signing: the hash is learned, and the outcome only when it was too late. *)
LEMMA SignSafe == ASSUME IInv, SInv, Sign PROVE SInv'
  <1> DEFINE hashed == WithSignedHash(record)
  <1>1. /\ pc = "sign" /\ pc \in Sending /\ UNCHANGED <<networkVars, run, kind, signed, archive, scanVars>>
        /\ KeptOut
    BY NetworkSame DEF Sign, Sending, runVars
  <1>2. /\ record \in ExecutionRecord /\ record # <<>> /\ RejectedSafe(record, net')
        /\ record[Len(record)].transaction = This /\ Len(record) \in 1..Len(record)
        /\ ApprovalThenSwap(record)
    BY <1>1, SendingSafe, SendingRecord
  <1>3. /\ hashed \in ExecutionRecord /\ hashed # <<>> /\ Len(hashed) = Len(record)
        /\ \A i \in 1..Len(record) : /\ hashed[i].transaction = record[i].transaction
                                     /\ hashed[i].submission = record[i].submission
        /\ RejectedSafe(hashed, net')
    BY <1>1, <1>2, SignedHashSet, WithSignedHashKeeps, SignedHashSafe
  <1>4. net'[This] = "absent"
    BY <1>1 DEF SInv, NotSentYet, networkVars
  <1>5. \/ record' = hashed /\ pc' = "request" /\ result' = result
           /\ journal' = [file |-> "saved", record |-> record']
        \/ /\ pc' = "idle"
           /\ record' = hashed \/ record' = WithSubmission(hashed, "Rejected")
           /\ journal' = journal \/ journal' = [file |-> "saved", record |-> record']
    BY DEF Sign, SaveHash, Persisted, PersistFails, PersistFailed, Return, Goto
  <1> HIDE DEF hashed
  <1>6. CASE pc' = "idle"
    <2>1. record' = hashed \/ record' = WithSubmission(hashed, "Rejected")
      BY <1>5, <1>6
    <2>2. journal' = journal \/ journal' = [file |-> "saved", record |-> record']
      BY <1>5
    <2>3. hashed[Len(hashed)].transaction = This
      BY <1>2, <1>3
    <2>4. /\ record' \in ExecutionRecord /\ Len(record') = Len(record)
          /\ \A i \in 1..Len(record) : record'[i].transaction = record[i].transaction
          /\ RejectedSafe(record', net')
      <3>1. CASE record' = hashed
        BY <1>3, <3>1
      <3>2. CASE record' = WithSubmission(hashed, "Rejected")
        <4>1. "Rejected" \in SubmissionState
          BY DEF SubmissionState
        <4>2. RejectedSafe(record', net')
          BY <1>3, <1>4, <2>3, <3>2, <4>1, SubmissionSafe
        <4>3. record' \in ExecutionRecord
          BY <1>3, <3>2, <4>1, WithSubmissionKeeps
        <4>4. /\ Len(record') = Len(hashed)
              /\ \A i \in 1..Len(hashed) : record'[i].transaction = hashed[i].transaction
          BY <1>3, <3>2, <4>1, WithSubmissionWrites
        <4>5. QED
          BY <1>3, <4>2, <4>3, <4>4
      <3>3. QED
        BY <2>1, <3>1, <3>2
    <2>5. FailureIsFinal'
      BY <1>1, <1>4, EndsUnsent
    <2>6. QED
      BY <1>1, <1>6, <2>2, <2>4, <2>5, SendEndsSafe
  <1>7. CASE pc' = "request"
    <2>1. /\ record' = hashed /\ result' = result
          /\ journal' = [file |-> "saved", record |-> record']
      BY <1>5, <1>7
    <2>2. ApprovalThenSwap(record')
      BY <1>2, <1>3, <2>1, ShapeKept
    <2>3. NothingLeftOver' /\ StoredShape' /\ ScanLearns'
      BY <1>1, <1>7, <2>1, <2>2
      DEF SInv, NothingLeftOver, StoredShape, ScanLearns, Scanning, scanVars
    <2>4. NotSentYet'
      <3>1. record'[Len(record')].submission = "Unknown"
        BY <1>1, <1>2, <1>3, <2>1 DEF SInv, NotSentYet
      <3>2. This' = This
        BY <1>1 DEF This
      <3>3. QED
        BY <1>4, <1>7, <3>1, <3>2 DEF NotSentYet, Preparing
    <2>5. NoResultYet' /\ FailureIsFinal'
      BY <1>1, <1>7, <2>1, FinalKept DEF SInv, NoResultYet, UnderWay, Submitting
    <2>6. RejectedNeverLands'
      <3>1. /\ record' \in Versions \union {<<>>, record'}
            /\ journal'.record \in Versions \union {<<>>, record'}
            /\ current' \in Versions \union {<<>>, record'}
            /\ updated' \in Versions \union {<<>>, record'}
            /\ \A r \in Runs : archive'[r] \in Versions \union {<<>>, record'}
        BY <1>1, <2>1, VersionsAre DEF scanVars
      <3>2. RejectedSafe(record', net')
        BY <1>3, <2>1
      <3>3. QED
        BY <1>1, <3>1, <3>2, VersionsSafe DEF IInv, SInv
    <2>7. QED
      BY <2>3, <2>4, <2>5, <2>6 DEF SInv
  <1>8. QED
    BY <1>5, <1>6, <1>7

LEMMA PushSafe == ASSUME IInv, SInv, Push PROVE SInv'
  <1>1. /\ pc = "push" /\ pc \in Preparing /\ run \in Runs /\ kind \in Kinds
        /\ record \in ExecutionRecord /\ record' = Pushed(record) /\ KeptOut
        /\ UNCHANGED <<networkVars, run, kind, signed, archive, scanVars>>
    BY NetworkSame
    DEF IInv, TypeOK, MemoryIsDurable, Push, runVars, Preparing, Submitting
  <1> DEFINE n == Len(record)
  <1>2. /\ record' \in ExecutionRecord /\ Len(record') = n + 1 /\ n \in Nat
        /\ \A i \in 1..n : record'[i] = record[i]
        /\ record'[n + 1].transaction = This /\ record'[n + 1].submission = "Unknown"
    BY <1>1, PushedAppends, PushedFresh DEF Fresh, ExecutionRecord
  <1>3. record = <<>> \/ (ApprovalOnly(record) /\ kind = "Swap")
    BY <1>1 DEF SInv, NotSentYet, ApprovalOnly, Kinds
  <1>4. ApprovalThenSwap(record')
    <2>1. CASE record = <<>>
      BY <1>2, <2>1 DEF ApprovalThenSwap
    <2>2. CASE ApprovalOnly(record) /\ kind = "Swap"
      BY <1>2, <2>2 DEF ApprovalThenSwap, ApprovalOnly, This, Tx
    <2>3. QED
      BY <1>3, <2>1, <2>2
  <1>5. RejectedSafe(record', net')
    <2>1. RejectedSafe(record, net') /\ DOMAIN record = 1..n /\ DOMAIN record' = 1..(n + 1)
      BY <1>1, <1>2, VersionSafe, VersionsAre DEF IInv, SInv, ExecutionRecord
    <2>2. ASSUME NEW i \in 1..(n + 1), record'[i].submission = "Rejected"
          PROVE  net'[record'[i].transaction] \in {"absent", "refused"}
      <3>1. i # n + 1
        BY <1>2, <2>2
      <3>2. i \in 1..n
        BY <1>2, <3>1
      <3>3. QED
        BY <1>2, <2>1, <2>2, <3>2 DEF RejectedSafe
    <2>3. QED
      BY <2>1, <2>2 DEF RejectedSafe
  <1>6. net'[This] = "absent"
    BY <1>1, ThisUnsent DEF networkVars
  <1>7. ASSUME journal'.record \in {journal.record, <<>>, record'} PROVE RejectedNeverLands'
    <2>1. /\ record' \in Versions \union {<<>>, record'}
          /\ journal'.record \in Versions \union {<<>>, record'}
          /\ current' \in Versions \union {<<>>, record'}
          /\ updated' \in Versions \union {<<>>, record'}
          /\ \A r \in Runs : archive'[r] \in Versions \union {<<>>, record'}
      BY <1>1, <1>7, VersionsAre DEF scanVars
    <2>2. QED
      BY <1>1, <1>5, <2>1, VersionsSafe DEF IInv, SInv
  <1>8. CASE pc' \in {"sign", "request"} /\ result' = result
             /\ journal' = [file |-> "saved", record |-> record']
    <2>1. NothingLeftOver' /\ StoredShape' /\ ScanLearns'
      BY <1>1, <1>4, <1>8
      DEF SInv, NothingLeftOver, StoredShape, ScanLearns, Scanning, scanVars
    <2>2. NotSentYet'
      <3>1. This' = This /\ record'[Len(record')].submission = "Unknown"
        BY <1>1, <1>2 DEF This
      <3>2. QED
        BY <1>6, <1>8, <3>1 DEF NotSentYet, Preparing
    <2>3. NoResultYet' /\ FailureIsFinal'
      BY <1>1, <1>8, FinalKept DEF SInv, NoResultYet, UnderWay, Submitting
    <2>4. QED
      BY <1>7, <1>8, <2>1, <2>2, <2>3 DEF SInv
  <1>9. CASE pc' = "idle" /\ result' = "Persistence" /\ journal' \in {journal, TornFile}
    <2>1. NothingLeftOver' /\ StoredShape' /\ ScanLearns'
      BY <1>1, <1>9
      DEF SInv, NothingLeftOver, StoredShape, ScanLearns, Scanning, scanVars, TornFile,
          ApprovalThenSwap
    <2>2. FailureIsFinal'
      BY <1>9, OtherResult DEF NotSent
    <2>3. journal'.record \in {journal.record, <<>>, record'}
      BY <1>9 DEF TornFile
    <2>4. QED
      BY <1>1, <1>7, <1>9, <2>1, <2>2, <2>3, EndedQuiet DEF SInv
  <1>10. QED
    BY <1>8, <1>9 DEF Push, Goto, Persisted, PersistFails, PersistFailed, Return

(* The transaction leaves: no record rejects it.                           *)
LEMMA RequestSafe == ASSUME IInv, SInv, Request PROVE SInv'
  <1>1. /\ pc = "request" /\ pc \in Sending /\ pc \in Submitting /\ pc' = "response"
        /\ net' = [net EXCEPT ![This] = "flight"] /\ result' = result
        /\ UNCHANGED <<run, kind, signed, storeVars, scanVars, record>>
    BY DEF Request, Sending, Submitting, Goto, runVars
  <1>2. /\ net \in [Transactions -> NetState] /\ result = "none"
        /\ current = <<>> /\ updated = <<>>
    BY <1>1
    DEF IInv, TypeOK, NetworkTypeOK, SInv, NoResultYet, UnderWay, NothingLeftOver, Scanning
  <1>3. /\ record \in ExecutionRecord /\ journal.record = record /\ run \in Runs
        /\ ApprovalThenSwap(record) /\ RecordOf(record, run) /\ archive[run] = <<>>
        /\ record[Len(record)].transaction = This /\ Len(record) \in 1..Len(record)
        /\ record[Len(record)].submission = "Unknown"
    BY <1>1, SendingRecord DEF IInv, EntryBeforeSend, SInv, StoredShape, NotSentYet, Sending
  <1>4. ASSUME NEW v \in Versions, NEW i \in DOMAIN v, v[i].submission = "Rejected"
        PROVE  v[i].transaction # This
    <2>1. CASE v = record
      <3> DEFINE n == Len(record)
      <3>1. i \in 1..n /\ n <= 2 /\ i # n /\ n \in Nat
        BY <1>3, <1>4, <2>1 DEF ApprovalThenSwap, ExecutionRecord
      <3> HIDE DEF n
      <3>2. n = 2 /\ i = 1
        BY <3>1
      <3> USE DEF n
      <3>3. QED
        BY <1>3, <2>1, <3>2 DEF ApprovalThenSwap
    <2>2. CASE v \in {current, updated}
      BY <1>2, <1>4, <2>2
    <2>3. CASE \E r \in Runs : v = archive[r]
      <3>1. PICK r \in Runs : v = archive[r]
        BY <2>3
      <3>2. v \in ExecutionRecord /\ v # <<>>
        BY <1>4, <3>1 DEF IInv, TypeOK
      <3>3. r # run /\ RecordOf(v, r) /\ i \in 1..Len(v)
        BY <1>3, <1>4, <3>1, <3>2 DEF SInv, StoredShape, ExecutionRecord
      <3>4. v[i].transaction.run = r
        BY <3>3 DEF RecordOf
      <3>5. QED
        BY <3>3, <3>4 DEF This, Tx
    <2>4. QED
      BY <1>3, <2>1, <2>2, <2>3 DEF Versions
  <1>5. \A v \in Versions : \A i \in DOMAIN v : v[i].submission = "Rejected"
          => net'[v[i].transaction] \in {"absent", "refused"}
    <2>1. ASSUME NEW v \in Versions, NEW i \in DOMAIN v, v[i].submission = "Rejected"
          PROVE  net'[v[i].transaction] \in {"absent", "refused"}
      <3>1. v[i].transaction # This
        BY <1>4, <2>1
      <3>2. net[v[i].transaction] \in {"absent", "refused"}
        BY <2>1 DEF SInv, RejectedNeverLands, Versions
      <3>3. v[i] \in TransactionRecord
        BY <2>1 DEF IInv, TypeOK, Versions, ExecutionRecord
      <3>4. v[i].transaction \in Transactions
        BY <3>3 DEF TransactionRecord
      <3>5. QED
        BY <1>1, <1>2, <3>1, <3>2, <3>4
    <2>2. QED
      BY <2>1
  <1>6. RejectedNeverLands'
    <2>1. Versions' = Versions
      BY <1>1 DEF Versions, storeVars, scanVars
    <2>2. \A v \in Versions' : \A i \in DOMAIN v : v[i].submission = "Rejected"
            => net'[v[i].transaction] \in {"absent", "refused"}
      BY <1>5, <2>1
    <2>3. QED
      BY <2>2 DEF RejectedNeverLands, Versions
  <1>7. NothingLeftOver' /\ StoredShape' /\ NoResultYet' /\ ScanLearns'
    BY <1>1, <1>2
    DEF SInv, NothingLeftOver, StoredShape, NoResultYet, ScanLearns, Scanning, scanVars,
        storeVars
  <1>8. NotSentYet'
    BY <1>1 DEF SInv, NotSentYet, Preparing
  <1>9. FailureIsFinal'
    BY <1>1, <1>2, OtherResult DEF NotSent
  <1>10. QED
    BY <1>6, <1>7, <1>8, <1>9 DEF SInv

-----------------------------------------------------------------------------
(***************************************************************************)
(* check_status and wait.                                                  *)
(***************************************************************************)

LEMMA OneNewVersion ==
  ASSUME IInv, SInv, KeptOut, NEW rec, RejectedSafe(rec, net'), archive' = archive,
         record' \in {record, rec}, journal'.record \in {journal.record, rec},
         current' \in {current, <<>>, rec}, updated' \in {updated, <<>>, rec}
  PROVE  RejectedNeverLands'
  <1>1. /\ record' \in Versions \union {<<>>, rec}
        /\ journal'.record \in Versions \union {<<>>, rec}
        /\ current' \in Versions \union {<<>>, rec}
        /\ updated' \in Versions \union {<<>>, rec}
        /\ \A r \in Runs : archive'[r] \in Versions \union {<<>>, rec}
    BY VersionsAre
  <1>2. QED
    BY <1>1, VersionsSafe DEF IInv, SInv

LEMMA BeginStatusSafe ==
  ASSUME IInv, SInv, KeptOut, NEW rec, NEW who, BeginStatus(rec, who),
         UNCHANGED <<run, kind, archive>>, RejectedSafe(rec, net'),
         record' \in {record, rec}, journal'.record \in {journal.record, rec},
         journal'.file = "saved", ApprovalThenSwap(journal'.record),
         KeepsOutcomes(rec, journal'.record),
         who = "approval" => ApprovalOnly(record'), who # "resume" => UnderWay
  PROVE  SInv'
  <1>1. /\ pc' = "status" /\ caller' = who /\ current' = rec /\ updated' = rec
        /\ result' = result
    BY DEF BeginStatus, Goto
  <1>2. NothingLeftOver' /\ StoredShape' /\ ScanLearns'
    BY <1>1 DEF SInv, NothingLeftOver, StoredShape, ScanLearns, Scanning
  <1>3. NotSentYet'
    BY <1>1 DEF NotSentYet, Preparing
  <1>4. NoResultYet'
    BY <1>1 DEF SInv, NoResultYet, UnderWay, Submitting
  <1>5. RejectedNeverLands'
    BY <1>1, OneNewVersion
  <1>6. FailureIsFinal'
    BY <1>1, FinalKept
  <1>7. QED
    BY <1>2, <1>3, <1>4, <1>5, <1>6 DEF SInv

LEMMA SelfKeeps == ASSUME NEW rec PROVE KeepsOutcomes(rec, rec)
  BY DEF KeepsOutcomes

LEMMA HashReturnedSafe == ASSUME IInv, SInv, HashReturned PROVE SInv'
  <1>1. /\ pc = "response" /\ pc \in Sending /\ UnderWay /\ KeptOut
        /\ record' = WithSubmission(record, "Submitted") /\ "Submitted" \in SubmissionState
        /\ UNCHANGED <<run, kind, archive>>
    BY NetworkSame
    DEF HashReturned, AcceptSubmission, Sending, Submitting, UnderWay, SubmissionState, runVars
  <1>2. /\ record' \in ExecutionRecord /\ Len(record') = Len(record)
        /\ \A i \in 1..Len(record) : record'[i].transaction = record[i].transaction
    BY <1>1, SendingSafe, SubmissionSet, WithSubmissionWrites
  <1>3. RejectedSafe(record', net')
    BY <1>1, SendingSafe, SubmissionSafe
  <1>4. ApprovalThenSwap(record') /\ (kind = "Approval" => ApprovalOnly(record'))
    <2>1. record \in ExecutionRecord /\ ApprovalThenSwap(record)
      BY <1>1, SendingSafe
    <2>2. QED
      BY <1>1, <1>2, <2>1, ShapeKept, SendingApproval
  <1>5. CASE PersistFails(FALSE) /\ UNCHANGED scanVars
    <2>1. journal' = journal /\ pc' = "idle" /\ result' = "Persistence"
      BY <1>5 DEF PersistFails, PersistFailed, Return
    <2>2. FailureIsFinal'
      BY <2>1, OtherResult DEF NotSent
    <2>3. QED
      BY <1>1, <1>2, <1>3, <1>5, <2>1, <2>2, SendEndsSafe
  <1>6. CASE Persisted(FALSE, record') /\ kind = "Approval" /\ BeginStatus(record', "approval")
    <2>1. journal' = [file |-> "saved", record |-> record']
      BY <1>6 DEF Persisted
    <2>2. QED
      BY <1>1, <1>3, <1>4, <1>6, <2>1, SelfKeeps, BeginStatusSafe
  <1>7. CASE Persisted(FALSE, record') /\ Goto("submitted") /\ UNCHANGED scanVars
    <2>1. /\ journal' = [file |-> "saved", record |-> record'] /\ pc' = "submitted"
          /\ result' = result /\ UNCHANGED scanVars
      BY <1>7 DEF Persisted, Goto
    <2>2. NothingLeftOver' /\ StoredShape' /\ ScanLearns'
      BY <1>1, <1>4, <2>1
      DEF SInv, NothingLeftOver, StoredShape, ScanLearns, Scanning, scanVars
    <2>3. NotSentYet' /\ NoResultYet'
      BY <1>1, <2>1 DEF SInv, NotSentYet, NoResultYet, UnderWay, Preparing
    <2>4. RejectedNeverLands'
      BY <1>1, <1>3, <2>1, OneNewVersion DEF scanVars
    <2>5. FailureIsFinal'
      BY <1>1, <2>1, FinalKept
    <2>6. QED
      BY <2>2, <2>3, <2>4, <2>5 DEF SInv
  <1>8. QED
    BY <1>5, <1>6, <1>7 DEF HashReturned, AcceptSubmission

LEMMA AfterSubmitSafe == ASSUME IInv, SInv, AfterSubmit PROVE SInv'
  <1>1. /\ pc = "submitted" /\ pc \in Sending /\ pc \in Submitting /\ UnderWay /\ KeptOut
        /\ UNCHANGED <<run, kind, signed, storeVars, record>>
    BY NetworkSame DEF AfterSubmit, Sending, Submitting, UnderWay, runVars
  <1>2. CASE Return("Pending") /\ UNCHANGED scanVars
    BY <1>1, <1>2, EndedQuiet, OtherResult, QuietSafe DEF Return, NotSent
  <1>3. CASE BeginStatus(record, "swap")
    <2>1. /\ RejectedSafe(record, net') /\ ApprovalThenSwap(record)
          /\ journal' = [file |-> "saved", record |-> record] /\ archive' = archive
      BY <1>1, SendingSafe DEF storeVars
    <2>2. QED
      BY <1>1, <1>3, <2>1, SelfKeeps, BeginStatusSafe
  <1>4. QED
    BY <1>2, <1>3 DEF AfterSubmit

LEMMA PollSafe == ASSUME IInv, SInv, Poll PROVE SInv'
  <1>1. /\ pc = "poll" /\ BeginStatus(current, caller) /\ KeptOut
        /\ UNCHANGED <<run, kind, journal, archive, record>>
    BY NetworkSame DEF Poll, runVars, storeVars
  <1>2. /\ journal.file = "saved" /\ KeepsOutcomes(current, journal.record)
        /\ ApprovalThenSwap(journal.record)
        /\ caller = "approval" => ApprovalOnly(record)
    BY <1>1 DEF IInv, ScanOfJournal, SInv, ScanLearns, StoredShape, NotSentYet, Scanning
  <1>3. RejectedSafe(current, net')
    BY <1>1, VersionSafe, VersionsAre DEF IInv, SInv
  <1>4. caller # "resume" => UnderWay
    BY <1>1 DEF UnderWay
  <1>5. /\ journal'.file = "saved" /\ ApprovalThenSwap(journal'.record)
        /\ KeepsOutcomes(current, journal'.record)
        /\ caller = "approval" => ApprovalOnly(record')
        /\ record' \in {record, current} /\ journal'.record \in {journal.record, current}
    BY <1>1, <1>2
  <1>6. QED
    BY <1>1, <1>3, <1>4, <1>5, BeginStatusSafe

LEMMA ResumeSafe == ASSUME IInv, SInv, Resume PROVE SInv'
  <1>1. /\ journal.file = "saved" /\ BeginStatus(journal.record, "resume") /\ KeptOut
        /\ UNCHANGED <<run, kind, journal, archive, record>>
    BY NetworkSame DEF Resume, runVars, storeVars
  <1>2. RejectedSafe(journal.record, net') /\ ApprovalThenSwap(journal.record)
    BY <1>1, VersionSafe, VersionsAre DEF IInv, SInv, StoredShape
  <1>3. QED
    BY <1>1, <1>2, SelfKeeps, BeginStatusSafe

(* The result is presented: the caller has it, and saves it.               *)
LEMMA BeginPresentSafe ==
  ASSUME IInv, SInv, KeptOut, pc # "idle", NEW rec, NEW v, BeginPresent(rec, v),
         UNCHANGED <<run, kind, archive>>, RejectedSafe(rec, net'),
         record' \in {record, rec}, journal'.record \in {journal.record, rec},
         journal'.file = "saved", ApprovalThenSwap(journal'.record),
         KeepsOutcomes(rec, journal'.record)
  PROVE  SInv'
  <1>1. /\ pc' = "present" /\ current' = rec /\ updated' = <<>> /\ result' = result
    BY DEF BeginPresent, Goto
  <1>2. NothingLeftOver' /\ StoredShape' /\ ScanLearns'
    BY <1>1 DEF SInv, NothingLeftOver, StoredShape, ScanLearns, Scanning
  <1>3. NotSentYet' /\ NoResultYet'
    BY <1>1 DEF IInv, NothingYet, NotSentYet, NoResultYet, UnderWay, Preparing, Submitting
  <1>4. RejectedNeverLands'
    BY <1>1, OneNewVersion
  <1>5. FailureIsFinal'
    BY <1>1, FinalKept
  <1>6. QED
    BY <1>2, <1>3, <1>4, <1>5 DEF SInv

(* wait ends, with a record as good as the journal's.                      *)
LEMMA WaitReturnsSafe ==
  ASSUME IInv, SInv, ScanFrame, pc \in {"status", "poll"}, caller # "resume",
         NEW rec \in ExecutionRecord, SameEntries(rec, journal.record),
         KeepsOutcomes(rec, journal.record), RejectedSafe(rec, net'),
         NEW v \in Statuses, WaitReturns(rec, v)
  PROVE  SInv'
  <1>1. /\ record' = rec /\ KeptOut /\ pc # "idle" /\ UNCHANGED <<run, kind, archive>>
        /\ journal.file = "saved" /\ journal.record \in ExecutionRecord /\ UnderWay
        /\ journal.record = record
    BY NetworkSame
    DEF WaitReturns, ScanFrame, runVars, IInv, TypeOK, ScanOfJournal, Scanning, UnderWay,
        MemoryIsDurable
  <1>2. /\ ApprovalThenSwap(journal.record) /\ ApprovalThenSwap(rec)
        /\ caller = "approval" => ApprovalOnly(rec)
    <2>1. ApprovalThenSwap(journal.record) /\ (caller = "approval" => ApprovalOnly(record))
      BY DEF SInv, StoredShape, NotSentYet
    <2>2. /\ Len(rec) = Len(journal.record)
          /\ \A i \in 1..Len(journal.record) :
               rec[i].transaction = journal.record[i].transaction
      BY DEF SameEntries
    <2>3. QED
      BY <1>1, <2>1, <2>2, ShapeKept
  <1>3. CASE /\ pc' \in {"idle", "refresh"} /\ ClearScan
             /\ journal' = journal \/ journal' = [file |-> "saved", record |-> rec]
             /\ pc' = "idle" => result' \notin NotSent
             /\ pc' = "refresh" => result' = result /\ caller = "approval"
    <2>1. NothingLeftOver' /\ StoredShape' /\ ScanLearns'
      BY <1>1, <1>2, <1>3
      DEF SInv, NothingLeftOver, StoredShape, ScanLearns, Scanning, ClearScan
    <2>2. NotSentYet'
      BY <1>1, <1>2, <1>3 DEF NotSentYet, Preparing
    <2>3. result = "none" /\ run # 0
      BY <1>1 DEF SInv, NoResultYet, IInv, NothingYet
    <2>4. NoResultYet' /\ FailureIsFinal'
      BY <1>1, <1>3, <2>3, OtherResult DEF NoResultYet, UnderWay, Submitting, NotSent
    <2>5. RejectedNeverLands'
      BY <1>1, <1>3, OneNewVersion DEF ClearScan
    <2>6. QED
      BY <2>1, <2>2, <2>4, <2>5 DEF SInv
  <1>4. CASE BeginPresent(rec, v) /\ journal' = [file |-> "saved", record |-> rec]
    BY <1>1, <1>2, <1>4, SelfKeeps, BeginPresentSafe
  <1>5. QED
    BY <1>3, <1>4
    DEF WaitReturns, Persisted, PersistFails, PersistFailed, Return, Goto, NotSent

LEMMA WaitTimesOutSafe == ASSUME IInv, SInv, WaitTimesOut PROVE SInv'
  <1>1. /\ pc \in {"status", "poll"} /\ caller # "resume" /\ WaitReturns(current, "Pending")
        /\ ScanFrame /\ KeptOut
    BY NetworkSame DEF WaitTimesOut, Waiting, ScanFrame
  <1>2. /\ current \in ExecutionRecord /\ SameEntries(current, journal.record)
        /\ KeepsOutcomes(current, journal.record) /\ "Pending" \in Statuses
    BY <1>1 DEF IInv, TypeOK, ScanOfJournal, SInv, ScanLearns, Scanning, Statuses
  <1>3. RejectedSafe(current, net')
    BY <1>1, VersionSafe, VersionsAre DEF IInv, SInv
  <1>4. QED
    BY <1>1, <1>2, <1>3, WaitReturnsSafe

LEMMA StatusReturnsSafe ==
  ASSUME IInv, SInv, ScanFrame, pc = "status",
         NEW rec \in ExecutionRecord, SameEntries(rec, journal.record),
         KeepsOutcomes(rec, journal.record), RejectedSafe(rec, net'),
         NEW v \in Statuses, StatusReturns(rec, v)
  PROVE  SInv'
  <1>1. /\ KeptOut /\ pc # "idle" /\ UNCHANGED <<run, kind, archive>>
        /\ journal.file = "saved" /\ ApprovalThenSwap(journal.record)
    BY NetworkSame
    DEF ScanFrame, runVars, IInv, ScanOfJournal, Scanning, SInv, StoredShape
  <1>2. CASE caller = "resume"
    <2>1. UNCHANGED <<record, journal>>
          /\ ((Return("Pending") /\ ClearScan) \/ BeginPresent(rec, v))
      BY <1>2 DEF StatusReturns
    <2>2. CASE Return("Pending") /\ ClearScan
      BY <1>1, <2>1, <2>2, ScanEndsSafe DEF Return, NotSent, storeVars
    <2>3. CASE BeginPresent(rec, v)
      BY <1>1, <2>1, <2>3, BeginPresentSafe
    <2>4. QED
      BY <2>1, <2>2, <2>3
  <1>3. CASE caller # "resume" /\ v = "Pending"
    <2>1. /\ current' = rec /\ pc' = "poll" /\ result' = result
          /\ UNCHANGED <<caller, updated, record, journal>>
      BY <1>3 DEF StatusReturns, Goto
    <2>2. NothingLeftOver' /\ StoredShape' /\ ScanLearns'
      BY <1>1, <2>1 DEF SInv, NothingLeftOver, StoredShape, ScanLearns, Scanning
    <2>3. NotSentYet' /\ NoResultYet'
      BY <1>1, <1>3, <2>1 DEF SInv, NotSentYet, NoResultYet, UnderWay, Preparing
    <2>4. RejectedNeverLands'
      BY <1>1, <2>1, OneNewVersion
    <2>5. FailureIsFinal'
      BY <1>1, <2>1, FinalKept
    <2>6. QED
      BY <2>2, <2>3, <2>4, <2>5 DEF SInv
  <1>4. CASE caller # "resume" /\ v # "Pending"
    BY <1>4, WaitReturnsSafe DEF StatusReturns
  <1>5. QED
    BY <1>2, <1>3, <1>4

LEMMA NextEntrySafe ==
  ASSUME IInv, SInv, ScanFrame, pc = "status",
         NEW rec \in ExecutionRecord, SameEntries(rec, journal.record),
         KeepsOutcomes(rec, journal.record), RejectedSafe(rec, net'),
         NEW v \in Statuses, NextEntry(rec, v)
  PROVE  SInv'
  <1>1. CASE cursor = Len(rec)
    BY <1>1, StatusReturnsSafe DEF NextEntry
  <1>2. CASE cursor # Len(rec)
    <2>1. /\ updated' = rec /\ UNCHANGED <<pc, result, caller, current, record, journal>>
          /\ KeptOut /\ UNCHANGED <<run, kind, archive>>
      BY <1>2, NetworkSame DEF NextEntry, ScanFrame, runVars
    <2>2. NothingLeftOver' /\ StoredShape' /\ ScanLearns'
      BY <2>1 DEF SInv, NothingLeftOver, StoredShape, ScanLearns, Scanning
    <2>3. NotSentYet' /\ NoResultYet'
      BY <2>1 DEF SInv, NotSentYet, NoResultYet, UnderWay, Preparing
    <2>4. RejectedNeverLands'
      BY <2>1, OneNewVersion
    <2>5. FailureIsFinal'
      BY <2>1, FinalKept
    <2>6. QED
      BY <2>2, <2>3, <2>4, <2>5 DEF SInv
  <1>3. QED
    BY <1>1, <1>2

(* The entry check_status looks at, in both records.                       *)
LEMMA ScannedEntry ==
  ASSUME IInv, SInv, ScanFrame, pc = "status"
  PROVE  /\ updated \in ExecutionRecord /\ journal.record \in ExecutionRecord
         /\ cursor \in 1..Len(updated) /\ verdict \in Statuses
         /\ SameEntries(updated, journal.record) /\ KeepsOutcomes(updated, journal.record)
         /\ RejectedSafe(updated, net') /\ KeptOut
         /\ DOMAIN updated = 1..Len(updated) /\ Len(journal.record) = Len(updated)
  <1>1. /\ updated \in ExecutionRecord /\ journal.record \in ExecutionRecord
        /\ cursor \in 1..Len(updated) /\ verdict \in Statuses
        /\ SameEntries(updated, journal.record) /\ KeepsOutcomes(updated, journal.record)
    BY DEF IInv, TypeOK, ScanOfJournal, SInv, ScanLearns
  <1>2. KeptOut
    BY NetworkSame DEF ScanFrame
  <1>3. RejectedSafe(updated, net')
    BY <1>2, VersionSafe, VersionsAre DEF IInv, SInv
  <1>4. DOMAIN updated = 1..Len(updated) /\ Len(journal.record) = Len(updated)
    BY <1>1 DEF SameEntries, ExecutionRecord
  <1>5. QED
    BY <1>1, <1>2, <1>3, <1>4

(* The version of the record EntryNotMined makes: only a receipt goes.     *)
NotMinedRecord == [updated EXCEPT ![cursor].receipt = "none"]

LEMMA NotMinedVersion ==
  ASSUME IInv, SInv, ScanFrame, pc = "status"
  PROVE  /\ NotMinedRecord \in ExecutionRecord
         /\ SameEntries(NotMinedRecord, updated)
         /\ SameEntries(NotMinedRecord, journal.record)
         /\ KeepsOutcomes(NotMinedRecord, journal.record)
         /\ RejectedSafe(NotMinedRecord, net')
         /\ Len(NotMinedRecord) = Len(updated) /\ DOMAIN NotMinedRecord = 1..Len(updated)
         /\ \A j \in 1..Len(updated) : j # cursor => NotMinedRecord[j] = updated[j]
         /\ NotMinedRecord[cursor].receipt = "none"
  <1> DEFINE rec == [updated EXCEPT ![cursor].receipt = "none"]
  <1>1. /\ updated \in ExecutionRecord /\ journal.record \in ExecutionRecord
        /\ cursor \in 1..Len(updated) /\ "none" \in Receipts
        /\ SameEntries(updated, journal.record) /\ KeepsOutcomes(updated, journal.record)
        /\ RejectedSafe(updated, net')
        /\ DOMAIN updated = 1..Len(updated) /\ Len(journal.record) = Len(updated)
    BY ScannedEntry DEF Receipts
  <1>2. rec \in ExecutionRecord /\ SameEntries(rec, updated)
    BY <1>1, ReceiptKeeps
  <1>3. /\ Len(rec) = Len(updated) /\ rec[cursor].receipt = "none"
        /\ \A j \in 1..Len(updated) : /\ rec[j].transaction = updated[j].transaction
                                      /\ rec[j].submission = updated[j].submission
                                      /\ j # cursor => rec[j] = updated[j]
    BY <1>1, ReceiptWrites
  <1>4. NotMinedRecord = rec
    BY DEF NotMinedRecord
  <1> HIDE DEF rec
  <1>5. SameEntries(rec, journal.record)
    BY <1>1, <1>2, SameEntriesCarries
  <1>6. KeepsOutcomes(rec, journal.record)
    BY <1>1, <1>3 DEF KeepsOutcomes
  <1>7. DOMAIN rec = 1..Len(updated)
    BY <1>2, <1>3 DEF ExecutionRecord
  <1>8. RejectedSafe(rec, net')
    BY <1>1, <1>3, <1>7 DEF RejectedSafe
  <1>9. QED
    BY <1>2, <1>3, <1>4, <1>5, <1>6, <1>7, <1>8

(* The version EntryMined makes: the entry was submitted, and is mined.    *)
MinedRecord == [updated EXCEPT ![cursor].submission = "Submitted",
                               ![cursor].receipt = Receipt(updated[cursor].transaction)]

LEMMA MinedVersion ==
  ASSUME IInv, SInv, ScanFrame, pc = "status", HashKnown(updated[cursor])
  PROVE  /\ MinedRecord \in ExecutionRecord
         /\ SameEntries(MinedRecord, updated)
         /\ SameEntries(MinedRecord, journal.record)
         /\ KeepsOutcomes(MinedRecord, journal.record)
         /\ RejectedSafe(MinedRecord, net')
         /\ Len(MinedRecord) = Len(updated) /\ DOMAIN MinedRecord = 1..Len(updated)
         /\ \A j \in 1..Len(updated) : j # cursor => MinedRecord[j] = updated[j]
         /\ MinedRecord[cursor].submission = "Submitted"
         /\ MinedRecord[cursor].receipt = Receipt(updated[cursor].transaction)
  <1> DEFINE p == Receipt(updated[cursor].transaction)
             rec == [updated EXCEPT ![cursor].submission = "Submitted",
                                    ![cursor].receipt = p]
  <1>1. /\ updated \in ExecutionRecord /\ journal.record \in ExecutionRecord
        /\ cursor \in 1..Len(updated) /\ "Submitted" \in SubmissionState
        /\ SameEntries(updated, journal.record) /\ KeepsOutcomes(updated, journal.record)
        /\ RejectedSafe(updated, net')
        /\ DOMAIN updated = 1..Len(updated) /\ Len(journal.record) = Len(updated)
    BY ScannedEntry DEF SubmissionState
  <1>2. p \in Receipts
    BY ReceiptType
  <1>3. MinedRecord = rec
    BY DEF MinedRecord
  <1> HIDE DEF p
  <1>4. rec \in ExecutionRecord /\ SameEntries(rec, updated)
    BY <1>1, <1>2, MinedKeeps
  <1>5. /\ Len(rec) = Len(updated) /\ rec[cursor].submission = "Submitted"
        /\ rec[cursor].receipt = p
        /\ \A j \in 1..Len(updated) : /\ rec[j].transaction = updated[j].transaction
                                      /\ j # cursor => rec[j] = updated[j]
    BY <1>1, <1>2, MinedWrites
  <1> HIDE DEF rec
  <1>6. SameEntries(rec, journal.record)
    BY <1>1, <1>4, SameEntriesCarries
  <1>7. KeepsOutcomes(rec, journal.record)
    <2>1. updated[cursor].submission \in {"Submitted", "Unknown"}
      BY DEF HashKnown
    <2>2. QED
      BY <1>1, <1>5, <2>1 DEF KeepsOutcomes
  <1>8. DOMAIN rec = 1..Len(updated)
    BY <1>4, <1>5 DEF ExecutionRecord
  <1>9. RejectedSafe(rec, net')
    BY <1>1, <1>5, <1>8 DEF RejectedSafe
  <1>10. QED
    BY <1>3, <1>4, <1>5, <1>6, <1>7, <1>8, <1>9 DEF p

(* What check_status can do with an entry.                                 *)
LEMMA CheckEntryCases ==
  ASSUME IInv, SInv, CheckEntry
  PROVE  LET e == updated[cursor] IN
         \/ /\ ~HashKnown(e) /\ e.submission = "Unknown" /\ NextEntry(updated, "Pending")
         \/ e.submission = "Rejected" /\ StatusReturns(updated, "Failed")
         \/ /\ Receipt(e.transaction) = "none" /\ NextEntry(NotMinedRecord, "Pending")
         \/ /\ Return("TransactionMismatch") /\ ClearScan /\ UNCHANGED <<record, journal>>
         \/ /\ HashKnown(e) /\ Mined(e.transaction) /\ e.transaction \notin altered
            /\ \/ /\ Receipt(e.transaction) = "success" /\ NextEntry(MinedRecord, verdict)
               \/ /\ Receipt(e.transaction) # "success" /\ StatusReturns(MinedRecord, "Failed")
  <1> DEFINE e == updated[cursor]
  <1>1. EntryUnknown(e) \/ EntryRejected(e) \/ EntryNotMined(e) \/ EntryDiffers(e) \/ EntryMined(e)
    BY DEF CheckEntry
  <1>2. CASE EntryUnknown(e)
    BY <1>2 DEF EntryUnknown
  <1>3. CASE EntryRejected(e)
    BY <1>3 DEF EntryRejected
  <1>4. CASE EntryNotMined(e)
    BY <1>4 DEF EntryNotMined, NotMinedRecord
  <1>5. CASE EntryDiffers(e)
    BY <1>5 DEF EntryDiffers
  <1>6. CASE EntryMined(e)
    BY <1>6 DEF EntryMined, MinedRecord
  <1>7. QED
    BY <1>1, <1>2, <1>3, <1>4, <1>5, <1>6

LEMMA CheckEntrySafe == ASSUME IInv, SInv, CheckEntry PROVE SInv'
  <1>1. pc = "status" /\ ScanFrame /\ "Pending" \in Statuses /\ "Failed" \in Statuses
    BY DEF CheckEntry, ScanFrame, Statuses
  <1>2. /\ updated \in ExecutionRecord /\ SameEntries(updated, journal.record)
        /\ KeepsOutcomes(updated, journal.record) /\ RejectedSafe(updated, net')
        /\ verdict \in Statuses /\ KeptOut
    BY <1>1, ScannedEntry
  <1>3. CASE NextEntry(updated, "Pending")
    BY <1>1, <1>2, <1>3, NextEntrySafe
  <1>4. CASE StatusReturns(updated, "Failed")
    BY <1>1, <1>2, <1>4, StatusReturnsSafe
  <1>5. CASE NextEntry(NotMinedRecord, "Pending")
    BY <1>1, <1>5, NotMinedVersion, NextEntrySafe
  <1>6. CASE Return("TransactionMismatch") /\ ClearScan /\ UNCHANGED <<record, journal>>
    <2>1. /\ pc # "idle" /\ pc' = "idle" /\ ClearScan /\ run' = run /\ UNCHANGED storeVars
          /\ result' = "TransactionMismatch" /\ record' = record
      BY <1>1, <1>6 DEF Return, ScanFrame, runVars, storeVars
    <2>2. QED
      BY <1>2, <2>1, ScanEndsSafe DEF NotSent
  <1>7. CASE HashKnown(updated[cursor]) /\ NextEntry(MinedRecord, verdict)
    BY <1>1, <1>2, <1>7, MinedVersion, NextEntrySafe
  <1>8. CASE HashKnown(updated[cursor]) /\ StatusReturns(MinedRecord, "Failed")
    BY <1>1, <1>8, MinedVersion, StatusReturnsSafe
  <1>9. QED
    BY <1>3, <1>4, <1>5, <1>6, <1>7, <1>8, CheckEntryCases

LEMMA PresentSafe == ASSUME IInv, SInv, Present PROVE SInv'
  <1> DEFINE saved == [file |-> "saved", record |-> current]
             r == current[1].transaction.run
  <1>1. /\ pc = "present" /\ pc' = "idle" /\ ClearScan /\ KeptOut /\ result' = verdict
        /\ UNCHANGED <<run, record>>
    BY NetworkSame DEF Present, Return, runVars
  <1>2. /\ journal.file = "saved" /\ SameEntries(current, journal.record)
        /\ journal.record \in ExecutionRecord /\ current \in ExecutionRecord
        /\ archive \in [Runs -> ExecutionRecord] /\ verdict \in Statuses
        /\ ApprovalThenSwap(journal.record)
    BY <1>1 DEF IInv, TypeOK, ScanOfJournal, Scanning, SInv, StoredShape
  <1>3. FailureIsFinal'
    BY <1>1, <1>2, OtherResult DEF Statuses, NotSent
  <1>4. NotSentYet' /\ NoResultYet'
    BY <1>1, EndedQuiet
  <1>5. CASE journal' \in {journal, saved} /\ archive' = archive
    <2>1. ApprovalThenSwap(current)
      BY <1>2, ShapeKept DEF SameEntries
    <2>2. NothingLeftOver' /\ StoredShape' /\ ScanLearns'
      BY <1>1, <1>2, <1>5, <2>1
      DEF SInv, NothingLeftOver, StoredShape, ScanLearns, Scanning, ClearScan
    <2>3. RejectedNeverLands'
      BY <1>1, <1>5, SameVersionsSafe, VersionsAre DEF ClearScan
    <2>4. QED
      BY <1>3, <1>4, <2>2, <2>3 DEF SInv
  <1>6. CASE journal' = NoJournal /\ archive' = [archive EXCEPT ![r] = current]
    <2>1. PICK q \in Runs : RecordOf(journal.record, q)
      BY <1>2 DEF IInv, JournalOfOneRun
    <2>2. RecordOf(current, q)
      BY <1>2, <2>1, SameEntriesCarries
    <2>3. r = q
      <3>1. 1 \in 1..Len(current)
        BY <1>2, <2>2 DEF RecordOf, ExecutionRecord
      <3>2. QED
        BY <2>2, <3>1 DEF RecordOf
    <2> HIDE DEF r
    <2>4. \A x \in Runs : archive'[x] = IF x = q THEN current ELSE archive[x]
      BY <1>2, <1>6, <2>1, <2>3
    <2>5. NothingLeftOver' /\ StoredShape' /\ ScanLearns'
      BY <1>1, <1>6, <2>2, <2>4
      DEF SInv, NothingLeftOver, StoredShape, ScanLearns, Scanning, ClearScan, NoJournal,
          ApprovalThenSwap
    <2>6. RejectedNeverLands'
      BY <1>1, <1>6, <2>4, SameVersionsSafe, VersionsAre DEF ClearScan, NoJournal
    <2>7. QED
      BY <1>3, <1>4, <2>5, <2>6 DEF SInv
  <1>7. QED
    BY <1>5, <1>6 DEF Present

-----------------------------------------------------------------------------
(***************************************************************************)
(* The theorems.                                                           *)
(***************************************************************************)

LEMMA NextSafe == IInv /\ SInv /\ [Next]_vars => SInv'
  <1> SUFFICES ASSUME IInv, SInv, [Next]_vars PROVE SInv'
    OBVIOUS
  <1>1. CASE StartRun \/ Resume \/ WaitTimesOut \/ Crash \/ Expire \/ World
    BY <1>1, StartRunSafe, ResumeSafe, WaitTimesOutSafe, CrashSafe, ExpireSafe, WorldSafe
  <1>2. CASE Process
    BY <1>2, CheckFundingSafe, NeedsApprovalSafe, RefreshSafe, CheckPassesSafe,
       CheckFailsSafe, PushSafe, SignFailsSafe, SignSafe, RequestSafe,
       HashReturnedSafe, UserRejectsSafe, WalletFailsSafe, SubmitterFailsSafe,
       AfterSubmitSafe, CheckEntrySafe, StatusFailsSafe, PollSafe, PresentSafe
    DEF Process
  <1>3. CASE Rest \/ UNCHANGED vars
    BY <1>3, StutterSafe DEF Rest
  <1>4. QED
    BY <1>1, <1>2, <1>3 DEF Next

(* Both invariants hold in every reachable state.                          *)
THEOREM SafetyInvariantHolds == Spec => []SafetyInvariant
  <1>1. Init => IInv /\ SInv
    BY InitIInv, InitSInv
  <1>2. (IInv /\ SInv) /\ [Next]_vars => (IInv /\ SInv)'
    BY NextKeeps, NextSafe
  <1>3. QED
    BY <1>1, <1>2, PTL DEF Spec, SafetyInvariant

(* What a record, the journal or the archive calls Rejected never reaches  *)
(* the chain, for every number of runs and of reorgs.                      *)
THEOREM RejectedNeverLandsHolds == Spec => []RejectedNeverLands
  <1>1. SInv => RejectedNeverLands
    BY DEF SInv
  <1>2. QED
    BY <1>1, SafetyInvariantHolds, PTL DEF SafetyInvariant

(* A failure that says nothing was sent is never refuted by the chain.     *)
THEOREM FailureIsFinalHolds == Spec => []FailureIsFinal
  <1>1. SInv => FailureIsFinal
    BY DEF SInv
  <1>2. QED
    BY <1>1, SafetyInvariantHolds, PTL DEF SafetyInvariant

(* A locally signed swap that may take effect is the one                   *)
(* ExecutionRecord::swap_hash finds in the journal of its unarchived run.  *)
LEMMA SwapIsFound == IInv /\ SInv => SwapAlwaysFindable
  <1> SUFFICES ASSUME IInv, SInv, NEW r \in Runs, r \in signed,
                      net[Tx(r, "Swap")] \in {"flight", "public"}, archive[r] = <<>>
               PROVE  SwapHash(journal.record) = {Tx(r, "Swap")}
    BY DEF SwapAlwaysFindable
  <1> DEFINE swap == Tx(r, "Swap")
             rec == journal.record
             known == {i \in DOMAIN rec : rec[i].transaction.kind = "Swap" /\ HashKnown(rec[i])}
  <1>1. swap \in Transactions /\ swap.run = r /\ swap.kind = "Swap"
    BY DEF Tx, Transactions, Kinds
  <1>2. rec \in ExecutionRecord /\ DOMAIN rec = 1..Len(rec) /\ Len(rec) \in Nat
    BY DEF IInv, TypeOK, ExecutionRecord
  <1>3. PICK i \in 1..Len(rec) : rec[i].transaction = swap /\ rec[i].signed_hash = "known"
    <2>1. PICK i \in DOMAIN Durable(r) :
            /\ Durable(r)[i].transaction = swap
            /\ r \in signed => Durable(r)[i].signed_hash = "known"
      BY <1>1 DEF IInv, WriteAhead
    <2>2. Durable(r) = rec
      BY <2>1 DEF Durable
    <2>3. QED
      BY <1>2, <2>1, <2>2
  <1>4. HashKnown(rec[i])
    <2>1. rec[i].submission # "Rejected"
      BY <1>2, <1>3 DEF SInv, RejectedNeverLands
    <2>2. rec[i] \in TransactionRecord
      BY <1>2 DEF ExecutionRecord
    <2>3. rec[i].submission \in SubmissionState
      BY <2>2 DEF TransactionRecord
    <2>4. QED
      BY <1>3, <2>1, <2>3 DEF HashKnown, SubmissionState
  <1>5. \A j \in 1..Len(rec) : rec[j].transaction.kind = "Swap" => j = i
    <2> DEFINE n == Len(rec)
    <2>1. n \in Nat /\ n <= 2 /\ i \in 1..n
          /\ (n = 2 => rec[1].transaction.kind = "Approval")
      BY <1>2, <1>3 DEF SInv, StoredShape, ApprovalThenSwap
    <2>2. rec[i].transaction.kind = "Swap"
      BY <1>1, <1>3
    <2>3. \A j \in 1..n : rec[j].transaction.kind = "Swap" => j = n
      <3>1. ASSUME NEW j \in 1..n, rec[j].transaction.kind = "Swap", j # n PROVE FALSE
        <4> HIDE DEF n
        <4>1. j = 1 /\ n = 2
          BY <2>1, <3>1
        <4>2. QED
          BY <2>1, <3>1, <4>1
      <3>2. QED
        BY <3>1
    <2>4. QED
      BY <2>1, <2>2, <2>3
  <1>6. known = {i}
    BY <1>1, <1>2, <1>3, <1>4, <1>5
  <1>7. SwapHash(rec) = {rec[x].transaction : x \in {j \in known : \A k \in known : k <= j}}
    BY DEF SwapHash
  <1> HIDE DEF known
  <1>8. {j \in known : \A k \in known : k <= j} = {i}
    BY <1>3, <1>6
  <1>9. QED
    BY <1>3, <1>7, <1>8

(* After a crash at any point the swap of a locally signed run is found.   *)
THEOREM SwapAlwaysFindableHolds == Spec => []SwapAlwaysFindable
  <1>1. QED
    BY SwapIsFound, SafetyInvariantHolds, PTL DEF SafetyInvariant

-----------------------------------------------------------------------------
(***************************************************************************)
(* The journal's memory.                                                   *)
(***************************************************************************)

(* What JournalOnlyLearns says of a step.                                  *)
Learns ==
  journal.file = "saved" =>
    \/ journal'.file = "saved" /\ Extends(journal'.record, journal.record)
    \/ \E r \in Runs : archive'[r] # archive[r] /\ Extends(archive'[r], journal.record)

LEMMA VersionExtends ==
  ASSUME NEW new \in ExecutionRecord, NEW old \in ExecutionRecord,
         SameEntries(new, old), KeepsOutcomes(new, old)
  PROVE  Extends(new, old)
  <1>1. Len(new) = Len(old) /\ Len(old) \in Nat /\ DOMAIN old = 1..Len(old)
    BY DEF SameEntries, ExecutionRecord
  <1>2. QED
    BY <1>1 DEF SameEntries, KeepsOutcomes, Extends

LEMMA SameJournalLearns == ASSUME IInv, journal' = journal PROVE Learns
  <1>1. journal.record \in ExecutionRecord
    BY DEF IInv, TypeOK
  <1>2. QED
    BY <1>1, VersionExtends, SelfSame, SelfKeeps DEF Learns

(* Sending writes the outcome of the last entry, which had none.           *)
LEMMA SendingLearns ==
  ASSUME IInv, SInv, pc \in {"sign", "request", "response"},
         \/ journal' = journal
         \/ /\ journal' = [file |-> "saved", record |-> record']
            /\ \/ record' = WithSignedHash(record)
               \/ \E s \in SubmissionState :
                    \/ record' = WithSubmission(record, s)
                    \/ record' = WithSubmission(WithSignedHash(record), s)
  PROVE  Learns
  <1> DEFINE n == Len(record)
             hashed == WithSignedHash(record)
  <1>1. /\ record \in ExecutionRecord /\ record # <<>> /\ journal.record = record
        /\ n \in 1..n /\ n \in Nat /\ record[n].submission = "Unknown"
        /\ DOMAIN record = 1..n
    BY SendingRecord DEF Sending, SInv, NotSentYet, ExecutionRecord
  <1>2. \A i \in 1..n : record[i].signed_hash \in {"none", "known"}
    <2>1. \A i \in 1..n : record[i] \in TransactionRecord
      BY <1>1 DEF ExecutionRecord
    <2>2. QED
      BY <2>1 DEF TransactionRecord
  <1>3. /\ hashed \in ExecutionRecord /\ hashed # <<>> /\ Len(hashed) = n
        /\ \A i \in 1..n : /\ hashed[i].transaction = record[i].transaction
                           /\ hashed[i].submission = record[i].submission
                           /\ record[i].signed_hash = "known" => hashed[i].signed_hash = "known"
    <2>1. hashed \in ExecutionRecord /\ Len(hashed) = n
          /\ \A i \in 1..n : record[i].signed_hash = "known" => hashed[i].signed_hash = "known"
      BY <1>1, WithSignedHashSets
    <2>2. \A i \in 1..n : /\ hashed[i].transaction = record[i].transaction
                          /\ hashed[i].submission = record[i].submission
      BY <1>1, WithSignedHashKeeps
    <2> HIDE DEF hashed
    <2>3. hashed # <<>>
      BY <1>1, <2>1 DEF ExecutionRecord
    <2>4. QED
      BY <2>1, <2>2, <2>3
  <1> HIDE DEF hashed
  <1>4. Extends(hashed, record)
    BY <1>1, <1>2, <1>3 DEF Extends
  <1>5. ASSUME NEW s \in SubmissionState, NEW rec, rec = record \/ rec = hashed
        PROVE  Extends(WithSubmission(rec, s), record)
    <2> DEFINE new == WithSubmission(rec, s)
    <2>1. /\ rec \in ExecutionRecord /\ rec # <<>> /\ Len(rec) = n
          /\ \A i \in 1..n : /\ rec[i].transaction = record[i].transaction
                             /\ rec[i].submission = record[i].submission
                             /\ \/ rec[i].signed_hash = record[i].signed_hash
                                \/ record[i].signed_hash = "none"
      <3>1. CASE rec = record
        BY <1>1, <3>1
      <3>2. CASE rec = hashed
        BY <1>1, <1>2, <1>3, <3>2
      <3>3. QED
        BY <1>5, <3>1, <3>2
    <2>2. /\ Len(new) = n /\ SameEntries(new, rec)
          /\ \A i \in 1..n : i # n => new[i] = rec[i]
      BY <2>1, WithSubmissionWrites, WithSubmissionKeeps
    <2> HIDE DEF new
    <2>3. \A i \in 1..n : /\ new[i].transaction = rec[i].transaction
                          /\ new[i].signed_hash = rec[i].signed_hash
      BY <2>1, <2>2 DEF SameEntries
    <2>4. \A i \in 1..n : record[i].submission # "Unknown"
            => new[i].submission = record[i].submission
      BY <1>1, <2>1, <2>2
    <2> HIDE DEF n
    <2>5. Extends(new, record)
      BY <1>1, <2>1, <2>2, <2>3, <2>4 DEF Extends
    <2>6. QED
      BY <2>5 DEF new
  <1>6. Extends(record', record) \/ journal' = journal
    BY <1>4, <1>5 DEF hashed
  <1>7. QED
    BY <1>1, <1>6, SameJournalLearns DEF Learns

LEMMA PushLearns == ASSUME IInv, SInv, Push PROVE Learns
  <1>1. /\ run \in Runs /\ kind \in Kinds /\ record \in ExecutionRecord
        /\ record' = Pushed(record)
        /\ record # <<>> => journal = [file |-> "saved", record |-> record]
    BY DEF IInv, TypeOK, MemoryIsDurable, Push, Submitting
  <1>2. CASE journal' = journal \/ journal.file # "saved"
    BY <1>2, SameJournalLearns DEF Learns
  <1>3. CASE journal' # journal /\ journal.file = "saved"
    <2>1. record # <<>> /\ journal' = [file |-> "saved", record |-> record']
      BY <1>3 DEF Push, Persisted, BeginAllowed, PersistFails, PersistFailed
    <2> DEFINE n == Len(record)
    <2>2. /\ Len(record') = n + 1 /\ n \in Nat /\ DOMAIN record = 1..n
          /\ \A i \in 1..n : record'[i] = record[i]
      BY <1>1, PushedAppends DEF ExecutionRecord
    <2> HIDE DEF n
    <2>3. Extends(record', record)
      BY <2>2 DEF Extends, n
    <2>4. QED
      BY <1>1, <2>1, <2>3 DEF Learns
  <1>4. QED
    BY <1>2, <1>3

LEMMA WaitReturnsLearns ==
  ASSUME IInv, SInv, pc \in {"status", "poll"}, NEW rec \in ExecutionRecord,
         SameEntries(rec, journal.record), KeepsOutcomes(rec, journal.record),
         NEW v, WaitReturns(rec, v)
  PROVE  Learns
  <1>1. journal' = journal \/ journal' = [file |-> "saved", record |-> rec]
    BY DEF WaitReturns, Persisted, PersistFails, PersistFailed
  <1>2. journal.record \in ExecutionRecord
    BY DEF IInv, TypeOK
  <1>3. QED
    BY <1>1, <1>2, VersionExtends, SameJournalLearns DEF Learns

LEMMA StatusReturnsLearns ==
  ASSUME IInv, SInv, pc \in {"status", "poll"}, NEW rec \in ExecutionRecord,
         SameEntries(rec, journal.record), KeepsOutcomes(rec, journal.record),
         NEW v, StatusReturns(rec, v) \/ NextEntry(rec, v)
  PROVE  Learns
  <1>1. journal' = journal \/ WaitReturns(rec, v)
    BY DEF StatusReturns, NextEntry
  <1>2. QED
    BY <1>1, SameJournalLearns, WaitReturnsLearns

LEMMA CheckEntryLearns == ASSUME IInv, SInv, CheckEntry PROVE Learns
  <1>1. pc = "status" /\ ScanFrame
    BY DEF CheckEntry, ScanFrame
  <1>2. /\ updated \in ExecutionRecord /\ SameEntries(updated, journal.record)
        /\ KeepsOutcomes(updated, journal.record)
    BY <1>1, ScannedEntry
  <1>3. CASE NextEntry(updated, "Pending") \/ StatusReturns(updated, "Failed")
    BY <1>1, <1>2, <1>3, StatusReturnsLearns
  <1>4. CASE NextEntry(NotMinedRecord, "Pending")
    BY <1>1, <1>4, NotMinedVersion, StatusReturnsLearns
  <1>5. CASE UNCHANGED <<record, journal>>
    BY <1>5, SameJournalLearns
  <1>6. CASE /\ HashKnown(updated[cursor])
             /\ NextEntry(MinedRecord, verdict) \/ StatusReturns(MinedRecord, "Failed")
    BY <1>1, <1>6, MinedVersion, StatusReturnsLearns
  <1>7. QED
    BY <1>3, <1>4, <1>5, <1>6, CheckEntryCases

LEMMA PresentLearns == ASSUME IInv, SInv, Present PROVE Learns
  <1>1. /\ SameEntries(current, journal.record) /\ KeepsOutcomes(current, journal.record)
        /\ journal.record \in ExecutionRecord /\ current \in ExecutionRecord
        /\ archive \in [Runs -> ExecutionRecord] /\ journal.file = "saved"
    BY DEF IInv, TypeOK, ScanOfJournal, Scanning, SInv, ScanLearns, Present
  <1>2. Extends(current, journal.record)
    BY <1>1, VersionExtends
  <1>3. CASE journal' = journal \/ journal' = [file |-> "saved", record |-> current]
    BY <1>2, <1>3, SameJournalLearns DEF Learns
  <1>4. CASE archive' = [archive EXCEPT ![current[1].transaction.run] = current]
    <2>1. PICK q \in Runs : RecordOf(journal.record, q) /\ archive[q] = <<>>
      BY <1>1 DEF IInv, JournalOfOneRun
    <2>2. RecordOf(current, q)
      BY <1>1, <2>1, SameEntriesCarries
    <2>3. 1 \in 1..Len(current)
      BY <1>1, <2>2 DEF RecordOf, ExecutionRecord
    <2>4. current[1].transaction.run = q /\ current # <<>>
      BY <2>2, <2>3 DEF RecordOf
    <2>5. archive'[q] = current
      BY <1>1, <1>4, <2>1, <2>4
    <2>6. QED
      BY <1>2, <2>1, <2>4, <2>5 DEF Learns
  <1>5. QED
    BY <1>3, <1>4 DEF Present

LEMMA NextLearns == IInv /\ SInv /\ [Next]_vars => [Learns]_vars
  <1> SUFFICES ASSUME IInv, SInv, [Next]_vars PROVE Learns
    OBVIOUS
  <1>1. CASE StartRun \/ Resume \/ Crash \/ Expire \/ World \/ CheckFunding \/ NeedsApproval
             \/ Refresh \/ CheckPasses \/ CheckFails \/ Request \/ WalletFails
             \/ AfterSubmit \/ StatusFails \/ Poll
    <2>1. journal' = journal
      BY <1>1
      DEF StartRun, Resume, Crash, Expire, World, CheckFunding, NeedsApproval, Refresh,
          CheckPasses, CheckFails, Request, WalletFails, AfterSubmit,
          StatusFails, Poll, storeVars
    <2>2. QED
      BY <2>1, SameJournalLearns
  <1>2. CASE SignFails \/ Sign \/ HashReturned \/ UserRejects \/ SubmitterFails
    <2>1. pc \in {"sign", "request", "response"}
      BY <1>2 DEF SignFails, Sign, HashReturned, UserRejects, SubmitterFails
    <2>2. "Rejected" \in SubmissionState /\ "Submitted" \in SubmissionState
      BY DEF SubmissionState
    <2>3. ASSUME NEW res, RejectSubmission(res) PROVE Learns
      <3>1. /\ record' = WithSubmission(record, "Rejected")
            /\ journal' = journal \/ journal' = [file |-> "saved", record |-> record']
        BY <2>3 DEF RejectSubmission, Persisted, PersistFails, PersistFailed
      <3>2. QED
        BY <2>1, <2>2, <3>1, SendingLearns
    <2>4. CASE SignFails \/ UserRejects
      BY <2>3, <2>4 DEF SignFails, UserRejects
    <2>5. CASE SubmitterFails
      <3>1. RejectSubmission("BroadcastRejected") \/ journal' = journal
        BY <2>5 DEF SubmitterFails
      <3>2. QED
        BY <2>3, <3>1, SameJournalLearns
    <2>6. CASE Sign
      <3>1. /\ record' = WithSignedHash(record)
               \/ record' = WithSubmission(WithSignedHash(record), "Rejected")
            /\ journal' = journal \/ journal' = [file |-> "saved", record |-> record']
        BY <2>6 DEF Sign, SaveHash, Persisted, PersistFails, PersistFailed
      <3>2. QED
        BY <2>1, <2>2, <3>1, SendingLearns
    <2>7. CASE HashReturned
      <3>1. /\ record' = WithSubmission(record, "Submitted")
            /\ journal' = journal \/ journal' = [file |-> "saved", record |-> record']
        BY <2>7 DEF HashReturned, AcceptSubmission, Persisted, PersistFails, PersistFailed
      <3>2. QED
        BY <2>1, <2>2, <3>1, SendingLearns
    <2>8. QED
      BY <1>2, <2>4, <2>5, <2>6, <2>7
  <1>3. CASE WaitTimesOut
    <2>1. pc \in {"status", "poll"} /\ WaitReturns(current, "Pending")
      BY <1>3 DEF WaitTimesOut, Waiting
    <2>2. /\ current \in ExecutionRecord /\ SameEntries(current, journal.record)
          /\ KeepsOutcomes(current, journal.record)
      BY <2>1 DEF IInv, TypeOK, ScanOfJournal, SInv, ScanLearns, Scanning
    <2>3. QED
      BY <2>1, <2>2, WaitReturnsLearns
  <1>4. CASE Push \/ CheckEntry \/ Present
    BY <1>4, PushLearns, CheckEntryLearns, PresentLearns
  <1>5. CASE Rest \/ UNCHANGED vars
    BY <1>5, SameJournalLearns DEF Rest, vars, storeVars
  <1>6. QED
    BY <1>1, <1>2, <1>3, <1>4, <1>5 DEF Next, Process

(* The journal never forgets an entry, a hash or an outcome, for every     *)
(* number of runs and of reorgs.                                           *)
THEOREM JournalOnlyLearnsHolds == Spec => JournalOnlyLearns
  <1>1. IInv /\ SInv /\ [Next]_vars =>
          [journal.file = "saved" =>
             \/ journal'.file = "saved" /\ Extends(journal'.record, journal.record)
             \/ \E r \in Runs : /\ archive'[r] # archive[r]
                                /\ Extends(archive'[r], journal.record)]_vars
    BY NextLearns DEF Learns
  <1>2. QED
    BY <1>1, SafetyInvariantHolds, PTL DEF Spec, SafetyInvariant, JournalOnlyLearns

-----------------------------------------------------------------------------
(***************************************************************************)
(* The third part, for every number of runs, as long as no mined           *)
(* transaction is undone (MaxReorgs = 0): an archived run is final, runs   *)
(* never overlap, a swap follows its allowance, and the execution layer    *)
(* implements Outbox.                                                      *)
(***************************************************************************)

(* The receipt of every transaction, as one value.                         *)
ReceiptOf == [t \in Transactions |-> Receipt(t)]

(* The receipts of a record are those of f, of unaltered transactions.     *)
ReceiptsSafe(rec, f, a) ==
  \A i \in DOMAIN rec : rec[i].receipt # "none" =>
    rec[i].receipt = f[rec[i].transaction] /\ rec[i].transaction \notin a

(* No receipt is lost, and no mined transaction is altered.                *)
KeptReceipts ==
  \A t \in Transactions : ReceiptOf[t] # "none" =>
    ReceiptOf'[t] = ReceiptOf[t] /\ (t \notin altered => t \notin altered')

(* The chain stands still, and nothing public is lost.                     *)
Grounded ==
  /\ UNCHANGED <<ledger, altered>>
  /\ \A t \in Transactions : net[t] = "public" => net'[t] = "public"

(* The records to which ApprovalConfirmed applies.                         *)
FirstConfirmed(rec) == Len(rec) = 2 => Confirmed(rec[1])

-----------------------------------------------------------------------------
(***************************************************************************)
(* Receipts.                                                               *)
(***************************************************************************)

LEMMA MinedHasReceipt ==
  ASSUME NEW t \in Transactions
  PROVE  /\ ReceiptOf[t] # "none" <=> Mined(t)
         /\ ReceiptOf[t] = Receipt(t) /\ ReceiptOf[t] \in Receipts
  BY DEF ReceiptOf, Receipt, Mined, Receipts

LEMMA EntryTransactions ==
  ASSUME NEW rec \in ExecutionRecord
  PROVE  /\ DOMAIN rec = 1..Len(rec) /\ Len(rec) \in Nat
         /\ \A i \in 1..Len(rec) : rec[i] \in TransactionRecord
         /\ \A i \in 1..Len(rec) : /\ rec[i].transaction \in Transactions
                                   /\ rec[i].receipt \in Receipts
                                   /\ rec[i].submission \in SubmissionState
  <1>1. /\ DOMAIN rec = 1..Len(rec) /\ Len(rec) \in Nat
        /\ \A i \in 1..Len(rec) : rec[i] \in TransactionRecord
    BY DEF ExecutionRecord
  <1>2. QED
    BY <1>1 DEF TransactionRecord

(* RecordsTrue, in terms of the receipts as one value.                     *)
LEMMA VersionTrue ==
  ASSUME TypeOK, RecordsTrue, NEW rec \in Versions
  PROVE  rec \in ExecutionRecord /\ ReceiptsSafe(rec, ReceiptOf, altered)
  <1>1. rec \in ExecutionRecord
    BY DEF TypeOK, Versions
  <1>2. ReceiptsTrue(rec)
    BY DEF RecordsTrue
  <1>3. QED
    BY <1>1, <1>2, EntryTransactions DEF ReceiptsTrue, ReceiptsSafe, ReceiptOf

LEMMA GroundedReceipts ==
  ASSUME Grounded
  PROVE  KeptReceipts /\ ReceiptOf' = ReceiptOf /\ altered' = altered
  <1>1. ReceiptOf' = ReceiptOf
    BY DEF Grounded, ReceiptOf, Receipt, Mined
  <1>2. QED
    BY <1>1 DEF Grounded, KeptReceipts

LEMMA ReceiptsKept ==
  ASSUME NEW rec \in ExecutionRecord, ReceiptsSafe(rec, ReceiptOf, altered), KeptReceipts
  PROVE  ReceiptsSafe(rec, ReceiptOf', altered')
  BY EntryTransactions DEF ReceiptsSafe, KeptReceipts

(* A step that writes one new version of a record, itself true.            *)
LEMMA VersionsTrue ==
  ASSUME TypeOK, TypeOK', RecordsTrue, KeptReceipts,
         NEW rec, ReceiptsSafe(rec, ReceiptOf', altered'),
         record' \in Versions \union {<<>>, rec},
         journal'.record \in Versions \union {<<>>, rec},
         current' \in Versions \union {<<>>, rec},
         updated' \in Versions \union {<<>>, rec},
         \A r \in Runs : archive'[r] \in Versions \union {<<>>, rec}
  PROVE  RecordsTrue'
  <1>1. \A v \in Versions \union {<<>>, rec} : ReceiptsSafe(v, ReceiptOf', altered')
    <2>1. ReceiptsSafe(<<>>, ReceiptOf', altered')
      BY DEF ReceiptsSafe
    <2>2. \A v \in Versions : ReceiptsSafe(v, ReceiptOf', altered')
      BY VersionTrue, ReceiptsKept
    <2>3. QED
      BY <2>1, <2>2
  <1>2. \A v \in Versions' : v \in Versions \union {<<>>, rec}
    <2> DEFINE V == Versions \union {<<>>, rec}
    <2>1. \A v \in Versions' : v \in {record', journal'.record, current', updated'}
                                \/ \E r \in Runs : v = archive'[r]
      BY DEF Versions
    <2>2. /\ record' \in V /\ journal'.record \in V /\ current' \in V /\ updated' \in V
          /\ \A r \in Runs : archive'[r] \in V
      OBVIOUS
    <2> HIDE DEF V
    <2>3. QED
      BY <2>1, <2>2 DEF V
  <1>3. \A v \in Versions' : v \in ExecutionRecord
    BY DEF TypeOK, Versions
  <1>4. ASSUME NEW v \in Versions' PROVE ReceiptsTrue(v)'
    <2>1. v \in ExecutionRecord /\ ReceiptsSafe(v, ReceiptOf', altered')
      BY <1>1, <1>2, <1>3
    <2>2. ASSUME NEW i \in DOMAIN v, v[i].receipt # "none"
          PROVE  v[i].receipt = Receipt(v[i].transaction)' /\ v[i].transaction \notin altered'
      <3>1. v[i].transaction \in Transactions
        BY <2>1, <2>2, EntryTransactions
      <3>2. ReceiptOf'[v[i].transaction] = Receipt(v[i].transaction)'
        BY <3>1 DEF ReceiptOf
      <3>3. QED
        BY <2>1, <2>2, <3>2 DEF ReceiptsSafe
    <2>3. QED
      BY <2>2 DEF ReceiptsTrue
  <1>5. QED
    BY <1>4 DEF RecordsTrue

-----------------------------------------------------------------------------
(***************************************************************************)
(* What records say of the chain.                                          *)
(***************************************************************************)

(* A closed entry's transaction cannot take effect any more.               *)
LEMMA ClosedIsSettled ==
  ASSUME IInv, SInv, FInv, NEW rec \in Versions, Closed(rec), NEW i \in DOMAIN rec
  PROVE  /\ ~Live(rec[i].transaction)
         /\ net[rec[i].transaction] = "public" => Mined(rec[i].transaction)
  <1> DEFINE t == rec[i].transaction
  <1>1. rec \in ExecutionRecord /\ ReceiptsSafe(rec, ReceiptOf, altered)
    BY VersionTrue DEF IInv, FInv
  <1>2. t \in Transactions
    BY <1>1, EntryTransactions
  <1>3. CASE rec[i].submission = "Rejected"
    <2>1. net[t] \in {"absent", "refused"}
      BY <1>3 DEF SInv, RejectedNeverLands, Versions
    <2>2. QED
      BY <2>1 DEF Live
  <1>4. CASE rec[i].receipt # "none"
    <2>1. Mined(t)
      BY <1>1, <1>2, <1>4, MinedHasReceipt DEF ReceiptsSafe
    <2>2. net[t] = "public"
      BY <1>2, <2>1 DEF FInv, MinedWasPublic
    <2>3. QED
      BY <2>1, <2>2 DEF Live
  <1>5. QED
    BY <1>3, <1>4 DEF Closed

(* A confirmed entry is closed, and its receipt is a success.              *)
LEMMA ConfirmedIsMined ==
  ASSUME IInv, FInv, NEW rec \in Versions, NEW i \in DOMAIN rec, Confirmed(rec[i])
  PROVE  /\ Mined(rec[i].transaction) /\ Receipt(rec[i].transaction) = "success"
         /\ rec[i].receipt # "none"
  <1>1. rec \in ExecutionRecord /\ ReceiptsSafe(rec, ReceiptOf, altered)
    BY VersionTrue DEF IInv, FInv
  <1>2. rec[i].transaction \in Transactions
    BY <1>1, EntryTransactions
  <1>3. QED
    BY <1>1, <1>2, MinedHasReceipt DEF ReceiptsSafe, Confirmed

(* What left the process and is archived is closed.                        *)
LEMMA ArchivedSettled ==
  ASSUME IInv, SInv, FInv, NEW t \in Transactions, archive[t.run] # <<>>
  PROVE  ~Live(t) /\ (net[t] = "public" => Mined(t))
  <1>1. CASE net[t] = "absent"
    BY <1>1 DEF Live
  <1>2. CASE net[t] # "absent"
    <2>1. Durable(t.run) = archive[t.run] /\ t.run \in Runs
      BY DEF Durable, Transactions
    <2>2. PICK i \in DOMAIN archive[t.run] : archive[t.run][i].transaction = t
      BY <1>2, <2>1 DEF IInv, WriteAhead
    <2>3. archive[t.run] \in Versions /\ Closed(archive[t.run])
      BY <2>1 DEF Versions, FInv, VerdictTrue
    <2>4. ~Live(archive[t.run][i].transaction)
          /\ (net[archive[t.run][i].transaction] = "public"
                => Mined(archive[t.run][i].transaction))
      BY <2>2, <2>3, ClosedIsSettled
    <2>5. QED
      BY <2>2, <2>4
  <1>3. QED
    BY <1>1, <1>2

(* While a run has its record, or finds no journal, every other run is     *)
(* over.                                                                   *)
LEMMA OthersSettled ==
  ASSUME IInv, SInv, FInv, pc \in Submitting, record # <<>> \/ journal.file = "absent",
         NEW t \in Transactions, t.run # run
  PROVE  ~Live(t) /\ (net[t] = "public" => Mined(t))
  <1>1. CASE archive[t.run] # <<>>
    BY <1>1, ArchivedSettled
  <1>2. CASE archive[t.run] = <<>>
    <2>1. net[t] = "absent"
      <3>1. SUFFICES ASSUME NEW i \in DOMAIN Durable(t.run),
                            Durable(t.run)[i].transaction = t
                     PROVE  FALSE
        BY DEF IInv, WriteAhead
      <3>2. journal.file = "saved" /\ Durable(t.run) = journal.record
        BY <1>2, <3>1 DEF Durable
      <3>3. journal.record = record /\ RecordOf(record, run) /\ record \in ExecutionRecord
        BY <3>2 DEF IInv, MemoryIsDurable, TypeOK
      <3>4. i \in 1..Len(record)
        BY <3>1, <3>2, <3>3, EntryTransactions
      <3>5. QED
        BY <3>1, <3>2, <3>3, <3>4 DEF RecordOf
    <2>2. QED
      BY <2>1 DEF Live
  <1>3. QED
    BY <1>1, <1>2

-----------------------------------------------------------------------------
(***************************************************************************)
(* The invariant without reorgs: the initial states, and what one new      *)
(* version of a record needs.                                              *)
(***************************************************************************)

LEMMA InitFInv == Init => FInv
  <1> SUFFICES ASSUME Init PROVE FInv
    OBVIOUS
  <1>1. MinedWasPublic
    BY DEF Init, NetworkInit, MinedWasPublic, Mined
  <1>2. \A rec \in Versions : rec = <<>>
    BY DEF Init, Versions, NoJournal
  <1>3. RecordsTrue
    BY <1>2 DEF RecordsTrue, ReceiptsTrue
  <1>4. ApprovalConfirmed
    BY DEF Init, ApprovalConfirmed, NoJournal
  <1>5. VerdictTrue /\ AllowanceStays
    BY DEF Init, VerdictTrue, AllowanceStays, Closed
  <1>6. QED
    BY <1>1, <1>3, <1>4, <1>5 DEF FInv

LEMMA GroundedMined == ASSUME FInv, Grounded PROVE MinedWasPublic'
  BY DEF FInv, MinedWasPublic, Mined, Grounded

(* A step of the process that writes the version rec, where the records in *)
(* use agree with the chain and the rest of the invariant is shown apart.  *)
LEMMA NewVersionTrue ==
  ASSUME IInv, IInv', FInv, Grounded, archive' = archive,
         NEW rec, ReceiptsSafe(rec, ReceiptOf, altered), FirstConfirmed(rec),
         record' \in {record, <<>>, rec}, journal'.record \in {journal.record, <<>>, rec},
         current' \in {current, <<>>, rec}, updated' \in {updated, <<>>, rec},
         pc' \in Preparing /\ record' # <<>> => Confirmed(record'[1]),
         VerdictTrue', AllowanceStays'
  PROVE  FInv'
  <1>1. MinedWasPublic'
    BY GroundedMined
  <1>2. RecordsTrue'
    <2>1. /\ record' \in Versions \union {<<>>, rec}
          /\ journal'.record \in Versions \union {<<>>, rec}
          /\ current' \in Versions \union {<<>>, rec}
          /\ updated' \in Versions \union {<<>>, rec}
          /\ \A r \in Runs : archive'[r] \in Versions \union {<<>>, rec}
      BY VersionsAre
    <2>2. ReceiptsSafe(rec, ReceiptOf', altered') /\ KeptReceipts
      BY GroundedReceipts
    <2>3. QED
      BY <2>1, <2>2, VersionsTrue DEF IInv, FInv
  <1>3. ApprovalConfirmed'
    <2>1. \A v \in {journal.record, current, updated, <<>>, rec} : Len(v) = 2 => Confirmed(v[1])
      BY DEF FInv, ApprovalConfirmed, FirstConfirmed
    <2>2. \A v \in {journal'.record, current', updated'} :
            v \in {journal.record, current, updated, <<>>, rec}
      OBVIOUS
    <2>3. QED
      BY <2>1, <2>2 DEF ApprovalConfirmed
  <1>4. QED
    BY <1>1, <1>2, <1>3 DEF FInv

(* Writing no record at all.                                               *)
LEMMA SameVersionsTrue ==
  ASSUME IInv, IInv', FInv, Grounded, archive' = archive,
         record' \in {record, <<>>}, journal'.record \in {journal.record, <<>>},
         current' \in {current, <<>>}, updated' \in {updated, <<>>},
         pc' \in Preparing /\ record' # <<>> => Confirmed(record'[1]),
         VerdictTrue', AllowanceStays'
  PROVE  FInv'
  <1>1. ReceiptsSafe(<<>>, ReceiptOf, altered) /\ FirstConfirmed(<<>>)
    BY DEF ReceiptsSafe, FirstConfirmed
  <1>2. QED
    BY <1>1, NewVersionTrue

(* Outside check_status and present() there is no verdict to get wrong.    *)
LEMMA NoVerdict ==
  ASSUME FInv, pc' \notin {"status", "present"}, archive' = archive PROVE VerdictTrue'
  BY DEF FInv, VerdictTrue, Closed

(* Nor an allowance before the preflight or after the request.             *)
LEMMA NoAllowance ==
  ASSUME pc' \notin {"preflight", "push", "sign", "request"} PROVE AllowanceStays'
  BY DEF AllowanceStays

LEMMA NetworkGrounded == ASSUME UNCHANGED networkVars PROVE Grounded
  BY DEF networkVars, Grounded

(* The call returns, with the records it had.                              *)
LEMMA EndsTrue ==
  ASSUME IInv, IInv', FInv, UNCHANGED networkVars, archive' = archive, pc' = "idle",
         record' \in {record, <<>>}, journal'.record \in {journal.record, <<>>},
         current' \in {current, <<>>}, updated' \in {updated, <<>>}
  PROVE  FInv'
  BY NetworkGrounded, SameVersionsTrue, NoVerdict, NoAllowance DEF Preparing

-----------------------------------------------------------------------------
(***************************************************************************)
(* Steps of submit before the push.                                        *)
(***************************************************************************)

LEMMA StartRunTrue == ASSUME IInv, IInv', FInv, StartRun PROVE FInv'
  <1>1. /\ Grounded /\ UNCHANGED <<storeVars, scanVars>> /\ pc' = "funding" /\ record' = <<>>
    BY NetworkGrounded DEF StartRun
  <1>2. QED
    BY <1>1, SameVersionsTrue, NoVerdict, NoAllowance DEF storeVars, scanVars

LEMMA PreparingTrue ==
  ASSUME IInv, IInv', FInv, UNCHANGED <<networkVars, storeVars, scanVars, record>>,
         pc \in Preparing, pc' \in {"idle"} \union Preparing, AllowanceStays'
  PROVE  FInv'
  <1>1. Grounded /\ pc' \notin {"status", "present"}
    BY NetworkGrounded DEF Preparing
  <1>2. record # <<>> => Confirmed(record[1])
    BY DEF FInv, ApprovalConfirmed
  <1>3. QED
    BY <1>1, <1>2, SameVersionsTrue, NoVerdict DEF storeVars, scanVars

LEMMA CheckFundingTrue == ASSUME IInv, IInv', FInv, CheckFunding PROVE FInv'
  <1>1. /\ UNCHANGED <<networkVars, storeVars, scanVars, record>> /\ pc \in Preparing
        /\ pc' \in {"idle", "allowance"}
    BY DEF CheckFunding, Goto, Return, Preparing
  <1>2. QED
    BY <1>1, PreparingTrue, NoAllowance DEF Preparing

LEMMA RefreshTrue == ASSUME IInv, IInv', FInv, Refresh PROVE FInv'
  <1>1. /\ UNCHANGED <<networkVars, storeVars, scanVars, record>> /\ pc \in Preparing
        /\ pc' \in {"idle", "funding"}
    BY DEF Refresh, Goto, Return, Preparing
  <1>2. QED
    BY <1>1, PreparingTrue, NoAllowance DEF Preparing

LEMMA CheckFailsTrue == ASSUME IInv, IInv', FInv, CheckFails PROVE FInv'
  <1>1. /\ UNCHANGED <<networkVars, storeVars, scanVars, record>> /\ pc \in Preparing
        /\ pc' = "idle"
    BY DEF CheckFails, Return, Preparing
  <1>2. QED
    BY <1>1, PreparingTrue, NoAllowance DEF Preparing

(* The lists of checks: both run the transaction before the last one.      *)
LEMMA ChecksAre ==
  ASSUME NEW r, NEW S
  PROVE  /\ Len(Checks(r \in S)) \in Nat /\ Len(Checks(r \in S)) >= 1
         /\ \E j \in 1..(Len(Checks(r \in S)) - 1) :
              Checks(r \in S)[j] \in {"simulate", "estimate"}
  <1>1. CASE r \in S
    <2> DEFINE C == Checks(r \in S)
    <2>1. C = <<"deadline", "chain", "broadcaster", "signer", "fees", "estimate",
                "gas_funding", "nonce", "simulate", "deadline">>
      BY <1>1 DEF Checks
    <2> HIDE DEF C
    <2>2. Len(C) = 10 /\ C[6] = "estimate"
      BY <2>1
    <2>3. Len(C) \in Nat /\ Len(C) >= 1 /\ 6 \in 1..(Len(C) - 1)
      BY <2>2
    <2>4. QED
      BY <2>2, <2>3 DEF C
  <1>2. CASE r \notin S
    <2> DEFINE C == Checks(r \in S)
    <2>1. C = <<"deadline", "chain", "accounts", "simulate", "estimate",
                "gas_funding", "nonce", "deadline">>
      BY <1>2 DEF Checks
    <2> HIDE DEF C
    <2>2. Len(C) = 8 /\ C[4] = "simulate"
      BY <2>1
    <2>3. Len(C) \in Nat /\ Len(C) >= 1 /\ 4 \in 1..(Len(C) - 1)
      BY <2>2
    <2>4. QED
      BY <2>2, <2>3 DEF C
  <1>3. QED
    BY <1>1, <1>2

LEMMA NeedsApprovalTrue == ASSUME IInv, IInv', FInv, NeedsApproval PROVE FInv'
  <1>1. /\ UNCHANGED <<networkVars, storeVars, scanVars, record>> /\ pc \in Preparing
        /\ pc' = "idle" \/ (pc' = "preflight" /\ step' = 1)
    BY DEF NeedsApproval, Send, Return, Preparing
  <1>2. AllowanceStays'
    <2>1. CASE pc' = "idle"
      BY <2>1, NoAllowance
    <2>2. CASE pc' = "preflight" /\ step' = 1
      <3>1. step' <= Len(Checks(run' \in signed'))
        <4>1. Len(Checks(run' \in signed')) >= 1
          BY ChecksAre
        <4>2. QED
          BY <2>2, <4>1
      <3>2. ~Simulated'
        BY <2>2 DEF Simulated
      <3>3. QED
        BY <2>2, <3>1, <3>2 DEF AllowanceStays
    <2>3. QED
      BY <1>1, <2>1, <2>2
  <1>3. QED
    BY <1>1, <1>2, PreparingTrue DEF Preparing

(* The check that runs the transaction passes only with the allowance.     *)
LEMMA CheckPassesTrue == ASSUME IInv, IInv', FInv, CheckPasses PROVE FInv'
  <1> DEFINE C == Checks(run \in signed)
  <1>1. /\ pc = "preflight" /\ pc \in Preparing
        /\ UNCHANGED <<networkVars, storeVars, scanVars, record, run, signed, kind>>
        /\ CheckHolds(C[step])
        /\ \/ step = Len(C) /\ pc' = "push" /\ step' = 1
           \/ step # Len(C) /\ pc' = "preflight" /\ step' = step + 1
    BY DEF CheckPasses, Preparing, runVars
  <1>2. /\ step \in Nat \ {0} /\ step <= Len(C) /\ Len(C) \in Nat
        /\ \E j \in 1..(Len(C) - 1) : C[j] \in {"simulate", "estimate"}
    <2>1. step \in Nat \ {0} /\ step <= Len(C)
      BY <1>1 DEF IInv, TypeOK, FInv, AllowanceStays
    <2>2. Len(C) \in Nat /\ \E j \in 1..(Len(C) - 1) : C[j] \in {"simulate", "estimate"}
      BY ChecksAre
    <2>3. QED
      BY <2>1, <2>2
  <1>3. C[step] \in {"simulate", "estimate"} /\ kind = "Swap" => Allowance
    BY <1>1 DEF CheckHolds, Executes
  <1>4. Simulated /\ kind = "Swap" /\ (record # <<>> \/ journal.file = "absent") => Allowance
    BY <1>1 DEF FInv, AllowanceStays
  <1>5. Simulated <=> \E j \in 1..step - 1 : C[j] \in {"simulate", "estimate"}
    BY <1>1 DEF Simulated
  <1>6. Allowance' = Allowance
    BY <1>1 DEF Allowance, AllowanceAt, networkVars
  <1>7. AllowanceStays'
    <2>1. CASE step = Len(C) /\ pc' = "push"
      <3>1. Simulated
        BY <1>2, <1>5, <2>1
      <3>2. QED
        BY <1>1, <1>4, <1>6, <2>1, <3>1 DEF AllowanceStays, storeVars
    <2>2. CASE step # Len(C) /\ pc' = "preflight" /\ step' = step + 1
      <3>1. step' <= Len(C) /\ C = Checks(run' \in signed')
        BY <1>1, <1>2, <2>2
      <3> HIDE DEF C
      <3>2. ASSUME Simulated' PROVE Simulated \/ C[step] \in {"simulate", "estimate"}
        <4>1. PICK j \in 1..step' - 1 : C[j] \in {"simulate", "estimate"}
          BY <2>2, <3>1, <3>2 DEF Simulated
        <4>2. j \in 1..step - 1 \/ j = step
          BY <1>2, <2>2, <4>1
        <4>3. QED
          BY <1>5, <4>1, <4>2
      <3>3. QED
        BY <1>1, <1>3, <1>4, <1>6, <2>2, <3>1, <3>2 DEF AllowanceStays, storeVars
    <2>3. QED
      BY <1>1, <2>1, <2>2
  <1>8. QED
    BY <1>1, <1>7, PreparingTrue DEF Preparing

-----------------------------------------------------------------------------
(***************************************************************************)
(* Steps of send.                                                          *)
(***************************************************************************)

(* Writing the outcome or the hash of the last entry touches no receipt.   *)
LEMMA WritesTrue ==
  ASSUME NEW rec \in ExecutionRecord, rec # <<>>, NEW s \in SubmissionState,
         NEW f, NEW a, ReceiptsSafe(rec, f, a), FirstConfirmed(rec)
  PROVE  /\ ReceiptsSafe(WithSubmission(rec, s), f, a)
         /\ FirstConfirmed(WithSubmission(rec, s))
         /\ ReceiptsSafe(WithSignedHash(rec), f, a)
         /\ FirstConfirmed(WithSignedHash(rec))
         /\ WithSignedHash(rec) \in ExecutionRecord /\ WithSignedHash(rec) # <<>>
  <1>1. DOMAIN rec = 1..Len(rec) /\ Len(rec) \in Nat
    BY DEF ExecutionRecord
  <1>2. ReceiptsSafe(WithSubmission(rec, s), f, a)
    BY <1>1, WithSubmissionWrites DEF ReceiptsSafe
  <1>3. FirstConfirmed(WithSubmission(rec, s))
    <2>1. /\ Len(WithSubmission(rec, s)) = Len(rec)
          /\ \A i \in 1..Len(rec) : i # Len(rec) => WithSubmission(rec, s)[i] = rec[i]
      BY WithSubmissionWrites
    <2>2. QED
      BY <2>1 DEF FirstConfirmed
  <1>4. ReceiptsSafe(WithSignedHash(rec), f, a)
    BY <1>1, WithSignedHashKeeps DEF ReceiptsSafe
  <1>5. FirstConfirmed(WithSignedHash(rec))
    <2>1. /\ Len(WithSignedHash(rec)) = Len(rec)
          /\ \A i \in 1..Len(rec) :
               /\ WithSignedHash(rec)[i].submission = rec[i].submission
               /\ WithSignedHash(rec)[i].receipt = rec[i].receipt
      BY WithSignedHashKeeps
    <2>2. QED
      BY <2>1 DEF FirstConfirmed, Confirmed
  <1>6. WithSignedHash(rec) \in ExecutionRecord /\ WithSignedHash(rec) # <<>>
    <2>1. WithSignedHash(rec) \in ExecutionRecord /\ Len(WithSignedHash(rec)) = Len(rec)
      BY WithSignedHashSets
    <2>2. Len(rec) # 0
      BY DEF ExecutionRecord
    <2>3. QED
      BY <2>1, <2>2
  <1>7. QED
    BY <1>2, <1>3, <1>4, <1>5, <1>6

(* The record of a sending process agrees with the chain.                  *)
LEMMA SendingTrue ==
  ASSUME IInv, FInv, pc \in Sending
  PROVE  /\ record \in ExecutionRecord /\ record # <<>>
         /\ ReceiptsSafe(record, ReceiptOf, altered) /\ FirstConfirmed(record)
         /\ journal = [file |-> "saved", record |-> record]
  <1>1. ReceiptsSafe(record, ReceiptOf, altered)
    BY VersionTrue, VersionsAre DEF IInv, FInv
  <1>2. QED
    BY <1>1, SendingRecord DEF FInv, ApprovalConfirmed, FirstConfirmed

(* A sending call ends, or goes on, with a new version of its record.      *)
LEMMA SendStepTrue ==
  ASSUME IInv, IInv', FInv, Grounded, archive' = archive, pc \in Sending,
         UNCHANGED scanVars,
         pc' \notin {"status", "present"} \union Preparing, AllowanceStays',
         \/ record' \in {record, WithSignedHash(record)}
         \/ \E s \in SubmissionState :
              record' \in {WithSubmission(record, s), WithSubmission(WithSignedHash(record), s)},
         journal' = journal \/ journal' = [file |-> "saved", record |-> record']
  PROVE  FInv'
  <1>1. ReceiptsSafe(record', ReceiptOf, altered) /\ FirstConfirmed(record')
    <2>1. /\ record \in ExecutionRecord /\ record # <<>>
          /\ ReceiptsSafe(record, ReceiptOf, altered) /\ FirstConfirmed(record)
          /\ "Rejected" \in SubmissionState
      BY SendingTrue DEF SubmissionState
    <2> DEFINE hashed == WithSignedHash(record)
    <2>2. /\ hashed \in ExecutionRecord /\ hashed # <<>>
          /\ ReceiptsSafe(hashed, ReceiptOf, altered) /\ FirstConfirmed(hashed)
      BY <2>1, WritesTrue
    <2> HIDE DEF hashed
    <2>3. ASSUME NEW s \in SubmissionState, record' = WithSubmission(record, s)
          PROVE  ReceiptsSafe(record', ReceiptOf, altered) /\ FirstConfirmed(record')
      BY <2>1, <2>3, WritesTrue
    <2>4. ASSUME NEW s \in SubmissionState, record' = WithSubmission(hashed, s)
          PROVE  ReceiptsSafe(record', ReceiptOf, altered) /\ FirstConfirmed(record')
      BY <2>2, <2>4, WritesTrue
    <2>5. QED
      BY <2>1, <2>2, <2>3, <2>4 DEF hashed
  <1>2. VerdictTrue'
    BY NoVerdict
  <1>3. QED
    BY <1>1, <1>2, NewVersionTrue DEF scanVars

LEMMA RejectTrue ==
  ASSUME IInv, IInv', FInv, pc \in Sending, NEW res, RejectSubmission(res), Grounded,
         archive' = archive
  PROVE  FInv'
  <1>1. /\ record' = WithSubmission(record, "Rejected") /\ "Rejected" \in SubmissionState
        /\ pc' = "idle" /\ UNCHANGED scanVars
        /\ journal' = journal \/ journal' = [file |-> "saved", record |-> record']
    BY DEF RejectSubmission, PersistFails, PersistFailed, Persisted, Return, SubmissionState
  <1>2. QED
    BY <1>1, NoAllowance, SendStepTrue DEF Preparing

LEMMA SignFailsTrue == ASSUME IInv, IInv', FInv, SignFails PROVE FInv'
  <1>1. PICK res \in {"Signing", "SignatureMismatch"} : RejectSubmission(res)
    BY DEF SignFails
  <1>2. pc \in Sending /\ archive' = archive /\ Grounded
    BY NetworkGrounded DEF SignFails, Sending
  <1>3. QED
    BY <1>1, <1>2, RejectTrue

(* A refused request was not public.                                       *)
LEMMA RefusalGrounded ==
  ASSUME IInv, net[This] # "public", NEW s, net' = [net EXCEPT ![This] = s],
         UNCHANGED <<altered, ledger>>
  PROVE  Grounded
  BY DEF IInv, TypeOK, NetworkTypeOK, Grounded

LEMMA UserRejectsTrue == ASSUME IInv, IInv', FInv, UserRejects PROVE FInv'
  <1>1. /\ pc \in Sending /\ archive' = archive /\ RejectSubmission("Rejected")
        /\ net[This] = "flight" /\ net' = [net EXCEPT ![This] = "refused"]
        /\ UNCHANGED <<altered, ledger>>
    BY DEF UserRejects, Sending
  <1>2. Grounded
    BY <1>1, RefusalGrounded
  <1>3. QED
    BY <1>1, <1>2, RejectTrue

LEMMA SubmitterFailsTrue == ASSUME IInv, IInv', FInv, SubmitterFails PROVE FInv'
  <1>1. pc \in Sending /\ UNCHANGED <<archive, altered, ledger>>
    BY DEF SubmitterFails, Sending
  <1>2. PICK error \in SubmitErrors :
          /\ IF NotTaken(error)
             THEN net[This] = "flight" /\ net' = [net EXCEPT ![This] = "refused"]
             ELSE net' = net
          /\ IF IsRejection(error)
             THEN RejectSubmission("BroadcastRejected")
             ELSE Return("UnknownBroadcast") /\ UNCHANGED <<record, journal, scanVars>>
    BY DEF SubmitterFails
  <1>3. Grounded
    <2>1. CASE net' = net
      BY <1>1, <2>1 DEF Grounded
    <2>2. CASE net[This] = "flight" /\ net' = [net EXCEPT ![This] = "refused"]
      BY <1>1, <2>2, RefusalGrounded
    <2>3. QED
      BY <1>2, <2>1, <2>2
  <1>4. CASE RejectSubmission("BroadcastRejected")
    BY <1>1, <1>3, <1>4, RejectTrue
  <1>5. CASE Return("UnknownBroadcast") /\ UNCHANGED <<record, journal, scanVars>>
    BY <1>1, <1>3, <1>5, NoAllowance, SendStepTrue DEF Return, Preparing
  <1>6. QED
    BY <1>2, <1>4, <1>5

(* The allowance found before the hash was computed is still there.        *)
LEMMA AllowanceCarried ==
  ASSUME FInv, pc = "sign", pc' = "request", record # <<>>, UNCHANGED <<kind, ledger, preapproved>>
  PROVE  AllowanceStays'
  <1>1. Simulated
    BY DEF Simulated
  <1>2. kind = "Swap" => Allowance
    BY <1>1 DEF FInv, AllowanceStays
  <1>3. Allowance' = Allowance
    BY DEF Allowance, AllowanceAt
  <1>4. QED
    BY <1>2, <1>3 DEF AllowanceStays

LEMMA SignTrue == ASSUME IInv, IInv', FInv, Sign PROVE FInv'
  <1>1. /\ pc = "sign" /\ pc \in Sending /\ Grounded /\ archive' = archive
        /\ UNCHANGED <<scanVars, kind, ledger, preapproved>> /\ "Rejected" \in SubmissionState
        /\ record' = WithSignedHash(record)
           \/ record' = WithSubmission(WithSignedHash(record), "Rejected")
        /\ journal' = journal \/ journal' = [file |-> "saved", record |-> record']
        /\ pc' \in {"idle", "request"}
    BY NetworkGrounded
    DEF Sign, Sending, SaveHash, Persisted, PersistFails, PersistFailed, Return, Goto,
        SubmissionState, networkVars, runVars
  <1>2. record # <<>>
    BY <1>1, SendingTrue
  <1>3. AllowanceStays'
    BY <1>1, <1>2, NoAllowance, AllowanceCarried
  <1>4. QED
    BY <1>1, <1>3, SendStepTrue DEF Preparing

LEMMA RequestTrue == ASSUME IInv, IInv', SInv, FInv, Request PROVE FInv'
  <1>1. /\ pc = "request" /\ pc \in Sending /\ archive' = archive /\ pc' = "response"
        /\ UNCHANGED <<scanVars, record, journal, altered, ledger>>
        /\ net' = [net EXCEPT ![This] = "flight"]
    BY DEF Request, Goto, Sending, storeVars
  <1>2. Grounded
    BY <1>1, RefusalGrounded DEF SInv, NotSentYet
  <1>3. QED
    BY <1>1, <1>2, NoAllowance, SendStepTrue DEF Preparing

LEMMA SendReturnsTrue ==
  ASSUME IInv, IInv', FInv, WalletFails PROVE FInv'
  <1>1. /\ UNCHANGED <<networkVars, journal, archive, record, current, updated>>
        /\ pc' = "idle"
    BY DEF WalletFails, Return, storeVars, scanVars
  <1>2. QED
    BY <1>1, EndsTrue

LEMMA PushTrue == ASSUME IInv, IInv', SInv, FInv, Push PROVE FInv'
  <1>1. /\ pc = "push" /\ pc \in Preparing /\ run \in Runs /\ kind \in Kinds
        /\ record \in ExecutionRecord /\ record' = Pushed(record) /\ Grounded
        /\ UNCHANGED <<networkVars, kind, archive, scanVars>>
    BY NetworkGrounded
    DEF IInv, TypeOK, MemoryIsDurable, Push, runVars, Preparing, Submitting
  <1> DEFINE n == Len(record)
  <1>2. /\ Len(record') = n + 1 /\ n \in Nat /\ DOMAIN record' = 1..(n + 1)
        /\ DOMAIN record = 1..n
        /\ \A i \in 1..n : record'[i] = record[i]
        /\ record'[n + 1].receipt = "none"
    BY <1>1, PushedAppends, PushedFresh DEF Fresh, ExecutionRecord
  <1>3. ReceiptsSafe(record, ReceiptOf, altered)
    BY VersionTrue, VersionsAre DEF IInv, FInv
  <1>4. record # <<>> => n = 1 /\ Confirmed(record[1])
    BY <1>1 DEF SInv, NotSentYet, ApprovalOnly, FInv, ApprovalConfirmed
  <1>5. n = 0 => record = <<>>
    BY <1>1 DEF ExecutionRecord
  <1> HIDE DEF n
  <1>6. ReceiptsSafe(record', ReceiptOf, altered)
    BY <1>2, <1>3 DEF ReceiptsSafe
  <1>7. FirstConfirmed(record')
    <2>1. CASE record = <<>>
      BY <1>2, <2>1 DEF FirstConfirmed, n
    <2>2. CASE record # <<>>
      BY <1>2, <1>4, <2>2 DEF FirstConfirmed
    <2>3. QED
      BY <2>1, <2>2
  <1>8. CASE pc' \in {"sign", "request"} /\ (record = <<>> => journal.file = "absent")
             /\ journal' = [file |-> "saved", record |-> record']
    <2>1. AllowanceStays'
      <3>1. Simulated
        BY <1>1 DEF Simulated
      <3>2. kind = "Swap" => Allowance
        BY <1>1, <1>8, <3>1 DEF FInv, AllowanceStays
      <3>3. Allowance' = Allowance
        BY <1>1 DEF Allowance, AllowanceAt, networkVars
      <3>4. QED
        BY <1>1, <1>8, <3>2, <3>3 DEF AllowanceStays
    <2>2. VerdictTrue'
      BY <1>1, <1>8, NoVerdict
    <2>3. QED
      BY <1>1, <1>6, <1>7, <1>8, <2>1, <2>2, NewVersionTrue DEF scanVars, Preparing
  <1>9. CASE pc' = "idle" /\ journal'.record \in {journal.record, <<>>}
    <2>1. VerdictTrue' /\ AllowanceStays'
      BY <1>1, <1>9, NoVerdict, NoAllowance
    <2>2. QED
      BY <1>1, <1>6, <1>7, <1>9, <2>1, NewVersionTrue DEF scanVars, Preparing
  <1>10. QED
    BY <1>8, <1>9
    DEF Push, Goto, Persisted, PersistFails, PersistFailed, Return, BeginAllowed, TornFile

-----------------------------------------------------------------------------
(***************************************************************************)
(* Steps of wait and check_status.                                         *)
(***************************************************************************)

(* A status check begins with nothing found, on a record that is true.     *)
LEMMA BeginStatusTrue ==
  ASSUME IInv, IInv', FInv, Grounded, archive' = archive, NEW rec, NEW who,
         BeginStatus(rec, who), ReceiptsSafe(rec, ReceiptOf, altered), FirstConfirmed(rec),
         record' \in {record, <<>>, rec}, journal'.record \in {journal.record, <<>>, rec}
  PROVE  FInv'
  <1>1. /\ pc' = "status" /\ cursor' = 1 /\ verdict' = "Confirmed"
        /\ current' = rec /\ updated' = rec
    BY DEF BeginStatus, Goto
  <1>2. VerdictTrue'
    <2>1. \A r \in Runs : Closed(archive'[r])
      BY DEF FInv, VerdictTrue
    <2>2. \A i \in 1..cursor' - 1 : Confirmed(updated'[i])
      BY <1>1
    <2>3. QED
      BY <1>1, <2>1, <2>2 DEF VerdictTrue, Closed
  <1>3. AllowanceStays'
    BY <1>1, NoAllowance
  <1>4. QED
    BY <1>1, <1>2, <1>3, NewVersionTrue DEF Preparing

LEMMA HashReturnedTrue == ASSUME IInv, IInv', FInv, HashReturned PROVE FInv'
  <1>1. /\ pc \in Sending /\ archive' = archive /\ Grounded /\ "Submitted" \in SubmissionState
        /\ record' = WithSubmission(record, "Submitted")
        /\ journal' = journal \/ journal' = [file |-> "saved", record |-> record']
    BY NetworkGrounded
    DEF HashReturned, AcceptSubmission, Sending, SubmissionState, Persisted, PersistFails,
        PersistFailed
  <1>2. CASE UNCHANGED scanVars /\ pc' \in {"submitted", "idle"}
    BY <1>1, <1>2, NoAllowance, SendStepTrue DEF Preparing
  <1>3. CASE BeginStatus(record', "approval")
    <2>1. /\ record \in ExecutionRecord /\ record # <<>>
          /\ ReceiptsSafe(record, ReceiptOf, altered) /\ FirstConfirmed(record)
      BY <1>1, SendingTrue
    <2>2. ReceiptsSafe(record', ReceiptOf, altered) /\ FirstConfirmed(record')
      BY <1>1, <2>1, WritesTrue
    <2>3. record' \in {record, <<>>, record'}
          /\ journal'.record \in {journal.record, <<>>, record'}
      BY <1>1
    <2> DEFINE rec == record'
    <2> HIDE DEF rec
    <2>4. QED
      BY <1>1, <1>3, <2>2, <2>3, BeginStatusTrue
  <1>4. QED
    BY <1>2, <1>3 DEF HashReturned, AcceptSubmission, Persisted, PersistFails, Return, Goto

(* The records a status check begins with: in memory, journalled or last   *)
(* read.                                                                   *)
LEMMA StoredTrue ==
  ASSUME IInv, FInv
  PROVE  /\ ReceiptsSafe(record, ReceiptOf, altered)
         /\ ReceiptsSafe(journal.record, ReceiptOf, altered)
         /\ ReceiptsSafe(current, ReceiptOf, altered)
         /\ ReceiptsSafe(updated, ReceiptOf, altered)
         /\ FirstConfirmed(journal.record) /\ FirstConfirmed(current) /\ FirstConfirmed(updated)
  BY VersionTrue, VersionsAre DEF IInv, FInv, ApprovalConfirmed, FirstConfirmed

LEMMA AfterSubmitTrue == ASSUME IInv, IInv', FInv, AfterSubmit PROVE FInv'
  <1>1. /\ UNCHANGED <<networkVars, journal, archive, record>> /\ pc = "submitted" /\ Grounded
        /\ pc \in Sending
    BY NetworkGrounded DEF AfterSubmit, storeVars, Sending
  <1>2. CASE Return("Pending") /\ UNCHANGED scanVars
    BY <1>1, <1>2, EndsTrue DEF Return, scanVars
  <1>3. CASE BeginStatus(record, "swap")
    BY <1>1, <1>3, StoredTrue, SendingTrue, BeginStatusTrue
  <1>4. QED
    BY <1>2, <1>3 DEF AfterSubmit

LEMMA PollTrue == ASSUME IInv, IInv', FInv, Poll PROVE FInv'
  <1>1. /\ UNCHANGED <<networkVars, journal, archive, record>> /\ Grounded
        /\ BeginStatus(current, caller)
    BY NetworkGrounded DEF Poll, storeVars
  <1>2. QED
    BY <1>1, StoredTrue, BeginStatusTrue

LEMMA ResumeTrue == ASSUME IInv, IInv', FInv, Resume PROVE FInv'
  <1>1. /\ UNCHANGED <<networkVars, journal, archive, record>> /\ Grounded
        /\ BeginStatus(journal.record, "resume")
    BY NetworkGrounded DEF Resume, storeVars
  <1>2. QED
    BY <1>1, StoredTrue, BeginStatusTrue

LEMMA StatusFailsTrue == ASSUME IInv, IInv', FInv, StatusFails PROVE FInv'
  BY EndsTrue DEF StatusFails, Return, ClearScan, storeVars

LEMMA CrashTrue == ASSUME IInv, IInv', FInv, Crash PROVE FInv'
  BY EndsTrue DEF Crash, Return, ClearScan, storeVars

(* The clock, or no step at all, leaves what the invariant speaks of.      *)
LEMMA ElsewhereTrue ==
  ASSUME IInv, IInv', FInv,
         UNCHANGED <<networkVars, runVars, scanVars, storeVars, pc, step, record>>
  PROVE  FInv'
  <1>1. /\ Grounded /\ UNCHANGED <<journal, archive, current, updated>>
        /\ UNCHANGED <<run, kind, signed, verdict, cursor>>
    BY NetworkGrounded DEF storeVars, scanVars, runVars
  <1>2. VerdictTrue'
    BY <1>1 DEF FInv, VerdictTrue, Closed, Confirmed
  <1>3. AllowanceStays'
    BY <1>1 DEF FInv, AllowanceStays, Simulated, Allowance, AllowanceAt, networkVars
  <1>4. pc' \in Preparing /\ record' # <<>> => Confirmed(record'[1])
    BY DEF FInv, ApprovalConfirmed
  <1>5. QED
    BY <1>1, <1>2, <1>3, <1>4, SameVersionsTrue

(* A version of the record whose verdict is what its entries say.          *)
VerdictOf(rec, v) ==
  /\ v = "Confirmed" => \A i \in 1..Len(rec) : Confirmed(rec[i])
  /\ v = "Failed" => Closed(rec)

LEMMA VerdictCloses ==
  ASSUME NEW rec \in ExecutionRecord, NEW v \in {"Confirmed", "Failed"}, VerdictOf(rec, v)
  PROVE  Closed(rec)
  BY EntryTransactions DEF VerdictOf, Closed, Confirmed

LEMMA BeginPresentTrue ==
  ASSUME IInv, IInv', FInv, Grounded, archive' = archive, NEW rec, NEW v,
         BeginPresent(rec, v), Closed(rec), ReceiptsSafe(rec, ReceiptOf, altered),
         FirstConfirmed(rec),
         record' \in {record, <<>>, rec}, journal'.record \in {journal.record, <<>>, rec}
  PROVE  FInv'
  <1>1. pc' = "present" /\ current' = rec /\ updated' = <<>>
    BY DEF BeginPresent, Goto
  <1>2. VerdictTrue'
    BY <1>1 DEF FInv, VerdictTrue, Closed
  <1>3. AllowanceStays'
    BY <1>1, NoAllowance
  <1>4. QED
    BY <1>1, <1>2, <1>3, NewVersionTrue DEF Preparing

LEMMA WaitReturnsTrue ==
  ASSUME IInv, IInv', SInv, FInv, ScanFrame, pc \in {"status", "poll"}, caller # "resume",
         NEW rec \in ExecutionRecord, SameEntries(rec, journal.record),
         ReceiptsSafe(rec, ReceiptOf, altered), FirstConfirmed(rec),
         NEW v \in Statuses, VerdictOf(rec, v), WaitReturns(rec, v)
  PROVE  FInv'
  <1>1. /\ record' = rec /\ Grounded /\ archive' = archive /\ record # <<>>
        /\ journal.record = record /\ journal.record \in ExecutionRecord
    BY NetworkGrounded
    DEF WaitReturns, ScanFrame, IInv, TypeOK, ScanOfJournal, MemoryIsDurable
  <1>2. CASE /\ pc' \in {"idle", "refresh"} /\ ClearScan
             /\ journal' = journal \/ journal' = [file |-> "saved", record |-> rec]
             /\ pc' = "refresh" => v = "Confirmed" /\ caller = "approval"
    <2>1. VerdictTrue' /\ AllowanceStays'
      BY <1>1, <1>2, NoVerdict, NoAllowance
    <2>2. pc' = "refresh" => Confirmed(rec[1])
      <3>1. 1 \in 1..Len(rec)
        BY <1>1, SameEntriesCarries DEF ExecutionRecord
      <3>2. QED
        BY <1>2, <3>1 DEF VerdictOf
    <2>3. pc' \in Preparing /\ record' # <<>> => Confirmed(record'[1])
      BY <1>1, <1>2, <2>2 DEF Preparing
    <2>4. QED
      BY <1>1, <1>2, <2>1, <2>3, NewVersionTrue DEF ClearScan
  <1>3. CASE /\ BeginPresent(rec, v) /\ journal' = [file |-> "saved", record |-> rec]
             /\ v # "Pending"
    <2>1. Closed(rec)
      BY <1>3, VerdictCloses DEF Statuses
    <2>2. QED
      BY <1>1, <1>3, <2>1, BeginPresentTrue
  <1>4. QED
    BY <1>2, <1>3
    DEF WaitReturns, Persisted, PersistFails, PersistFailed, Return, Goto

LEMMA WaitTimesOutTrue == ASSUME IInv, IInv', SInv, FInv, WaitTimesOut PROVE FInv'
  <1>1. /\ pc \in {"status", "poll"} /\ caller # "resume" /\ WaitReturns(current, "Pending")
        /\ ScanFrame
    BY DEF WaitTimesOut, Waiting, ScanFrame
  <1>2. /\ current \in ExecutionRecord /\ SameEntries(current, journal.record)
        /\ "Pending" \in Statuses /\ VerdictOf(current, "Pending")
    BY <1>1 DEF IInv, TypeOK, ScanOfJournal, Scanning, Statuses, VerdictOf
  <1>3. QED
    BY <1>1, <1>2, StoredTrue, WaitReturnsTrue

LEMMA StatusReturnsTrue ==
  ASSUME IInv, IInv', SInv, FInv, ScanFrame, pc = "status",
         NEW rec \in ExecutionRecord, SameEntries(rec, journal.record),
         ReceiptsSafe(rec, ReceiptOf, altered), FirstConfirmed(rec),
         NEW v \in Statuses, VerdictOf(rec, v), StatusReturns(rec, v)
  PROVE  FInv'
  <1>1. Grounded /\ archive' = archive
    BY NetworkGrounded DEF ScanFrame
  <1>2. CASE caller = "resume"
    <2>1. UNCHANGED <<record, journal>>
      BY <1>2 DEF StatusReturns
    <2>2. CASE Return("Pending") /\ ClearScan
      BY <1>1, <2>1, <2>2, EndsTrue DEF Return, ClearScan, ScanFrame
    <2>3. CASE v # "Pending" /\ BeginPresent(rec, v)
      <3>1. Closed(rec)
        BY <2>3, VerdictCloses DEF Statuses
      <3>2. QED
        BY <1>1, <2>1, <2>3, <3>1, BeginPresentTrue
    <2>4. QED
      BY <1>2, <2>2, <2>3 DEF StatusReturns
  <1>3. CASE caller # "resume" /\ v # "Pending"
    BY <1>3, WaitReturnsTrue DEF StatusReturns
  <1>4. CASE caller # "resume" /\ v = "Pending"
    <2>1. /\ current' = rec /\ pc' = "poll" /\ UNCHANGED <<updated, record, journal>>
      BY <1>4 DEF StatusReturns, Goto
    <2>2. VerdictTrue' /\ AllowanceStays'
      BY <1>1, <2>1, NoVerdict, NoAllowance
    <2>3. QED
      BY <1>1, <2>1, <2>2, NewVersionTrue DEF Preparing
  <1>5. QED
    BY <1>2, <1>3, <1>4

(* The scan goes on, with one more entry confirmed or none at all.         *)
LEMMA NextEntryTrue ==
  ASSUME IInv, IInv', SInv, FInv, ScanFrame, pc = "status",
         NEW rec \in ExecutionRecord, SameEntries(rec, journal.record),
         ReceiptsSafe(rec, ReceiptOf, altered), FirstConfirmed(rec),
         NEW v \in {"Pending", "Confirmed"},
         v = "Confirmed" => \A i \in 1..cursor : Confirmed(rec[i]),
         NextEntry(rec, v)
  PROVE  FInv'
  <1>1. cursor \in Nat /\ v \in Statuses
    BY DEF IInv, TypeOK, Statuses
  <1>2. CASE cursor = Len(rec)
    <2>1. VerdictOf(rec, v) /\ StatusReturns(rec, v)
      BY <1>2 DEF VerdictOf, NextEntry
    <2>2. QED
      BY <1>1, <2>1, StatusReturnsTrue
  <1>3. CASE cursor # Len(rec)
    <2>1. /\ Grounded /\ archive' = archive
          /\ UNCHANGED <<pc, current, record, journal>>
          /\ updated' = rec /\ cursor' = cursor + 1 /\ verdict' = v
      BY <1>3, NetworkGrounded DEF NextEntry, ScanFrame
    <2>2. VerdictTrue'
      <3>1. v = "Confirmed" => \A i \in 1..cursor' - 1 : Confirmed(updated'[i])
        BY <1>1, <2>1
      <3>2. \A r \in Runs : Closed(archive'[r])
        BY <2>1 DEF FInv, VerdictTrue
      <3>3. QED
        BY <2>1, <3>1, <3>2 DEF VerdictTrue, Closed, Confirmed
    <2>3. AllowanceStays'
      BY <2>1, NoAllowance
    <2>4. QED
      BY <2>1, <2>2, <2>3, NewVersionTrue DEF Preparing
  <1>4. QED
    BY <1>2, <1>3

(* An entry that is not confirmed is the last one, after a confirmed       *)
(* approval if there was one.                                              *)
LEMMA UnconfirmedIsLast ==
  ASSUME IInv, SInv, FInv, ScanFrame, pc = "status",
         \/ ~Confirmed(updated[cursor])
         \/ Receipt(updated[cursor].transaction) # "success"
  PROVE  cursor = Len(updated) /\ \A i \in 1..Len(updated) : i # cursor => Confirmed(updated[i])
  <1> DEFINE n == Len(updated)
  <1>1. /\ n \in Nat /\ cursor \in 1..n /\ DOMAIN updated = 1..n
        /\ Len(journal.record) = n
    BY ScannedEntry DEF ExecutionRecord
  <1>2. n <= 2
    <2>1. ApprovalThenSwap(journal.record)
      BY DEF SInv, StoredShape
    <2>2. QED
      BY <1>1, <2>1 DEF ApprovalThenSwap
  <1>3. n = 2 => Confirmed(updated[1])
    BY DEF FInv, ApprovalConfirmed
  <1>4. n = 2 => Receipt(updated[1].transaction) = "success"
    BY <1>1, <1>3, ConfirmedIsMined, VersionsAre
  <1> HIDE DEF n
  <1>5. cursor = n /\ (n = 1 \/ n = 2)
    BY <1>1, <1>2, <1>3, <1>4
  <1>6. \A i \in 1..n : i # cursor => n = 2 /\ i = 1
    BY <1>1, <1>5
  <1>7. QED
    BY <1>3, <1>5, <1>6 DEF n

LEMMA NotMinedTrue ==
  ASSUME IInv, SInv, FInv, ScanFrame, pc = "status",
         Receipt(updated[cursor].transaction) = "none"
  PROVE  ReceiptsSafe(NotMinedRecord, ReceiptOf, altered) /\ FirstConfirmed(NotMinedRecord)
  <1> DEFINE n == Len(updated)
  <1>1. /\ n \in Nat /\ cursor \in 1..n /\ DOMAIN updated = 1..n
        /\ DOMAIN NotMinedRecord = 1..n /\ Len(NotMinedRecord) = n
        /\ \A j \in 1..n : j # cursor => NotMinedRecord[j] = updated[j]
        /\ NotMinedRecord[cursor].receipt = "none"
    BY ScannedEntry, NotMinedVersion DEF ExecutionRecord
  <1>2. ReceiptsSafe(updated, ReceiptOf, altered) /\ FirstConfirmed(updated)
    BY StoredTrue
  <1>3. ReceiptsSafe(NotMinedRecord, ReceiptOf, altered)
    BY <1>1, <1>2 DEF ReceiptsSafe
  <1>4. cursor = n
    BY UnconfirmedIsLast
  <1> HIDE DEF n
  <1>5. n = 2 => NotMinedRecord[1] = updated[1]
    BY <1>1, <1>4
  <1>6. QED
    BY <1>1, <1>2, <1>3, <1>5 DEF FirstConfirmed, n

LEMMA MinedTrue ==
  ASSUME IInv, SInv, FInv, ScanFrame, pc = "status", HashKnown(updated[cursor]),
         updated[cursor].transaction \notin altered
  PROVE  /\ ReceiptsSafe(MinedRecord, ReceiptOf, altered) /\ FirstConfirmed(MinedRecord)
         /\ Receipt(updated[cursor].transaction) = "success" => Confirmed(MinedRecord[cursor])
  <1> DEFINE n == Len(updated)
             p == Receipt(updated[cursor].transaction)
  <1>1. /\ n \in Nat /\ cursor \in 1..n /\ DOMAIN updated = 1..n
        /\ DOMAIN MinedRecord = 1..n /\ Len(MinedRecord) = n
        /\ \A j \in 1..n : j # cursor => MinedRecord[j] = updated[j]
        /\ MinedRecord[cursor].receipt = p
        /\ MinedRecord[cursor].submission = "Submitted"
        /\ MinedRecord[cursor].transaction = updated[cursor].transaction
    BY ScannedEntry, MinedVersion DEF ExecutionRecord, SameEntries
  <1>2. ReceiptsSafe(updated, ReceiptOf, altered) /\ FirstConfirmed(updated)
    BY StoredTrue
  <1>3. p = ReceiptOf[updated[cursor].transaction]
    <2>1. updated[cursor].transaction \in Transactions
      BY <1>1, ScannedEntry, EntryTransactions
    <2>2. QED
      BY <2>1, MinedHasReceipt
  <1>4. p = "success" => Confirmed(MinedRecord[cursor])
    BY <1>1 DEF Confirmed
  <1> HIDE DEF p
  <1>5. ReceiptsSafe(MinedRecord, ReceiptOf, altered)
    <2>1. SUFFICES ASSUME NEW i \in 1..n, MinedRecord[i].receipt # "none"
                   PROVE  /\ MinedRecord[i].receipt = ReceiptOf[MinedRecord[i].transaction]
                          /\ MinedRecord[i].transaction \notin altered
      BY <1>1 DEF ReceiptsSafe
    <2>2. CASE i = cursor
      BY <1>1, <1>3, <2>2
    <2>3. CASE i # cursor
      BY <1>1, <1>2, <2>1, <2>3 DEF ReceiptsSafe
    <2>4. QED
      BY <2>2, <2>3
  <1>6. FirstConfirmed(MinedRecord)
    <2>1. ASSUME n = 2, cursor # n PROVE Confirmed(MinedRecord[1])
      <3>1. Receipt(updated[cursor].transaction) = "success"
        BY <2>1, UnconfirmedIsLast
      <3> HIDE DEF n
      <3>2. cursor = 1
        BY <1>1, <2>1
      <3>3. QED
        BY <1>4, <3>1, <3>2 DEF p
    <2>2. ASSUME n = 2, cursor = n PROVE Confirmed(MinedRecord[1])
      <3> HIDE DEF n
      <3>1. MinedRecord[1] = updated[1]
        BY <1>1, <2>2
      <3>2. QED
        BY <1>2, <2>2, <3>1 DEF FirstConfirmed, n
    <2>3. QED
      BY <1>1, <2>1, <2>2 DEF FirstConfirmed
  <1>7. QED
    BY <1>4, <1>5, <1>6 DEF p

LEMMA CheckEntryTrue == ASSUME IInv, IInv', SInv, FInv, CheckEntry PROVE FInv'
  <1> DEFINE e == updated[cursor]
             n == Len(updated)
  <1>1. /\ pc = "status" /\ ScanFrame /\ UNCHANGED <<networkVars, archive>>
    BY DEF CheckEntry, ScanFrame
  <1>2. /\ updated \in ExecutionRecord /\ SameEntries(updated, journal.record)
        /\ cursor \in 1..n /\ n \in Nat /\ DOMAIN updated = 1..n
        /\ ReceiptsSafe(updated, ReceiptOf, altered) /\ FirstConfirmed(updated)
    BY <1>1, ScannedEntry, StoredTrue DEF ExecutionRecord
  <1>3. /\ NotMinedRecord \in ExecutionRecord
        /\ SameEntries(NotMinedRecord, journal.record)
    BY <1>1, NotMinedVersion
  <1>4. CASE e.submission = "Unknown" /\ NextEntry(updated, "Pending")
    BY <1>1, <1>2, <1>4, NextEntryTrue
  <1>5. CASE e.submission = "Rejected" /\ StatusReturns(updated, "Failed")
    <2>1. ~Confirmed(updated[cursor])
      BY <1>5 DEF Confirmed
    <2>2. \A i \in 1..n : i # cursor => Confirmed(updated[i])
      BY <1>1, <2>1, UnconfirmedIsLast
    <2>3. Closed(updated)
      BY <1>2, <1>5, <2>2 DEF Closed, Confirmed
    <2>4. VerdictOf(updated, "Failed") /\ "Failed" \in Statuses
      BY <2>3 DEF VerdictOf, Statuses
    <2>5. QED
      BY <1>1, <1>2, <1>5, <2>4, StatusReturnsTrue
  <1>6. CASE Receipt(e.transaction) = "none" /\ NextEntry(NotMinedRecord, "Pending")
    BY <1>1, <1>3, <1>6, NotMinedTrue, NextEntryTrue
  <1>7. CASE Return("TransactionMismatch") /\ ClearScan /\ UNCHANGED <<record, journal>>
    BY <1>1, <1>7, EndsTrue DEF Return, ClearScan
  <1>8. CASE /\ HashKnown(e) /\ Mined(e.transaction) /\ e.transaction \notin altered
             /\ \/ Receipt(e.transaction) = "success" /\ NextEntry(MinedRecord, verdict)
                \/ Receipt(e.transaction) # "success" /\ StatusReturns(MinedRecord, "Failed")
    <2>1. /\ MinedRecord \in ExecutionRecord /\ SameEntries(MinedRecord, journal.record)
          /\ DOMAIN MinedRecord = 1..n /\ Len(MinedRecord) = n
          /\ \A j \in 1..n : j # cursor => MinedRecord[j] = updated[j]
          /\ MinedRecord[cursor].receipt = Receipt(e.transaction)
      BY <1>1, <1>8, MinedVersion
    <2>2. /\ ReceiptsSafe(MinedRecord, ReceiptOf, altered) /\ FirstConfirmed(MinedRecord)
          /\ Receipt(e.transaction) = "success" => Confirmed(MinedRecord[cursor])
      BY <1>1, <1>8, MinedTrue
    <2>3. CASE Receipt(e.transaction) = "success" /\ NextEntry(MinedRecord, verdict)
      <3>1. verdict \in {"Pending", "Confirmed"}
        BY <1>1 DEF IInv, TypeOK, Statuses, FInv, VerdictTrue
      <3>2. verdict = "Confirmed" => \A i \in 1..cursor - 1 : Confirmed(updated[i])
        BY <1>1 DEF FInv, VerdictTrue
      <3>3. \A i \in 1..cursor : i = cursor \/ (i \in 1..cursor - 1 /\ i \in 1..n)
        BY <1>2
      <3>4. verdict = "Confirmed" => \A i \in 1..cursor : Confirmed(MinedRecord[i])
        BY <1>2, <2>1, <2>2, <2>3, <3>2, <3>3
      <3>5. QED
        BY <1>1, <2>1, <2>2, <2>3, <3>1, <3>4, NextEntryTrue
    <2>4. CASE Receipt(e.transaction) # "success" /\ StatusReturns(MinedRecord, "Failed")
      <3>1. \A i \in 1..n : i # cursor => Confirmed(updated[i])
        BY <1>1, <2>4, UnconfirmedIsLast
      <3>2. MinedRecord[cursor].receipt # "none"
        BY <1>8, <2>1 DEF Receipt
      <3>3. \A i \in 1..n : MinedRecord[i].receipt # "none"
        BY <1>2, <2>1, <3>1, <3>2 DEF Confirmed
      <3>4. Closed(MinedRecord)
        BY <2>1, <3>3 DEF Closed
      <3>5. VerdictOf(MinedRecord, "Failed") /\ "Failed" \in Statuses
        BY <3>4 DEF VerdictOf, Statuses
      <3>6. QED
        BY <1>1, <2>1, <2>2, <2>4, <3>5, StatusReturnsTrue
    <2>5. QED
      BY <1>8, <2>3, <2>4
  <1>9. QED
    BY <1>4, <1>5, <1>6, <1>7, <1>8, CheckEntryCases

(* What present() archives is closed.                                      *)
LEMMA PresentTrue == ASSUME IInv, IInv', FInv, Present PROVE FInv'
  <1> DEFINE r == current[1].transaction.run
  <1>1. /\ pc = "present" /\ pc' = "idle" /\ ClearScan /\ Grounded /\ record' = record
        /\ Closed(current)
    BY NetworkGrounded DEF Present, Return, FInv, VerdictTrue
  <1>2. /\ \A q \in Runs : archive'[q] \in {archive[q], current}
        /\ journal'.record \in {journal.record, current, <<>>}
    <2>1. archive \in [Runs -> ExecutionRecord]
      BY DEF IInv, TypeOK
    <2>2. archive' = archive \/ archive' = [archive EXCEPT ![r] = current]
      BY DEF Present
    <2>3. \A q \in Runs : archive'[q] \in {archive[q], current}
      BY <2>1, <2>2
    <2>4. QED
      BY <2>3 DEF Present, NoJournal
  <1>3. VerdictTrue'
    <2>1. \A q \in Runs : Closed(archive'[q])
      <3>1. \A q \in Runs : Closed(archive[q])
        BY DEF FInv, VerdictTrue
      <3>2. QED
        BY <1>1, <1>2, <3>1
    <2>2. QED
      BY <1>1, <2>1 DEF VerdictTrue, Closed
  <1>4. RecordsTrue'
    <2>1. ReceiptsSafe(current, ReceiptOf', altered') /\ KeptReceipts
      BY <1>1, GroundedReceipts, StoredTrue
    <2>2. /\ record' \in Versions \union {<<>>, current}
          /\ journal'.record \in Versions \union {<<>>, current}
          /\ current' \in Versions \union {<<>>, current}
          /\ updated' \in Versions \union {<<>>, current}
          /\ \A q \in Runs : archive'[q] \in Versions \union {<<>>, current}
      BY <1>1, <1>2, VersionsAre DEF ClearScan
    <2>3. QED
      BY <2>1, <2>2, VersionsTrue DEF IInv, FInv
  <1>5. ApprovalConfirmed'
    BY <1>1, <1>2 DEF FInv, ApprovalConfirmed, ClearScan, Preparing
  <1>6. MinedWasPublic' /\ AllowanceStays'
    BY <1>1, GroundedMined, NoAllowance
  <1>7. QED
    BY <1>3, <1>4, <1>5, <1>6 DEF FInv

-----------------------------------------------------------------------------
(***************************************************************************)
(* Steps of the network and the chain.                                     *)
(***************************************************************************)

(* Before a swap leaves, the approval of its run is on the chain, if there *)
(* is one, and the swap itself is not.                                     *)
LEMMA ApprovalFirst ==
  ASSUME IInv, SInv, FInv, pc \in {"preflight", "push", "sign", "request"}, kind = "Swap"
  PROVE  /\ net[Tx(run, "Swap")] = "absent"
         /\ \/ net[Tx(run, "Approval")] = "absent"
            \/ Receipt(Tx(run, "Approval")) = "success" /\ Mined(Tx(run, "Approval"))
  <1> DEFINE a == Tx(run, "Approval")
  <1>1. pc \in Submitting /\ run \in Runs /\ record \in ExecutionRecord
    BY DEF IInv, TypeOK, MemoryIsDurable, Submitting
  <1>2. ASSUME record # <<>>, Confirmed(record[1]), record[1].transaction.kind = "Approval"
        PROVE  Receipt(a) = "success" /\ Mined(a)
    <2>1. 1 \in 1..Len(record) /\ DOMAIN record = 1..Len(record)
      BY <1>1, <1>2 DEF ExecutionRecord
    <2>2. record[1].transaction \in Transactions /\ record[1].transaction.run = run
      BY <1>1, <1>2, <2>1, EntryTransactions DEF IInv, MemoryIsDurable, RecordOf
    <2>3. record[1].transaction = a
      BY <1>2, <2>2 DEF Transactions, Tx
    <2>4. QED
      BY <1>2, <2>1, <2>3, ConfirmedIsMined, VersionsAre
  <1>3. CASE pc \in {"preflight", "push"}
    <2>1. pc \in Preparing /\ "Approval" \in Kinds
      BY <1>3 DEF Preparing, Kinds
    <2>2. net[Tx(run, "Swap")] = "absent"
      BY <2>1, SwapUnsent
    <2>3. CASE ApprovalOnly(record)
      <3>1. record # <<>> /\ record[1].transaction.kind = "Approval"
        BY <2>3 DEF ApprovalOnly
      <3>2. Confirmed(record[1])
        BY <2>1, <3>1 DEF FInv, ApprovalConfirmed
      <3>3. QED
        BY <1>2, <2>2, <3>1, <3>2
    <2>4. QED
      BY <2>1, <2>2, <2>3 DEF SInv, NotSentYet
  <1>4. CASE pc \in {"sign", "request"}
    <2>1. net[Tx(run, "Swap")] = "absent"
      BY <1>4 DEF SInv, NotSentYet, This
    <2>2. /\ record # <<>> /\ journal.record = record /\ Len(record) \in 1..Len(record)
          /\ record[Len(record)].transaction = Tx(run, "Swap")
      BY <1>4, SendingRecord DEF Sending, IInv, EntryBeforeSend, This
    <2>3. ApprovalThenSwap(record)
      BY <2>2 DEF SInv, StoredShape
    <2> DEFINE n == Len(record)
    <2>4. n = 2 => Confirmed(record[1]) /\ record[1].transaction.kind = "Approval"
      BY <2>2, <2>3 DEF FInv, ApprovalConfirmed, ApprovalThenSwap
    <2>5. n \in 1..n /\ n <= 2 /\ n \in Nat /\ record[n].transaction = Tx(run, "Swap")
      BY <1>1, <2>2, <2>3 DEF ApprovalThenSwap, ExecutionRecord
    <2> HIDE DEF n
    <2>6. CASE n = 2
      BY <1>2, <2>1, <2>2, <2>4, <2>6
    <2>7. CASE n = 1
      <3>1. \A i \in 1..n : record[i].transaction # a
        BY <2>5, <2>7 DEF Tx
      <3>2. "Approval" \in Kinds
        BY DEF Kinds
      <3>3. net[a] = "absent"
        BY <1>1, <2>2, <3>1, <3>2, UnrecordedUnsent DEF n
      <3>4. QED
        BY <2>1, <3>3
    <2>8. QED
      BY <2>5, <2>6, <2>7
  <1>5. QED
    BY <1>3, <1>4

(* So no pending transaction of the wallet can use the allowance up.       *)
LEMMA NonePending ==
  ASSUME IInv, SInv, FInv, pc \in {"preflight", "push", "sign", "request"}, kind = "Swap",
         record # <<>> \/ journal.file = "absent",
         NEW t \in Transactions, net[t] = "public"
  PROVE  Mined(t)
  <1>1. pc \in Submitting
    BY DEF Submitting
  <1>2. CASE t.run # run
    BY <1>1, <1>2, OthersSettled
  <1>3. CASE t.run = run
    <2>1. t = Tx(run, "Approval") \/ t = Tx(run, "Swap")
      BY <1>3 DEF Transactions, Tx, Kinds
    <2>2. QED
      BY <2>1, ApprovalFirst
  <1>4. QED
    BY <1>2, <1>3

(* A mined transaction gets a receipt, and no other receipt changes.       *)
LEMMA MineReceipts ==
  ASSUME TypeOK, NEW t \in Transactions, ~Mined(t), NEW ok \in BOOLEAN,
         ledger' = Append(ledger, [tx |-> t, ok |-> ok])
  PROVE  /\ \A g \in Transactions : Mined(g)' <=> g = t \/ Mined(g)
         /\ \A g \in Transactions : g # t => Receipt(g)' = Receipt(g)
  <1> DEFINE n == Len(ledger)
             m == [tx |-> t, ok |-> ok]
  <1>1. /\ n \in Nat /\ DOMAIN ledger = 1..n /\ DOMAIN ledger' = 1..(n + 1)
        /\ ledger'[n + 1] = m /\ \A i \in 1..n : ledger'[i] = ledger[i]
    BY DEF TypeOK, NetworkTypeOK
  <1> HIDE DEF n
  <1>2. /\ 1..(n + 1) = 1..n \union {n + 1}
        /\ m.tx = t
    BY <1>1
  <1> HIDE DEF m
  <1>3. \A g \in Transactions : Mined(g)' <=> g = t \/ Mined(g)
    BY <1>1, <1>2 DEF Mined
  <1>4. \A g \in Transactions : g # t =>
          ((\E i \in DOMAIN ledger' : ledger'[i].tx = g /\ ledger'[i].ok)
             <=> (\E i \in DOMAIN ledger : ledger[i].tx = g /\ ledger[i].ok))
    BY <1>1, <1>2
  <1>5. QED
    BY <1>3, <1>4 DEF Receipt

(* The world changes no record, and keeps every receipt.                   *)
LEMMA WorldKeepsTrue ==
  ASSUME IInv, IInv', FInv, KeptReceipts, MinedWasPublic', AllowanceStays',
         UNCHANGED <<runVars, scanVars, storeVars, pc, step, record>>
  PROVE  FInv'
  <1>1. UNCHANGED <<journal, archive, current, updated, verdict, cursor>>
    BY DEF storeVars, scanVars
  <1>2. VerdictTrue' /\ ApprovalConfirmed'
    BY <1>1 DEF FInv, VerdictTrue, Closed, Confirmed, ApprovalConfirmed
  <1>3. RecordsTrue'
    <2>1. ReceiptsSafe(<<>>, ReceiptOf', altered')
      BY DEF ReceiptsSafe
    <2>2. QED
      BY <1>1, <2>1, VersionsTrue, VersionsAre DEF IInv, FInv
  <1>4. QED
    BY <1>2, <1>3 DEF FInv

LEMMA DeliverTrue ==
  ASSUME IInv, IInv', FInv, NEW t \in Transactions, NEW m,
         Deliver(t, m) \/ Lose(t),
         UNCHANGED <<runVars, scanVars, storeVars, pc, step, record>>
  PROVE  FInv'
  <1>1. /\ net[t] = "flight" /\ UNCHANGED <<ledger, preapproved>>
        /\ altered' \subseteq altered \union {t}
        /\ \A g \in Transactions : g # t => net'[g] = net[g]
    BY DEF Deliver, Lose, IInv, TypeOK, NetworkTypeOK
  <1>2. ReceiptOf' = ReceiptOf
    BY <1>1 DEF ReceiptOf, Receipt, Mined
  <1>3. \A g \in Transactions : Mined(g) => g # t
    BY <1>1 DEF FInv, MinedWasPublic
  <1>4. KeptReceipts
    BY <1>1, <1>2, <1>3, MinedHasReceipt DEF KeptReceipts
  <1>5. MinedWasPublic'
    BY <1>1, <1>3 DEF FInv, MinedWasPublic, Mined
  <1>6. AllowanceStays'
    BY <1>1 DEF FInv, AllowanceStays, Simulated, Allowance, AllowanceAt, runVars, storeVars
  <1>7. QED
    BY <1>4, <1>5, <1>6, WorldKeepsTrue

LEMMA MineTrue ==
  ASSUME IInv, IInv', SInv, FInv, NEW t \in Transactions, Mine(t),
         UNCHANGED <<runVars, scanVars, storeVars, pc, step, record>>
  PROVE  FInv'
  <1>1. PICK ok \in BOOLEAN : ledger' = Append(ledger, [tx |-> t, ok |-> ok])
    BY DEF Mine
  <1>2. net[t] = "public" /\ ~Mined(t) /\ UNCHANGED <<net, altered>>
    BY DEF Mine
  <1>3. /\ \A g \in Transactions : Mined(g)' <=> g = t \/ Mined(g)
        /\ \A g \in Transactions : g # t => Receipt(g)' = Receipt(g)
    BY <1>1, <1>2, MineReceipts DEF IInv
  <1>4. KeptReceipts
    <2>1. ASSUME NEW g \in Transactions, ReceiptOf[g] # "none"
          PROVE  ReceiptOf'[g] = ReceiptOf[g]
      <3>1. g # t
        BY <1>2, <2>1, MinedHasReceipt
      <3>2. QED
        BY <1>3, <3>1 DEF ReceiptOf
    <2>2. QED
      BY <1>2, <2>1 DEF KeptReceipts
  <1>5. MinedWasPublic'
    BY <1>2, <1>3 DEF FInv, MinedWasPublic
  <1>6. AllowanceStays'
    <2>1. UNCHANGED <<pc, step, kind, run, signed, record, journal>>
      BY DEF runVars, storeVars
    <2>2. pc \in {"preflight", "push", "sign", "request"} /\ kind = "Swap"
            => ~(record # <<>> \/ journal.file = "absent")
      BY <1>2, NonePending
    <2>3. pc = "preflight" => step <= Len(Checks(run \in signed))
      BY DEF FInv, AllowanceStays
    <2>4. QED
      BY <2>1, <2>2, <2>3 DEF AllowanceStays
  <1>7. QED
    BY <1>4, <1>5, <1>6, WorldKeepsTrue

(* Without reorgs the world keeps the invariant.                           *)
LEMMA WorldTrue == ASSUME MaxReorgs = 0, IInv, IInv', SInv, FInv, World PROVE FInv'
  <1>1. ~Reorg
    BY DEF IInv, TypeOK, NetworkTypeOK, Reorg
  <1>2. UNCHANGED <<runVars, scanVars, storeVars, pc, step, record>>
    BY DEF World
  <1>3. PICK t \in Transactions : Deliver(t, t.run \notin signed) \/ Lose(t) \/ Mine(t)
    BY <1>1 DEF World
  <1>4. QED
    BY <1>2, <1>3, DeliverTrue, MineTrue

LEMMA NextTrue ==
  ASSUME MaxReorgs = 0, IInv, IInv', SInv, FInv, [Next]_vars PROVE FInv'
  <1>1. CASE StartRun \/ Resume \/ WaitTimesOut \/ Crash \/ World
    BY <1>1, StartRunTrue, ResumeTrue, WaitTimesOutTrue, CrashTrue, WorldTrue
  <1>2. CASE Process
    BY <1>2, CheckFundingTrue, NeedsApprovalTrue, RefreshTrue, CheckPassesTrue,
       CheckFailsTrue, PushTrue, SignFailsTrue, SendReturnsTrue, SignTrue, RequestTrue,
       HashReturnedTrue, UserRejectsTrue, SubmitterFailsTrue, AfterSubmitTrue,
       CheckEntryTrue, StatusFailsTrue, PollTrue, PresentTrue
    DEF Process
  <1>3. CASE Expire \/ Rest \/ UNCHANGED vars
    BY <1>3, ElsewhereTrue DEF Expire, Rest, vars
  <1>4. QED
    BY <1>1, <1>2, <1>3 DEF Next

-----------------------------------------------------------------------------
(***************************************************************************)
(* The theorems.                                                           *)
(***************************************************************************)

(* The three invariants hold in every reachable state.                     *)
THEOREM FinalityInvariantHolds ==
  ASSUME MaxReorgs = 0 PROVE Spec => []FinalityInvariant
  <1>1. Init => IInv /\ SInv /\ FInv
    BY InitIInv, InitSInv, InitFInv
  <1>2. (IInv /\ SInv /\ FInv) /\ [Next]_vars => (IInv /\ SInv /\ FInv)'
    <2>1. SUFFICES ASSUME IInv, SInv, FInv, [Next]_vars PROVE IInv' /\ SInv' /\ FInv'
      OBVIOUS
    <2>2. IInv' /\ SInv'
      BY <2>1, NextKeeps, NextSafe
    <2>3. QED
      BY <2>1, <2>2, NextTrue
  <1>3. QED
    BY <1>1, <1>2, PTL DEF Spec, FinalityInvariant, SafetyInvariant

LEMMA ArchivedIsFinal == IInv /\ SInv /\ FInv => ArchiveIsFinal
  <1>1. SUFFICES ASSUME IInv, SInv, FInv, NEW r \in Runs, archive[r] # <<>>
                 PROVE  /\ \A k \in Kinds : ~Live(Tx(r, k))
                        /\ \A i \in DOMAIN archive[r] : LET e == archive[r][i] IN
                             /\ e.receipt = Receipt(e.transaction)
                             /\ e.receipt # "none" => e.transaction \notin altered
    BY DEF ArchiveIsFinal
  <1>2. ASSUME NEW k \in Kinds PROVE ~Live(Tx(r, k))
    <2>1. Tx(r, k) \in Transactions /\ Tx(r, k).run = r
      BY DEF Tx, Transactions
    <2>2. QED
      BY <1>1, <2>1, ArchivedSettled
  <1> DEFINE rec == archive[r]
  <1>3. /\ rec \in Versions /\ rec \in ExecutionRecord /\ Closed(rec)
        /\ ReceiptsSafe(rec, ReceiptOf, altered)
    <2>1. rec \in Versions /\ Closed(rec)
      BY <1>1, VersionsAre DEF FInv, VerdictTrue
    <2>2. QED
      BY <1>1, <2>1, VersionTrue DEF IInv, FInv
  <1> HIDE DEF rec
  <1>4. ASSUME NEW i \in DOMAIN rec
        PROVE  /\ rec[i].receipt = Receipt(rec[i].transaction)
               /\ rec[i].receipt # "none" => rec[i].transaction \notin altered
    <2>1. rec[i].transaction \in Transactions
      BY <1>3, <1>4, EntryTransactions
    <2>2. CASE rec[i].receipt # "none"
      BY <1>3, <1>4, <2>1, <2>2, MinedHasReceipt DEF ReceiptsSafe
    <2>3. CASE rec[i].receipt = "none"
      <3>1. rec[i].submission = "Rejected"
        BY <1>3, <1>4, <2>3 DEF Closed
      <3>2. net[rec[i].transaction] \in {"absent", "refused"}
        BY <1>1, <1>3, <1>4, <3>1 DEF SInv, RejectedNeverLands, Versions
      <3>3. ~Mined(rec[i].transaction)
        BY <1>1, <2>1, <3>2 DEF FInv, MinedWasPublic
      <3>4. QED
        BY <2>1, <2>3, <3>3, MinedHasReceipt
    <2>4. QED
      BY <2>2, <2>3
  <1>5. QED
    BY <1>2, <1>4 DEF rec

(* Nothing of an archived run takes effect later, and its record agrees    *)
(* with the chain, for every number of runs, as long as no reorg happens.  *)
THEOREM ArchiveIsFinalHolds == ASSUME MaxReorgs = 0 PROVE Spec => []ArchiveIsFinal
  <1>1. QED
    BY ArchivedIsFinal, FinalityInvariantHolds, PTL DEF FinalityInvariant, SafetyInvariant

(* Only Request hands a transaction over.                                  *)
LEMMA HandsOverOnlyThis ==
  ASSUME IInv, [Next]_vars, NEW t \in Transactions, HandsOver(t)
  PROVE  Request /\ t = This
  <1>1. net[t] = "absent" /\ net'[t] = "flight" /\ net \in [Transactions -> NetState]
    BY DEF HandsOver, IInv, TypeOK, NetworkTypeOK
  <1>2. ~World
    <2>1. ASSUME NEW g \in Transactions, NEW m, Deliver(g, m) \/ Lose(g) \/ Mine(g) PROVE FALSE
      BY <1>1, <2>1 DEF Deliver, Lose, Mine
    <2>2. ~Reorg
      BY <1>1 DEF Reorg
    <2>3. QED
      BY <2>1, <2>2 DEF World
  <1>3. ~UserRejects /\ ~SubmitterFails
    BY <1>1 DEF UserRejects, SubmitterFails
  <1>4. net' # net
    BY <1>1
  <1>5. ~StartRun /\ ~Resume /\ ~WaitTimesOut /\ ~Crash /\ ~Expire /\ ~Rest /\ ~UNCHANGED vars
    BY <1>4 DEF StartRun, Resume, WaitTimesOut, Crash, Expire, Rest, vars, networkVars
  <1>6. /\ ~CheckFunding /\ ~NeedsApproval /\ ~Refresh /\ ~CheckPasses /\ ~CheckFails
        /\ ~Push /\ ~SignFails /\ ~Sign
    BY <1>4 DEF CheckFunding, NeedsApproval, Refresh, CheckPasses, CheckFails, Push,
                SignFails, Sign, networkVars
  <1>7. /\ ~HashReturned /\ ~WalletFails /\ ~AfterSubmit /\ ~CheckEntry /\ ~StatusFails
        /\ ~Poll /\ ~Present
    BY <1>4 DEF HashReturned, AcceptSubmission, WalletFails, AfterSubmit, CheckEntry,
                StatusFails, Poll, Present, networkVars
  <1>8. Request
    BY <1>2, <1>3, <1>5, <1>6, <1>7 DEF Next, Process
  <1>9. t = This
    BY <1>1, <1>8 DEF Request
  <1>10. QED
    BY <1>8, <1>9

(* A process that requests has its record, and its run is that of This.    *)
LEMMA RequestIsOfRun ==
  ASSUME IInv, Request
  PROVE  /\ pc = "request" /\ pc \in Submitting /\ record # <<>> /\ This.run = run
  BY SendingRecord DEF Request, Sending, Submitting, This, Tx

(* A transaction leaves only when nothing of another run can take effect.  *)
THEOREM SettledBeforeNextRunHolds ==
  ASSUME MaxReorgs = 0 PROVE Spec => SettledBeforeNextRun
  <1>1. (IInv /\ SInv /\ FInv) /\ [Next]_vars =>
          [\A t \in Transactions : HandsOver(t) =>
             \A g \in Transactions : g.run # t.run => ~Live(g)]_vars
    <2>1. SUFFICES ASSUME IInv, SInv, FInv, [Next]_vars, NEW t \in Transactions, HandsOver(t),
                          NEW g \in Transactions, g.run # t.run
                   PROVE  ~Live(g)
      OBVIOUS
    <2>2. Request /\ t = This
      BY <2>1, HandsOverOnlyThis
    <2>3. QED
      BY <2>1, <2>2, RequestIsOfRun, OthersSettled
  <1>2. QED
    BY <1>1, FinalityInvariantHolds, PTL DEF Spec, FinalityInvariant, SafetyInvariant, SettledBeforeNextRun

(* A swap leaves only under its allowance, after the approval of its run.  *)
THEOREM SwapFollowsAllowanceHolds ==
  ASSUME MaxReorgs = 0 PROVE Spec => SwapFollowsAllowance
  <1>1. (IInv /\ SInv /\ FInv) /\ [Next]_vars =>
          [\A r \in Runs : HandsOver(Tx(r, "Swap")) =>
             /\ Allowance
             /\ net[Tx(r, "Approval")] # "absent"
                  => Receipt(Tx(r, "Approval")) = "success"]_vars
    <2>1. SUFFICES ASSUME IInv, SInv, FInv, [Next]_vars, NEW r \in Runs,
                          HandsOver(Tx(r, "Swap"))
                   PROVE  /\ Allowance
                          /\ net[Tx(r, "Approval")] # "absent"
                               => Receipt(Tx(r, "Approval")) = "success"
      OBVIOUS
    <2>2. Tx(r, "Swap") \in Transactions
      BY DEF Tx, Transactions, Kinds
    <2>3. Request /\ Tx(r, "Swap") = This
      BY <2>1, <2>2, HandsOverOnlyThis
    <2>4. r = run /\ kind = "Swap"
      BY <2>3 DEF This, Tx
    <2>5. pc = "request" /\ record # <<>>
      BY <2>1, <2>3, RequestIsOfRun
    <2>6. Allowance
      BY <2>1, <2>4, <2>5 DEF FInv, AllowanceStays, Simulated
    <2>7. QED
      BY <2>1, <2>4, <2>5, <2>6, ApprovalFirst
  <1>2. QED
    BY <1>1, FinalityInvariantHolds, PTL DEF Spec, FinalityInvariant, SafetyInvariant, SwapFollowsAllowance

-----------------------------------------------------------------------------
(***************************************************************************)
(* The refinement of Outbox.                                               *)
(***************************************************************************)

(* The transaction has an entry on disk.                                   *)
Recorded(t) == \E i \in DOMAIN Durable(t.run) : Durable(t.run)[i].transaction = t

(* What a later version of the journal has in common with an earlier one.  *)
SameTransactions(a, b) ==
  DOMAIN a = DOMAIN b /\ \A i \in DOMAIN b : a[i].transaction = b[i].transaction
JournalKeeps ==
  \/ journal' = journal
  \/ journal.file # "saved" /\ journal'.file # "saved"
  \/ /\ journal.file = "saved" /\ journal'.file = "saved"
     /\ SameTransactions(journal'.record, journal.record)

(* A step of the execution layer is a step of Outbox or leaves it alone.   *)
Maps == Promise!Next \/ UNCHANGED Promise!vars

LEMMA SameEntriesTransactions ==
  ASSUME NEW a \in ExecutionRecord, NEW b \in ExecutionRecord, SameEntries(a, b)
  PROVE  SameTransactions(a, b)
  BY EntryTransactions DEF SameEntries, SameTransactions

LEMMA RecordedKept ==
  ASSUME archive' = archive, JournalKeeps, NEW t PROVE Recorded(t)' <=> Recorded(t)
  <1>1. CASE archive[t.run] # <<>>
    BY <1>1 DEF Recorded, Durable
  <1>2. CASE archive[t.run] = <<>> /\ journal' = journal
    BY <1>2 DEF Recorded, Durable
  <1>3. CASE archive[t.run] = <<>> /\ journal.file # "saved" /\ journal'.file # "saved"
    BY <1>3 DEF Recorded, Durable
  <1>4. CASE /\ archive[t.run] = <<>> /\ journal.file = "saved" /\ journal'.file = "saved"
             /\ SameTransactions(journal'.record, journal.record)
    <2>1. Durable(t.run) = journal.record /\ Durable(t.run)' = journal'.record
      BY <1>4 DEF Durable
    <2>2. QED
      BY <1>4, <2>1 DEF Recorded, SameTransactions
  <1>5. QED
    BY <1>1, <1>2, <1>3, <1>4 DEF JournalKeeps

LEMMA FateKept ==
  ASSUME NEW t \in Transactions, Recorded(t)' <=> Recorded(t),
         net[t] = "absent" <=> net'[t] = "absent", Live(t)' <=> Live(t)
  PROVE  Fate(t)' = Fate(t)
  BY DEF Fate, Recorded

(* The fate of a transaction, in words.                                    *)
LEMMA FateIs ==
  ASSUME NEW t \in Transactions
  PROVE  /\ Fate(t) = "none" <=> net[t] = "absent" /\ ~Recorded(t)
         /\ Fate(t) = "intended" <=> net[t] = "absent" /\ Recorded(t)
         /\ Fate(t) = "out" <=> Live(t)
         /\ Fate(t) = "settled" <=> net[t] # "absent" /\ ~Live(t)
  BY DEF Fate, Recorded, Live

LEMMA Becomes ==
  ASSUME archive' = archive, NEW t \in Transactions, NEW f, Fate(t)' = f,
         \A g \in Transactions : g # t => Fate(g)' = Fate(g)
  PROVE  Promise!Become(t, f)
  <1> DEFINE F == [g \in Transactions |-> Fate(g)]
  <1>1. F' = [F EXCEPT ![t] = f]
    <2>1. \A g \in Transactions : F'[g] = [F EXCEPT ![t] = f][g]
      OBVIOUS
    <2>2. QED
      BY <2>1
  <1>2. QED
    BY <1>1 DEF Promise!Become

LEMMA FatesStay ==
  ASSUME archive' = archive, JournalKeeps,
         \A t \in Transactions : /\ net[t] = "absent" <=> net'[t] = "absent"
                                 /\ Live(t)' <=> Live(t)
  PROVE  Maps
  <1>1. \A t \in Transactions : Fate(t)' = Fate(t)
    BY RecordedKept, FateKept
  <1>2. QED
    BY <1>1 DEF Maps, Promise!vars

(* One transaction that was on its way no longer is.                       *)
LEMMA Settles ==
  ASSUME archive' = archive, JournalKeeps, NEW t \in Transactions, Live(t),
         ~Live(t)', net'[t] # "absent",
         \A g \in Transactions : g # t => /\ net[g] = "absent" <=> net'[g] = "absent"
                                          /\ Live(g)' <=> Live(g)
  PROVE  Maps
  <1>1. Fate(t) = "out"
    BY FateIs
  <1>2. Fate(t)' = "settled"
    BY DEF Fate
  <1>3. \A g \in Transactions : g # t => Fate(g)' = Fate(g)
    BY RecordedKept, FateKept
  <1>4. Promise!Become(t, "settled")
    BY <1>2, <1>3, Becomes
  <1>5. QED
    BY <1>1, <1>4 DEF Maps, Promise!Next, Promise!Settle

-----------------------------------------------------------------------------
(***************************************************************************)
(* Steps of the process, as steps of Outbox.                               *)
(***************************************************************************)

(* What is on its way or intended has an entry on disk.                    *)
LEMMA FateRecorded ==
  ASSUME IInv, NEW t \in Transactions, Fate(t) # "none" PROVE Recorded(t)
  BY DEF IInv, WriteAhead, Fate, Recorded

LEMMA NothingHappens ==
  ASSUME archive' = archive, JournalKeeps, UNCHANGED <<net, ledger>> PROVE Maps
  BY FatesStay DEF Live, Mined

(* Writing outcomes and hashes keeps the journal's transactions.           *)
LEMMA SendingKeepsJournal ==
  ASSUME IInv, pc \in Sending,
         \/ journal' = journal
         \/ /\ journal' = [file |-> "saved", record |-> record']
            /\ \/ record' = WithSignedHash(record)
               \/ \E s \in SubmissionState :
                    \/ record' = WithSubmission(record, s)
                    \/ record' = WithSubmission(WithSignedHash(record), s)
  PROVE  JournalKeeps
  <1> DEFINE hashed == WithSignedHash(record)
  <1>1. /\ record \in ExecutionRecord /\ record # <<>>
        /\ journal = [file |-> "saved", record |-> record] /\ DOMAIN record = 1..Len(record)
    BY SendingRecord DEF ExecutionRecord
  <1>2. /\ SameTransactions(hashed, record) /\ hashed \in ExecutionRecord /\ hashed # <<>>
        /\ DOMAIN hashed = 1..Len(hashed)
    <2>1. hashed \in ExecutionRecord /\ hashed # <<>>
      <3>1. hashed \in ExecutionRecord /\ Len(hashed) = Len(record)
        BY <1>1, WithSignedHashSets
      <3>2. Len(record) # 0
        BY <1>1 DEF ExecutionRecord
      <3>3. QED
        BY <3>1, <3>2
    <2>2. SameTransactions(hashed, record)
      BY <1>1, WithSignedHashKeeps DEF SameTransactions
    <2>3. QED
      BY <2>1, <2>2 DEF ExecutionRecord
  <1> HIDE DEF hashed
  <1>3. ASSUME NEW s \in SubmissionState, NEW rec, rec = record \/ rec = hashed
        PROVE  SameTransactions(WithSubmission(rec, s), record)
    <2>1. rec \in ExecutionRecord /\ rec # <<>> /\ SameTransactions(rec, record)
          /\ DOMAIN rec = 1..Len(rec)
      BY <1>1, <1>2, <1>3 DEF SameTransactions
    <2>2. SameTransactions(WithSubmission(rec, s), rec)
      BY <2>1, WithSubmissionWrites DEF SameTransactions
    <2>3. QED
      BY <2>1, <2>2 DEF SameTransactions
  <1>4. journal' = journal \/ SameTransactions(record', record)
    BY <1>2, <1>3 DEF hashed
  <1>5. QED
    BY <1>1, <1>4 DEF JournalKeeps

LEMMA RejectKeepsJournal ==
  ASSUME IInv, pc \in Sending, NEW res, RejectSubmission(res) PROVE JournalKeeps
  <1>1. /\ record' = WithSubmission(record, "Rejected") /\ "Rejected" \in SubmissionState
        /\ journal' = journal \/ journal' = [file |-> "saved", record |-> record']
    BY DEF RejectSubmission, Persisted, PersistFails, PersistFailed, SubmissionState
  <1>2. QED
    BY <1>1, SendingKeepsJournal

LEMMA WaitReturnsKeepsJournal ==
  ASSUME IInv, pc \in {"status", "poll"}, NEW rec \in ExecutionRecord,
         SameEntries(rec, journal.record), NEW v, WaitReturns(rec, v)
  PROVE  JournalKeeps
  <1>1. journal' = journal \/ journal' = [file |-> "saved", record |-> rec]
    BY DEF WaitReturns, Persisted, PersistFails, PersistFailed
  <1>2. CASE journal' = [file |-> "saved", record |-> rec] /\ journal.file = "saved"
    <2>1. journal.record \in ExecutionRecord
      BY DEF IInv, TypeOK
    <2>2. QED
      BY <1>2, <2>1, SameEntriesTransactions DEF JournalKeeps
  <1>3. journal' = journal \/ journal.file = "saved"
    BY DEF WaitReturns, Persisted, PersistFails, PersistFailed, IInv, ScanOfJournal,
           Scanning, MemoryIsDurable
  <1>4. QED
    BY <1>1, <1>2, <1>3 DEF JournalKeeps

LEMMA CheckEntryMaps == ASSUME IInv, SInv, CheckEntry PROVE Maps
  <1>1. pc = "status" /\ ScanFrame /\ archive' = archive /\ UNCHANGED <<net, ledger>>
    BY DEF CheckEntry, ScanFrame, networkVars
  <1>2. ASSUME NEW rec \in ExecutionRecord, SameEntries(rec, journal.record), NEW v,
               NextEntry(rec, v) \/ StatusReturns(rec, v)
        PROVE  Maps
    <2>1. journal' = journal \/ WaitReturns(rec, v)
      BY <1>2 DEF NextEntry, StatusReturns
    <2>2. JournalKeeps
      BY <1>1, <1>2, <2>1, WaitReturnsKeepsJournal DEF JournalKeeps
    <2>3. QED
      BY <1>1, <2>2, NothingHappens
  <1>3. updated \in ExecutionRecord /\ SameEntries(updated, journal.record)
    BY <1>1, ScannedEntry
  <1>4. CASE NextEntry(updated, "Pending") \/ StatusReturns(updated, "Failed")
    BY <1>2, <1>3, <1>4
  <1>5. CASE NextEntry(NotMinedRecord, "Pending")
    BY <1>1, <1>2, <1>5, NotMinedVersion
  <1>6. CASE UNCHANGED <<record, journal>>
    BY <1>1, <1>6, NothingHappens DEF JournalKeeps
  <1>7. CASE /\ HashKnown(updated[cursor])
             /\ NextEntry(MinedRecord, verdict) \/ StatusReturns(MinedRecord, "Failed")
    BY <1>1, <1>2, <1>7, MinedVersion
  <1>8. QED
    BY <1>4, <1>5, <1>6, <1>7, CheckEntryCases

(* The entry that is pushed is the intent.                                 *)
LEMMA PushMaps == ASSUME IInv, SInv, Push PROVE Maps
  <1>1. /\ pc = "push" /\ pc \in Submitting /\ pc \in Preparing
        /\ archive' = archive /\ UNCHANGED <<net, ledger>>
    BY DEF Push, Submitting, Preparing, networkVars
  <1>2. /\ run \in Runs /\ kind \in Kinds /\ record \in ExecutionRecord
        /\ archive[run] = <<>> /\ record' = Pushed(record)
        /\ record # <<>> => RecordOf(record, run) /\ journal.file = "saved"
        /\ record # <<>> => journal.record = record
    BY <1>1 DEF IInv, TypeOK, MemoryIsDurable, Push
  <1>3. CASE journal' = journal \/ (journal.file # "saved" /\ journal'.file # "saved")
    BY <1>1, <1>3, NothingHappens DEF JournalKeeps
  <1>4. CASE /\ journal' = [file |-> "saved", record |-> record']
             /\ record = <<>> => journal.file = "absent"
    <2> DEFINE n == Len(record)
    <2>1. PICK t \in Transactions : t = This /\ t.run = run
      <3>1. This \in Transactions /\ This.run = run
        BY <1>2 DEF This, Tx, Transactions
      <3>2. QED
        BY <3>1
    <2>2. /\ n \in Nat /\ DOMAIN record = 1..n /\ DOMAIN record' = 1..(n + 1)
          /\ \A i \in 1..n : record'[i] = record[i]
          /\ record'[n + 1].transaction = t /\ n + 1 \in 1..(n + 1)
          /\ 1..(n + 1) = 1..n \union {n + 1}
      BY <1>2, <2>1, PushedAppends DEF ExecutionRecord
    <2>3. net[t] = "absent"
      BY <1>1, <2>1, ThisUnsent
    <2>4. \A i \in 1..n : record[i].transaction # t
      <3>1. CASE record = <<>>
        BY <2>2, <3>1
      <3>2. CASE record # <<>>
        <4>1. ApprovalOnly(record) /\ kind # "Approval"
          BY <1>1, <3>2 DEF SInv, NotSentYet
        <4>2. t.kind = kind
          BY <2>1 DEF This, Tx
        <4>3. \A i \in 1..n : record[i].transaction.kind = "Approval"
          BY <2>2, <4>1 DEF ApprovalOnly
        <4> HIDE DEF n
        <4>4. QED
          BY <4>1, <4>2, <4>3
      <3>3. QED
        BY <3>1, <3>2
    <2> HIDE DEF n
    (* Before the step only this run has entries on disk, none of them of t. *)
    <2>5. \A g \in Transactions : archive[g.run] = <<>> =>
            (Recorded(g) <=> \E i \in 1..n : record[i].transaction = g)
      <3>1. CASE record = <<>>
        <4>1. journal.file # "saved" /\ \A i \in 1..n : FALSE
          BY <1>4, <2>2, <3>1
        <4>2. QED
          BY <4>1 DEF Recorded, Durable
      <3>2. CASE record # <<>>
        BY <1>2, <2>2, <3>2 DEF Recorded, Durable
      <3>3. QED
        BY <3>1, <3>2
    <2>6. \A g \in Transactions : archive[g.run] = <<>> =>
            (Recorded(g)' <=> \E i \in 1..(n + 1) : record'[i].transaction = g)
      BY <1>1, <1>4, <2>2 DEF Recorded, Durable
    <2>7. \A g \in Transactions : archive[g.run] # <<>> => (Recorded(g)' <=> Recorded(g))
      BY <1>1 DEF Recorded, Durable
    <2>8. \A g \in Transactions : g # t => (Recorded(g)' <=> Recorded(g))
      BY <2>2, <2>5, <2>6, <2>7
    <2>9. ~Recorded(t) /\ Recorded(t)'
      BY <1>2, <2>2, <2>1, <2>4, <2>5, <2>6
    <2>10. /\ \A g \in Transactions : g # t => Fate(g)' = Fate(g)
           /\ Fate(t) = "none" /\ Fate(t)' = "intended"
      <3>1. \A g \in Transactions : Live(g)' <=> Live(g)
        BY <1>1 DEF Live, Mined
      <3>2. \A g \in Transactions : g # t => Fate(g)' = Fate(g)
        BY <1>1, <2>8, <3>1, FateKept
      <3>3. Fate(t) = "none"
        BY <2>1, <2>3, <2>9, FateIs
      <3>4. Fate(t)' = "intended"
        BY <1>1, <2>3, <2>9 DEF Fate, Recorded
      <3>5. QED
        BY <3>2, <3>3, <3>4
    <2>11. \A g \in Transactions : g.run # t.run /\ Fate(g) # "none" => archive[g.run] # <<>>
      <3>1. SUFFICES ASSUME NEW g \in Transactions, g.run # run, Fate(g) # "none",
                            archive[g.run] = <<>>
                     PROVE  FALSE
        BY <2>1
      <3>2. PICK i \in 1..n : record[i].transaction = g
        BY <2>5, <3>1, FateRecorded
      <3>3. record # <<>>
        BY <2>2, <3>2
      <3>4. RecordOf(record, run)
        BY <1>2, <3>3
      <3>5. QED
        BY <3>1, <3>2, <3>4 DEF RecordOf, n
    <2>12. t.run \notin {r \in Runs : archive[r] # <<>>}
           /\ \A g \in Transactions : g.run # t.run /\ Fate(g) # "none"
                => g.run \in {r \in Runs : archive[r] # <<>>}
      BY <1>2, <2>1, <2>11 DEF Transactions
    <2>13. Promise!Become(t, "intended")
      BY <1>1, <2>1, <2>10, Becomes
    <2>14. QED
      BY <2>1, <2>10, <2>12, <2>13 DEF Maps, Promise!Next, Promise!Intend
  <1>5. QED
    BY <1>3, <1>4
    DEF Push, Persisted, PersistFails, PersistFailed, BeginAllowed, TornFile

(* What is requested goes out, after its intent.                           *)
LEMMA RequestMaps == ASSUME IInv, SInv, Request PROVE Maps
  <1>1. /\ pc = "request" /\ pc \in Sending /\ archive' = archive /\ journal' = journal
        /\ ledger' = ledger /\ net' = [net EXCEPT ![This] = "flight"]
    BY DEF Request, Sending, storeVars
  <1>2. /\ run \in Runs /\ archive[run] = <<>> /\ record \in ExecutionRecord
        /\ journal = [file |-> "saved", record |-> record] /\ Len(record) \in 1..Len(record)
        /\ record[Len(record)].transaction = This /\ DOMAIN record = 1..Len(record)
        /\ net[This] = "absent" /\ net \in [Transactions -> NetState]
    BY <1>1, SendingRecord
    DEF IInv, TypeOK, NetworkTypeOK, EntryBeforeSend, SInv, NotSentYet, ExecutionRecord
  <1>3. PICK t \in Transactions : t = This /\ t.run = run
    <2>1. This \in Transactions /\ This.run = run
      BY <1>2 DEF This, Tx, Transactions, IInv, TypeOK
    <2>2. QED
      BY <2>1
  <1>4. Recorded(t)
    BY <1>2, <1>3 DEF Recorded, Durable
  <1>5. Fate(t) = "intended"
    BY <1>2, <1>3, <1>4, FateIs
  <1>6. Fate(t)' = "out"
    <2>1. net'[t] = "flight"
      BY <1>1, <1>2, <1>3
    <2>2. QED
      BY <2>1 DEF Fate, Live
  <1>7. \A g \in Transactions : g # t => Fate(g)' = Fate(g)
    <2>1. SUFFICES ASSUME NEW g \in Transactions, g # t PROVE Fate(g)' = Fate(g)
      OBVIOUS
    <2>2. net'[g] = net[g]
      BY <1>1, <1>2, <1>3, <2>1
    <2>3. Recorded(g)' <=> Recorded(g)
      BY <1>1, RecordedKept DEF JournalKeeps
    <2>4. Live(g)' <=> Live(g)
      BY <1>1, <2>2 DEF Live, Mined
    <2>5. QED
      BY <2>2, <2>3, <2>4, FateKept
  <1>8. Promise!Become(t, "out")
    BY <1>1, <1>6, <1>7, Becomes
  <1>9. t.run \notin {r \in Runs : archive[r] # <<>>}
    BY <1>2, <1>3
  <1>10. QED
    BY <1>5, <1>8, <1>9 DEF Maps, Promise!Next, Promise!Send

(* A refusal settles the transaction; its journal may be saved with it.    *)
LEMMA RefusalMaps ==
  ASSUME IInv, pc \in Sending, net[This] = "flight", JournalKeeps,
         net' = [net EXCEPT ![This] = "refused"], ledger' = ledger, archive' = archive
  PROVE  Maps
  <1>1. PICK t \in Transactions : t = This
    <2>1. This \in Transactions
      BY SendingRecord DEF This, Tx, Transactions, IInv, TypeOK
    <2>2. QED
      BY <2>1
  <1>2. /\ net[t] = "flight" /\ net'[t] = "refused"
        /\ \A g \in Transactions : g # t => net'[g] = net[g]
    BY <1>1 DEF IInv, TypeOK, NetworkTypeOK
  <1>3. Live(t) /\ ~Live(t)'
    BY <1>2 DEF Live
  <1>4. \A g \in Transactions : g # t => (Live(g)' <=> Live(g))
    BY <1>2 DEF Live, Mined
  <1>5. QED
    BY <1>2, <1>3, <1>4, Settles

LEMMA UserRejectsMaps == ASSUME IInv, UserRejects PROVE Maps
  <1>1. /\ pc \in Sending /\ net[This] = "flight" /\ RejectSubmission("Rejected")
        /\ net' = [net EXCEPT ![This] = "refused"] /\ ledger' = ledger /\ archive' = archive
    BY DEF UserRejects, Sending
  <1>2. QED
    BY <1>1, RejectKeepsJournal, RefusalMaps

LEMMA SubmitterFailsMaps == ASSUME IInv, SubmitterFails PROVE Maps
  <1>1. pc \in Sending /\ ledger' = ledger /\ archive' = archive
    BY DEF SubmitterFails, Sending
  <1>2. PICK error \in SubmitErrors :
          /\ IF NotTaken(error)
             THEN net[This] = "flight" /\ net' = [net EXCEPT ![This] = "refused"]
             ELSE net' = net
          /\ IF IsRejection(error)
             THEN RejectSubmission("BroadcastRejected")
             ELSE Return("UnknownBroadcast") /\ UNCHANGED <<record, journal, scanVars>>
    BY DEF SubmitterFails
  <1>3. JournalKeeps
    BY <1>1, <1>2, RejectKeepsJournal DEF JournalKeeps
  <1>4. CASE net' = net
    BY <1>1, <1>3, <1>4, NothingHappens
  <1>5. CASE net[This] = "flight" /\ net' = [net EXCEPT ![This] = "refused"]
    BY <1>1, <1>3, <1>5, RefusalMaps
  <1>6. QED
    BY <1>2, <1>4, <1>5

(* Archiving closes the run; the entries move to the archive.              *)
LEMMA PresentMaps == ASSUME IInv, SInv, FInv, Present PROVE Maps
  <1>1. /\ pc = "present" /\ UNCHANGED <<net, ledger>> /\ Closed(current)
        /\ SameEntries(current, journal.record) /\ journal.file = "saved"
        /\ journal.record \in ExecutionRecord /\ current \in ExecutionRecord
        /\ archive \in [Runs -> ExecutionRecord]
    BY DEF Present, networkVars, IInv, TypeOK, ScanOfJournal, Scanning, FInv, VerdictTrue
  <1>2. SameTransactions(current, journal.record)
    BY <1>1, SameEntriesTransactions
  <1>3. CASE /\ archive' = archive
             /\ journal' \in {journal, [file |-> "saved", record |-> current]}
    <2>1. JournalKeeps
      BY <1>1, <1>2, <1>3 DEF JournalKeeps
    <2>2. QED
      BY <1>1, <1>3, <2>1, NothingHappens
  <1>4. CASE /\ journal' = NoJournal
             /\ archive' = [archive EXCEPT ![current[1].transaction.run] = current]
    <2>1. PICK q \in Runs : RecordOf(journal.record, q) /\ archive[q] = <<>>
      BY <1>1 DEF IInv, JournalOfOneRun
    <2>2. RecordOf(current, q)
      BY <1>1, <2>1, SameEntriesCarries
    <2>3. 1 \in 1..Len(current) /\ DOMAIN journal.record = 1..Len(journal.record)
      BY <1>1, <2>2 DEF RecordOf, ExecutionRecord
    <2>4. current[1].transaction.run = q /\ current # <<>>
      BY <2>2, <2>3 DEF RecordOf
    <2>5. /\ archive'[q] = current
          /\ \A r \in Runs : r # q => archive'[r] = archive[r]
      BY <1>1, <1>4, <2>1, <2>4
    <2>6. journal'.file # "saved"
      BY <1>4 DEF NoJournal
    <2>7. \A t \in Transactions : Recorded(t)' <=> Recorded(t)
      <3>1. ASSUME NEW t \in Transactions, t.run = q PROVE Recorded(t)' <=> Recorded(t)
        <4>1. Durable(t.run) = journal.record /\ Durable(t.run)' = current
          BY <1>1, <2>1, <2>4, <2>5, <3>1 DEF Durable
        <4>2. QED
          BY <1>2, <4>1 DEF Recorded, SameTransactions
      <3>2. ASSUME NEW t \in Transactions, t.run # q, archive[t.run] # <<>>
            PROVE  Recorded(t)' <=> Recorded(t)
        <4>1. archive'[t.run] = archive[t.run]
          BY <2>5, <3>2 DEF Transactions
        <4>2. QED
          BY <3>2, <4>1 DEF Recorded, Durable
      <3>3. ASSUME NEW t \in Transactions, t.run # q, archive[t.run] = <<>>
            PROVE  ~Recorded(t)' /\ ~Recorded(t)
        <4>1. archive'[t.run] = <<>>
          BY <2>5, <3>3 DEF Transactions
        <4>2. Durable(t.run)' = <<>> /\ Durable(t.run) = journal.record
          BY <1>1, <2>6, <3>3, <4>1 DEF Durable
        <4>3. \A i \in DOMAIN journal.record : journal.record[i].transaction.run = q
          BY <2>1, <2>3 DEF RecordOf
        <4>4. QED
          BY <3>3, <4>2, <4>3 DEF Recorded
      <3>4. QED
        BY <3>1, <3>2, <3>3
    <2>8. \A t \in Transactions : Fate(t)' = Fate(t)
      <3>1. \A t \in Transactions : Live(t)' <=> Live(t)
        BY <1>1 DEF Live, Mined
      <3>2. QED
        BY <1>1, <2>7, <3>1, FateKept
    <2>9. \A t \in Transactions : t.run = q => Fate(t) # "out"
      <3>1. SUFFICES ASSUME NEW t \in Transactions, t.run = q, Live(t) PROVE FALSE
        BY FateIs
      <3>2. Recorded(t)
        BY <3>1, FateIs, FateRecorded
      <3>3. PICK i \in DOMAIN journal.record : journal.record[i].transaction = t
        BY <1>1, <2>1, <3>1, <3>2 DEF Recorded, Durable
      <3>4. i \in DOMAIN current /\ current[i].transaction = t
        BY <1>2, <3>3 DEF SameTransactions
      <3>5. ~Live(current[i].transaction)
        BY <1>1, <3>4, ClosedIsSettled, VersionsAre
      <3>6. QED
        BY <3>1, <3>4, <3>5
    <2>10. {r \in Runs : archive'[r] # <<>>} = {r \in Runs : archive[r] # <<>>} \union {q}
      BY <2>1, <2>4, <2>5
    <2>11. q \notin {r \in Runs : archive[r] # <<>>}
      BY <2>1
    <2>12. QED
      BY <2>1, <2>8, <2>9, <2>10, <2>11 DEF Maps, Promise!Next, Promise!Close
  <1>5. QED
    BY <1>3, <1>4 DEF Present

(* Delivery changes no fate; losing or mining a transaction settles it.    *)
LEMMA WorldMaps == ASSUME MaxReorgs = 0, IInv, FInv, World PROVE Maps
  <1>1. archive' = archive /\ JournalKeeps /\ net \in [Transactions -> NetState]
    BY DEF World, storeVars, JournalKeeps, IInv, TypeOK, NetworkTypeOK
  <1>2. ~Reorg
    BY DEF IInv, TypeOK, NetworkTypeOK, Reorg
  <1>3. PICK t \in Transactions : Deliver(t, t.run \notin signed) \/ Lose(t) \/ Mine(t)
    BY <1>2 DEF World
  <1>4. CASE Deliver(t, t.run \notin signed)
    <2>1. /\ net[t] = "flight" /\ net'[t] = "public" /\ ledger' = ledger
          /\ \A g \in Transactions : g # t => net'[g] = net[g]
      BY <1>1, <1>4 DEF Deliver
    <2>2. ~Mined(t)
      BY <2>1 DEF FInv, MinedWasPublic
    <2>3. Live(t) /\ Live(t)'
      BY <2>1, <2>2 DEF Live, Mined
    <2>4. \A g \in Transactions : /\ net[g] = "absent" <=> net'[g] = "absent"
                                  /\ Live(g)' <=> Live(g)
      BY <2>1, <2>3 DEF Live, Mined
    <2>5. QED
      BY <1>1, <2>4, FatesStay
  <1>5. CASE Lose(t)
    <2>1. /\ net[t] = "flight" /\ net'[t] = "lost" /\ ledger' = ledger
          /\ \A g \in Transactions : g # t => net'[g] = net[g]
      BY <1>1, <1>5 DEF Lose
    <2>2. Live(t) /\ ~Live(t)' /\ \A g \in Transactions : g # t => (Live(g)' <=> Live(g))
      BY <2>1 DEF Live, Mined
    <2>3. QED
      BY <1>1, <2>1, <2>2, Settles
  <1>6. CASE Mine(t)
    <2>1. net[t] = "public" /\ ~Mined(t) /\ net' = net
      BY <1>6 DEF Mine
    <2>2. PICK ok \in BOOLEAN : ledger' = Append(ledger, [tx |-> t, ok |-> ok])
      BY <1>6 DEF Mine
    <2>3. \A g \in Transactions : Mined(g)' <=> g = t \/ Mined(g)
      BY <2>1, <2>2, MineReceipts DEF IInv
    <2>4. Live(t) /\ ~Live(t)' /\ \A g \in Transactions : g # t => (Live(g)' <=> Live(g))
      BY <2>1, <2>3 DEF Live
    <2>5. QED
      BY <1>1, <2>1, <2>4, Settles
  <1>7. QED
    BY <1>3, <1>4, <1>5, <1>6

LEMMA NextMaps == ASSUME MaxReorgs = 0, IInv, SInv, FInv, [Next]_vars PROVE Maps
  <1>1. CASE StartRun \/ Resume \/ Crash \/ Expire \/ CheckFunding \/ NeedsApproval
             \/ Refresh \/ CheckPasses \/ CheckFails \/ WalletFails
             \/ AfterSubmit \/ StatusFails \/ Poll \/ Rest \/ UNCHANGED vars
    <2>1. UNCHANGED <<journal, archive, net, ledger>>
      BY <1>1
      DEF StartRun, Resume, Crash, Expire, CheckFunding, NeedsApproval, Refresh,
          CheckPasses, CheckFails, WalletFails, AfterSubmit, StatusFails, Poll,
          Rest, vars, storeVars, networkVars
    <2>2. QED
      BY <2>1, NothingHappens DEF JournalKeeps
  <1>2. CASE SignFails \/ Sign \/ HashReturned
    <2>1. pc \in Sending /\ archive' = archive /\ UNCHANGED <<net, ledger>>
      BY <1>2 DEF SignFails, Sign, HashReturned, AcceptSubmission, Sending, networkVars
    <2>2. CASE SignFails
      BY <2>1, <2>2, RejectKeepsJournal, NothingHappens DEF SignFails
    <2>3. CASE Sign
      <3>1. /\ record' = WithSignedHash(record)
               \/ record' = WithSubmission(WithSignedHash(record), "Rejected")
            /\ journal' = journal \/ journal' = [file |-> "saved", record |-> record']
            /\ "Rejected" \in SubmissionState
        BY <2>3 DEF Sign, SaveHash, Persisted, PersistFails, PersistFailed, SubmissionState
      <3>2. QED
        BY <2>1, <3>1, SendingKeepsJournal, NothingHappens
    <2>4. CASE HashReturned
      <3>1. /\ record' = WithSubmission(record, "Submitted") /\ "Submitted" \in SubmissionState
            /\ journal' = journal \/ journal' = [file |-> "saved", record |-> record']
        BY <2>4 DEF HashReturned, AcceptSubmission, Persisted, PersistFails, PersistFailed,
                    SubmissionState
      <3>2. QED
        BY <2>1, <3>1, SendingKeepsJournal, NothingHappens
    <2>5. QED
      BY <1>2, <2>2, <2>3, <2>4
  <1>3. CASE WaitTimesOut
    <2>1. /\ pc \in {"status", "poll"} /\ WaitReturns(current, "Pending")
          /\ archive' = archive /\ UNCHANGED <<net, ledger>>
      BY <1>3 DEF WaitTimesOut, Waiting, networkVars
    <2>2. current \in ExecutionRecord /\ SameEntries(current, journal.record)
      BY <2>1 DEF IInv, TypeOK, ScanOfJournal, Scanning
    <2>3. QED
      BY <2>1, <2>2, WaitReturnsKeepsJournal, NothingHappens
  <1>4. CASE Push \/ Request \/ UserRejects \/ SubmitterFails \/ CheckEntry \/ Present \/ World
    BY <1>4, PushMaps, RequestMaps, UserRejectsMaps, SubmitterFailsMaps, CheckEntryMaps,
       PresentMaps, WorldMaps
  <1>5. QED
    BY <1>1, <1>2, <1>3, <1>4 DEF Next, Process

LEMMA InitMaps == Init => Promise!Init
  <1>1. SUFFICES ASSUME Init PROVE Promise!Init
    OBVIOUS
  <1>2. \A t \in Transactions : Fate(t) = "none"
    <2>1. SUFFICES ASSUME NEW t \in Transactions PROVE Fate(t) = "none"
      OBVIOUS
    <2>2. net[t] = "absent" /\ Durable(t.run) = <<>>
      BY <1>1 DEF Init, NetworkInit, Durable, NoJournal, Transactions
    <2>3. QED
      BY <2>2 DEF Fate
  <1>3. {r \in Runs : archive[r] # <<>>} = {}
    BY <1>1 DEF Init
  <1>4. QED
    BY <1>2, <1>3 DEF Promise!Init

(* Sending through the journal, with every crash, timeout, late answer and *)
(* failing save, is no more than: record the intent, send once, settle,    *)
(* close, one run at a time.                                               *)
THEOREM ExecutionImplementsOutbox == ASSUME MaxReorgs = 0 PROVE Spec => ImplementsOutbox
  <1>1. Init => Promise!Init
    BY InitMaps
  <1>2. (IInv /\ SInv /\ FInv) /\ [Next]_vars => [Promise!Next]_(Promise!vars)
    BY NextMaps DEF Maps
  <1>3. QED
    BY <1>1, <1>2, FinalityInvariantHolds, PTL DEF Spec, FinalityInvariant, SafetyInvariant, ImplementsOutbox, Promise!Spec
=============================================================================
