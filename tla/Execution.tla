------------------------------ MODULE Execution ------------------------------
(***************************************************************************)
(* One wallet's use of the execution layer: Execution::submit with its     *)
(* preflight, journal, sends and waits, check_status, and the caller that  *)
(* resumes and archives journalled runs (src/src/execution.rs,             *)
(* src/src/fee_router/trader.rs, src/examples/swap_frame.rs).              *)
(* One process runs at a time; it may crash at every await.                *)
(***************************************************************************)
EXTENDS Network

VARIABLES
  pc,        \* where the process is; "idle" between calls
  step,      \* position in the preflight of send
  kind,      \* the kind being sent
  run,       \* the number of submit calls so far: the current run
  signed,    \* runs that sign locally and use a Submitter (with_submitter)
  pinned,    \* the allowance suffices at the prepared swap's block_hash
  expired,   \* the clock has reached deadline_unix_seconds
  record,    \* Execution.record
  journal,   \* the journal's file: absent, saved or torn, and its record
  archive,   \* the records of resolved runs
  caller,    \* who awaits check_status: the approval, the swap or --resume
  current,   \* wait's last complete result, or the record present() saves
  updated,   \* check_status's copy of the record
  cursor,    \* the entry check_status looks at
  verdict,   \* check_status's status so far
  result     \* what the last call returned: a status or a failure

runVars   == <<kind, run, signed, pinned>>
scanVars  == <<caller, current, updated, cursor, verdict>>
storeVars == <<journal, archive>>
vars == <<networkVars, runVars, scanVars, storeVars, pc, step, expired, record,
          result>>

Locations == {"idle", "funding", "allowance", "preflight", "push", "sign",
              "request", "response", "submitted", "status", "poll", "refresh",
              "present"}
Statuses  == {"Pending", "Confirmed", "Failed"}

(* send's checks before it pushes an entry, in order.                      *)
Checks(sign) ==
  IF sign
  THEN <<"deadline", "chain", "broadcaster", "signer", "fees", "estimate",
         "gas_funding", "nonce", "simulate", "deadline">>
  ELSE <<"deadline", "chain", "accounts", "simulate", "estimate",
         "gas_funding", "nonce", "deadline">>

(* The failure of a check.                                                 *)
FailureOf(check) == CASE check = "deadline"    -> "Expired"
                      [] check = "broadcaster" -> "BroadcastRejected"
                      [] OTHER                 -> "Preflight"

Failures == {"Preflight", "Expired", "BroadcastRejected", "AllowanceNotVisible",
             "Persistence", "Signing", "SignatureMismatch",
             "Rejected", "UnknownSubmission", "UnknownBroadcast", "Refresh",
             "IntentChanged", "Confirmation", "TransactionMismatch"}

(* Errors of a submitter, and those that prove it did not take the         *)
(* transaction: the chain is refused before the POST, and credentials      *)
(* before the body is read.                                                *)
SubmitErrors == {"UnsupportedChain", "Unauthorized", "HttpStatus", "Transport",
                 "Rpc", "InvalidResponse", "HashMismatch"}
NotTaken(error) == error \in {"UnsupportedChain", "Unauthorized"}

TypeOK ==
  /\ NetworkTypeOK
  /\ pc \in Locations
  /\ step \in Nat \ {0}
  /\ kind \in Kinds
  /\ run \in 0..MaxRuns
  /\ signed \subseteq Runs
  /\ pinned \in BOOLEAN
  /\ expired \in BOOLEAN
  /\ record \in ExecutionRecord
  /\ journal \in [file : {"absent", "saved", "torn"}, record : ExecutionRecord]
  /\ archive \in [Runs -> ExecutionRecord]
  /\ caller \in {"none", "approval", "swap", "resume"}
  /\ current \in ExecutionRecord
  /\ updated \in ExecutionRecord
  /\ cursor \in Nat
  /\ verdict \in Statuses
  /\ result \in {"none"} \union Statuses \union Failures

NoJournal == [file |-> "absent", record |-> <<>>]
TornFile  == [file |-> "torn", record |-> <<>>]

Init ==
  /\ NetworkInit
  /\ pc = "idle" /\ step = 1 /\ kind = "Swap" /\ run = 0
  /\ signed \in SUBSET Runs
  /\ pinned = FALSE /\ expired = FALSE
  /\ record = <<>>
  /\ journal = NoJournal
  /\ archive = [r \in Runs |-> <<>>]
  /\ caller = "none" /\ current = <<>> /\ updated = <<>>
  /\ cursor = 1 /\ verdict = "Confirmed"
  /\ result = "none"

This == Tx(run, kind)

Return(res) == pc' = "idle" /\ step' = 1 /\ result' = res
Goto(l)     == pc' = l /\ UNCHANGED <<step, result>>

-----------------------------------------------------------------------------
(***************************************************************************)
(* The journal.  begin creates the file and refuses an existing one; a     *)
(* failure may leave it torn.  save replaces it by a rename.               *)
(***************************************************************************)

\* MUTANT of BeginAllowed: begin truncates whatever file is there.
BeginOverwrites(first) == TRUE
BeginAllowed(first) == first => journal.file = "absent"

Persisted(first, rec) ==
  /\ BeginAllowed(first)
  /\ journal' = [file |-> "saved", record |-> rec]
PersistFailed(first) ==
  journal' \in {journal} \union
               (IF first /\ journal.file = "absent" THEN {TornFile} ELSE {})

(* Execution::persist(first)?; failing ends the call.                      *)
PersistFails(first) == PersistFailed(first) /\ Return("Persistence")

(* reject_submission()? and then the given error.                          *)
RejectSubmission(res) ==
  /\ record' = WithSubmission(record, "Rejected")
  /\ \/ Persisted(FALSE, record') /\ Return(res)
     \/ PersistFails(FALSE)
  /\ UNCHANGED scanVars

-----------------------------------------------------------------------------
(***************************************************************************)
(* submit: funding, allowance, and which transaction to send.              *)
(***************************************************************************)

(* A swap prepared at some block, perhaps an old one, is submitted.        *)
StartRun ==
  /\ pc = "idle" /\ run < MaxRuns
  /\ run' = run + 1
  /\ \E b \in 0..Len(ledger) : pinned' = AllowanceAt(b)
  /\ pc' = "funding" /\ step' = 1 /\ result' = "none"
  /\ expired' = FALSE
  /\ record' = <<>>
  /\ UNCHANGED <<networkVars, storeVars, scanVars, kind, signed>>

CheckFunding ==
  /\ pc = "funding"
  /\ Goto("allowance") \/ Return("Preflight")
  /\ UNCHANGED <<networkVars, runVars, storeVars, scanVars, expired, record>>

Send(k) == pc' = "preflight" /\ step' = 1 /\ kind' = k /\ UNCHANGED result

(* needs_approval at the pinned block, before and after the approval.      *)
NeedsApproval ==
  /\ pc = "allowance"
  /\ \/ Return("Preflight") /\ UNCHANGED kind
     \/ pinned /\ Send("Swap")
     \/ ~pinned /\ record = <<>> /\ Send("Approval")
     \/ /\ ~pinned /\ record # <<>>
        /\ Return("AllowanceNotVisible") /\ UNCHANGED kind
  /\ UNCHANGED <<networkVars, run, signed, pinned, storeVars, scanVars, expired,
                 record>>

(* The quote is refreshed at a block the read node calls latest.           *)
Refresh ==
  /\ pc = "refresh"
  /\ \/ Return("Refresh") /\ UNCHANGED pinned
     \/ Return("IntentChanged") /\ UNCHANGED pinned
     \/ Goto("funding") /\ \E b \in 0..Len(ledger) : pinned' = AllowanceAt(b)
  /\ UNCHANGED <<networkVars, kind, run, signed, storeVars, scanVars, expired,
                 record>>

-----------------------------------------------------------------------------
(***************************************************************************)
(* send and send_signed.                                                   *)
(***************************************************************************)

\* MUTANT of Executes: eth_call and eth_estimateGas at the quoted block.
ExecutesAtQuote(k) == k = "Swap" => pinned

(* The transaction runs without revert at the latest block.                *)
Executes(k) == k = "Swap" => Allowance

CheckHolds(check) == CASE check = "deadline"               -> ~expired
                       [] check \in {"simulate", "estimate"} -> Executes(kind)
                       [] OTHER                            -> TRUE

CheckPasses ==
  LET checks == Checks(run \in signed)
  IN  /\ pc = "preflight"
      /\ CheckHolds(checks[step])
      /\ IF step = Len(checks) THEN pc' = "push" /\ step' = 1
                               ELSE pc' = pc /\ step' = step + 1
      /\ UNCHANGED <<networkVars, runVars, storeVars, scanVars, expired, record,
                     result>>

(* A check fails, or its RPC call does.                                    *)
CheckFails ==
  LET check == Checks(run \in signed)[step]
  IN  /\ pc = "preflight"
      /\ check = "deadline" => expired
      /\ Return(FailureOf(check))
      /\ UNCHANGED <<networkVars, runVars, storeVars, scanVars, expired, record>>

\* MUTANT of Pushed: the swap starts a new record, without the approval.
PushedAlone(rec) == <<Fresh(This)>>
Pushed(rec) == Append(rec, Fresh(This))

(* The entry is pushed and made durable before anything leaves.            *)
Push ==
  /\ pc = "push"
  /\ record' = Pushed(record)
  /\ LET first == record = <<>>
     IN  \/ /\ Persisted(first, record')
            /\ Goto(IF run \in signed THEN "sign" ELSE "request")
         \/ PersistFails(first)
  /\ UNCHANGED <<networkVars, runVars, scanVars, archive, expired>>

(* The wallet or its signature fails.  build_unsigned does not any more:   *)
(* sign_request has just built the same request.                           *)
SignFails ==
  /\ pc = "sign"
  /\ \E res \in {"Signing", "SignatureMismatch"} : RejectSubmission(res)
  /\ UNCHANGED <<networkVars, runVars, archive, expired>>

\* MUTANT of SaveHash: the hash is left to the save that follows the POST.
HashNotSaved(rec) == UNCHANGED journal
SaveHash(rec) == Persisted(FALSE, rec)

(* The hash is made durable before the POST, unless signing took too long. *)
Sign ==
  /\ pc = "sign"
  /\ \/ /\ ~expired
        /\ record' = WithSignedHash(record)
        /\ \/ SaveHash(record') /\ Goto("request")
           \/ PersistFails(FALSE)
     \/ /\ expired
        /\ record' = WithSubmission(WithSignedHash(record), "Rejected")
        /\ \/ Persisted(FALSE, record') /\ Return("Expired")
           \/ PersistFails(FALSE)
  /\ UNCHANGED <<networkVars, runVars, scanVars, archive, expired>>

(* eth_sendTransaction, or the submitter's POST, leaves the process.       *)
Request ==
  /\ pc = "request"
  /\ net' = [net EXCEPT ![This] = "flight"]
  /\ Goto("response")
  /\ UNCHANGED <<altered, ledger, reorgs, preapproved, runVars, storeVars,
                 scanVars, expired, record>>

BeginStatus(rec, who) ==
  /\ caller' = who /\ current' = rec /\ updated' = rec
  /\ cursor' = 1 /\ verdict' = "Confirmed"
  /\ Goto("status")

(* The hash came back: save it, then await the approval or return.         *)
AcceptSubmission ==
  /\ record' = WithSubmission(record, "Submitted")
  /\ \/ /\ Persisted(FALSE, record')
        /\ IF kind = "Approval" THEN BeginStatus(record', "approval")
                                ELSE Goto("submitted") /\ UNCHANGED scanVars
     \/ PersistFails(FALSE) /\ UNCHANGED scanVars
  /\ UNCHANGED <<networkVars, runVars, archive, expired>>

(* A wallet answers after it broadcast; a submitter acknowledges before    *)
(* any node validated the transaction.                                     *)
HashReturned ==
  /\ pc = "response"
  /\ net[This] \in IF run \in signed THEN {"flight", "lost", "public"} ELSE {"public"}
  /\ AcceptSubmission

(* Code 4001: the user refused in the wallet.                              *)
UserRejects ==
  /\ pc = "response" /\ run \notin signed
  /\ net[This] = "flight"
  /\ net' = [net EXCEPT ![This] = "refused"]
  /\ RejectSubmission("Rejected")
  /\ UNCHANGED <<altered, ledger, reorgs, preapproved, runVars, archive, expired>>

(* Any other error of the wallet RPC, a timeout included.                  *)
WalletFails ==
  /\ pc = "response" /\ run \notin signed
  /\ Return("UnknownSubmission")
  /\ UNCHANGED <<networkVars, runVars, storeVars, scanVars, expired, record>>

\* MUTANT of IsRejection: every HTTP error status counts as a rejection.
RejectsAnyHttp(error) == error \in {"UnsupportedChain", "Unauthorized", "HttpStatus"}
(* SubmitError::is_rejection, HTTP 401 and 403 being "Unauthorized".       *)
IsRejection(error) == error \in {"UnsupportedChain", "Unauthorized"}

SubmitterFails ==
  /\ pc = "response" /\ run \in signed
  /\ \E error \in SubmitErrors :
       /\ IF NotTaken(error)
          THEN net[This] = "flight" /\ net' = [net EXCEPT ![This] = "refused"]
          ELSE net' = net
       /\ IF IsRejection(error)
          THEN RejectSubmission("BroadcastRejected")
          ELSE Return("UnknownBroadcast") /\ UNCHANGED <<record, journal, scanVars>>
  /\ UNCHANGED <<altered, ledger, reorgs, preapproved, runVars, archive, expired>>

-----------------------------------------------------------------------------
(***************************************************************************)
(* wait and check_status.                                                  *)
(***************************************************************************)

ClearScan ==
  /\ caller' = "none" /\ current' = <<>> /\ updated' = <<>>
  /\ cursor' = 1 /\ verdict' = "Confirmed"

(* submit returned Pending: Trader::submit ends here, Trader::swap waits.  *)
AfterSubmit ==
  /\ pc = "submitted"
  /\ \/ Return("Pending") /\ UNCHANGED scanVars
     \/ SwapHash(record) # {} /\ BeginStatus(record, "swap")
  /\ UNCHANGED <<networkVars, runVars, storeVars, expired, record>>

(* The caller hands a final result to present().                           *)
BeginPresent(rec, v) ==
  /\ caller' = "none" /\ current' = rec /\ updated' = <<>>
  /\ cursor' = 1 /\ verdict' = v
  /\ Goto("present")

(* wait returns v and rec: submit or wait_for_swap saves the record, and   *)
(* only a confirmed approval goes on.                                      *)
WaitReturns(rec, v) ==
  /\ record' = rec
  /\ \/ PersistFails(FALSE) /\ ClearScan
     \/ /\ Persisted(FALSE, rec)
        /\ \/ v = "Pending" /\ Return("Pending") /\ ClearScan
           \/ /\ v = "Confirmed" /\ caller = "approval"
              /\ Goto("refresh") /\ ClearScan
           \/ /\ v # "Pending" /\ ~(v = "Confirmed" /\ caller = "approval")
              /\ BeginPresent(rec, v)

(* check_status returns v and rec.                                         *)
StatusReturns(rec, v) ==
  IF caller = "resume"
  THEN /\ IF v = "Pending" THEN Return("Pending") /\ ClearScan
                           ELSE BeginPresent(rec, v)
       /\ UNCHANGED <<record, journal>>
  ELSE IF v = "Pending"
       THEN /\ current' = rec
            /\ Goto("poll")
            /\ UNCHANGED <<caller, updated, cursor, verdict, record, journal>>
       ELSE WaitReturns(rec, v)

(* The next entry, or check_status's result after the last one.            *)
NextEntry(rec, v) ==
  IF cursor = Len(rec)
  THEN StatusReturns(rec, v)
  ELSE /\ updated' = rec /\ cursor' = cursor + 1 /\ verdict' = v
       /\ UNCHANGED <<pc, step, result, caller, current, record, journal>>

\* MUTANT of EntryUnknown: an entry without a hash does not hold up the verdict.
EntryUnknownSkipped(e) ==
  ~HashKnown(e) /\ e.submission = "Unknown" /\ NextEntry(updated, verdict)

(* What check_status does with the entry it looks at.                      *)
EntryUnknown(e) ==
  ~HashKnown(e) /\ e.submission = "Unknown" /\ NextEntry(updated, "Pending")
EntryRejected(e) ==
  e.submission = "Rejected" /\ StatusReturns(updated, "Failed")
EntryNotMined(e) ==
  /\ HashKnown(e) /\ Receipt(e.transaction) = "none"
  /\ NextEntry([updated EXCEPT ![cursor].receipt = "none"], "Pending")
EntryDiffers(e) ==
  /\ HashKnown(e) /\ Mined(e.transaction) /\ e.transaction \in altered
  /\ Return("TransactionMismatch") /\ ClearScan
  /\ UNCHANGED <<record, journal>>
EntryMined(e) ==
  /\ HashKnown(e) /\ Mined(e.transaction) /\ e.transaction \notin altered
  /\ LET rec == [updated EXCEPT ![cursor].submission = "Submitted",
                                ![cursor].receipt = Receipt(e.transaction)]
     IN  IF Receipt(e.transaction) = "success"
         THEN NextEntry(rec, verdict)
         ELSE StatusReturns(rec, "Failed")

CheckEntry ==
  /\ pc = "status"
  /\ LET e == updated[cursor]
     IN  \/ EntryUnknown(e) \/ EntryRejected(e) \/ EntryNotMined(e)
         \/ EntryDiffers(e) \/ EntryMined(e)
  /\ UNCHANGED <<networkVars, runVars, archive, expired>>

(* The chain id differs or an RPC call of check_status fails.              *)
StatusFails ==
  /\ pc = "status"
  /\ Return("Confirmation") /\ ClearScan
  /\ UNCHANGED <<networkVars, runVars, storeVars, expired, record>>

Poll ==
  /\ pc = "poll"
  /\ BeginStatus(current, caller)
  /\ UNCHANGED <<networkVars, runVars, storeVars, expired, record>>

\* MUTANT of Waiting: the timeout covers only the wait for the swap.
WaitingForSwap == pc \in {"status", "poll"} /\ caller = "swap"
Waiting == pc \in {"status", "poll"} /\ caller \in {"approval", "swap"}

(* confirmation_timeout ends wait, in a status check or between two.       *)
WaitTimesOut ==
  /\ Waiting
  /\ WaitReturns(current, "Pending")
  /\ UNCHANGED <<networkVars, runVars, archive, expired>>

-----------------------------------------------------------------------------
(***************************************************************************)
(* The caller around the library, and the world.                           *)
(***************************************************************************)

(* --resume: status of the journalled record, and nothing else.            *)
Resume ==
  /\ pc = "idle" /\ journal.file = "saved"
  /\ BeginStatus(journal.record, "resume")
  /\ UNCHANGED <<networkVars, runVars, storeVars, expired, record>>

(* present(): save the final record, then rename the journal away; either  *)
(* may fail.                                                               *)
Present ==
  /\ pc = "present"
  /\ LET saved == [file |-> "saved", record |-> current]
     IN  \/ journal' \in {journal, saved} /\ UNCHANGED archive
         \/ /\ journal' = NoJournal
            /\ archive' = [archive EXCEPT ![current[1].transaction.run] = current]
  /\ Return(verdict) /\ ClearScan
  /\ UNCHANGED <<networkVars, runVars, expired, record>>

(* The process dies and its memory with it.                                *)
Crash ==
  /\ pc # "idle"
  /\ Return("none") /\ ClearScan
  /\ record' = <<>>
  /\ UNCHANGED <<networkVars, runVars, storeVars, expired>>

Expire ==
  /\ pc # "idle" /\ ~expired
  /\ expired' = TRUE
  /\ UNCHANGED <<networkVars, runVars, scanVars, storeVars, pc, step, record, result>>

(* No caller is obliged to call again.                                     *)
Rest == pc = "idle" /\ UNCHANGED vars

Process ==
  \/ CheckFunding \/ NeedsApproval \/ Refresh
  \/ CheckPasses \/ CheckFails \/ Push
  \/ SignFails \/ Sign \/ Request
  \/ HashReturned \/ UserRejects \/ WalletFails \/ SubmitterFails
  \/ AfterSubmit \/ CheckEntry \/ StatusFails \/ Poll \/ Present

World ==
  /\ \/ \E t \in Transactions : \/ Deliver(t, t.run \notin signed)
                                \/ Lose(t) \/ Mine(t)
     \/ Reorg
  /\ UNCHANGED <<runVars, scanVars, storeVars, pc, step, expired, record, result>>

Next == StartRun \/ Resume \/ Process \/ WaitTimesOut \/ Crash \/ Expire \/ World \/ Rest

Spec == Init /\ [][Next]_vars

(* RPC and HTTP calls answer or time out, so the process goes on; the wait *)
(* has a timer; the user resumes a run that is left; public transactions   *)
(* are mined.                                                              *)
Frame == UNCHANGED <<runVars, scanVars, storeVars, pc, step, expired, record, result>>
Fairness ==
  /\ WF_vars(Process) /\ WF_vars(WaitTimesOut) /\ WF_vars(Resume)
  /\ \A t \in Transactions : WF_vars(Mine(t) /\ Frame)

FairSpec == Spec /\ Fairness

-----------------------------------------------------------------------------
(***************************************************************************)
(* Safety.                                                                 *)
(***************************************************************************)

(* What survives a crash about run r.                                      *)
Durable(r) == IF archive[r] # <<>> THEN archive[r]
              ELSE IF journal.file = "saved" THEN journal.record ELSE <<>>

(* A transaction that left the process is in the journal or the archive,   *)
(* and under its hash if it was signed locally, whatever failed or crashed *)
(* since ("Persist before sending", ExecutionJournal).                     *)
WriteAhead ==
  \A t \in Transactions : net[t] # "absent" =>
    \E i \in DOMAIN Durable(t.run) :
      /\ Durable(t.run)[i].transaction = t
      /\ t.run \in signed => Durable(t.run)[i].signed_hash = "known"

(* After a crash at any point, the swap of a locally signed run that may   *)
(* take effect is found by ExecutionRecord::swap_hash of the journal.      *)
SwapAlwaysFindable ==
  \A r \in Runs : LET swap == Tx(r, "Swap") IN
    r \in signed /\ net[swap] \in {"flight", "public"} /\ archive[r] = <<>>
      => SwapHash(journal.record) = {swap}

(* A transaction recorded as Rejected anywhere never reaches the chain,    *)
(* however late a request or an answer arrives.                            *)
RejectedNeverLands ==
  \A rec \in {record, journal.record, current, updated}
               \union {archive[r] : r \in Runs} :
    \A i \in DOMAIN rec : rec[i].submission = "Rejected"
      => net[rec[i].transaction] \in {"absent", "refused"}

(* A failure that tells the caller nothing was sent is right for ever:     *)
(* neither the swap, nor the transaction the failure is about, takes       *)
(* effect later ("nothing was broadcast", "broadcast was rejected").       *)
NotSent == {"Preflight", "Expired", "AllowanceNotVisible", "Signing",
            "SignatureMismatch", "Rejected",
            "BroadcastRejected", "Refresh", "IntentChanged"}
FailureIsFinal ==
  /\ result \in NotSent => net[Tx(run, "Swap")] \in {"absent", "refused"}
  /\ result \in {"Signing", "SignatureMismatch", "Rejected",
                 "BroadcastRejected"}
       => net[This] \in {"absent", "refused"}

(* present() archives a run only when nothing of it can still take effect, *)
(* and the archived record agrees with the chain entry by entry. Without   *)
(* reorgs: a verdict is read from receipts, not from finality.             *)
ArchiveIsFinal ==
  \A r \in Runs : archive[r] # <<>> =>
    /\ \A k \in Kinds : ~Live(Tx(r, k))
    /\ \A i \in DOMAIN archive[r] : LET e == archive[r][i] IN
         /\ e.receipt = Receipt(e.transaction)
         /\ e.receipt # "none" => e.transaction \notin altered

(* A transaction is handed over only when none of an earlier run can still *)
(* take effect: journal.begin refuses an unresolved run.  Without reorgs.  *)
HandsOver(t) == net[t] = "absent" /\ net'[t] = "flight"
SettledBeforeNextRun ==
  [][\A t \in Transactions : HandsOver(t) =>
       \A g \in Transactions : g.run # t.run => ~Live(g)]_vars

(* A swap is handed over only while the allowance covers it on the chain,  *)
(* and after an approval of its own run is mined, if there was one, however *)
(* stale the quoted block is.  Without reorgs.                              *)
SwapFollowsAllowance ==
  [][\A r \in Runs : HandsOver(Tx(r, "Swap")) =>
       /\ Allowance
       /\ net[Tx(r, "Approval")] # "absent"
            => Receipt(Tx(r, "Approval")) = "success"]_vars

(* The journal never forgets: a later record of a run keeps every entry,   *)
(* every hash and every outcome of the earlier one, until the whole record *)
(* moves to the archive.                                                   *)
Extends(new, old) ==
  /\ Len(new) >= Len(old)
  /\ \A i \in DOMAIN old :
       /\ new[i].transaction = old[i].transaction
       /\ new[i].signed_hash = old[i].signed_hash \/ old[i].signed_hash = "none"
       /\ old[i].submission # "Unknown" => new[i].submission = old[i].submission
JournalOnlyLearns ==
  [][journal.file = "saved" =>
       \/ journal'.file = "saved" /\ Extends(journal'.record, journal.record)
       \/ \E r \in Runs : /\ archive'[r] # archive[r]
                          /\ Extends(archive'[r], journal.record)]_vars

(* The promise of Outbox.  Without reorgs.                                 *)
Fate(t) ==
  IF net[t] # "absent" THEN IF Live(t) THEN "out" ELSE "settled"
  ELSE IF \E i \in DOMAIN Durable(t.run) : Durable(t.run)[i].transaction = t
       THEN "intended" ELSE "none"
Promise == INSTANCE Outbox WITH fate <- [t \in Transactions |-> Fate(t)],
                                closed <- {r \in Runs : archive[r] # <<>>}
ImplementsOutbox == Promise!Spec

(***************************************************************************)
(* Liveness.                                                               *)
(***************************************************************************)

(* Every call returns to its caller or dies in a crash: no wait is endless. *)
CallReturns == pc # "idle" ~> pc = "idle"

(* Once crashes and failing calls stop, a swap that was signed locally and *)
(* reached the network is resolved: saved, resumed and archived, although  *)
(* its response may have been lost and nothing is ever sent again.         *)
Fault == Crash \/ StatusFails \/ (Present /\ UNCHANGED archive)
SwapIsResolved ==
  <>[][~Fault]_vars =>
    \A r \in Runs : (r \in signed /\ net[Tx(r, "Swap")] = "public") ~> archive[r] # <<>>
=============================================================================
