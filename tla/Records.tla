------------------------------- MODULE Records -------------------------------
(***************************************************************************)
(* The execution record: what the SDK keeps, in memory and in its journal, *)
(* about the approval and the swap of one run (src/src/execution.rs).      *)
(* A transaction is identified by the run that built it and its kind; a    *)
(* hash is the identity of the transaction it hashes, so Option<B256> is   *)
(* only the question whether the hash is known.                            *)
(***************************************************************************)
EXTENDS Naturals, Sequences

CONSTANT MaxRuns    \* bound on the number of submit calls

ASSUME MaxRunsAssumption == MaxRuns \in Nat \ {0}

Runs         == 1..MaxRuns
Kinds        == {"Approval", "Swap"}
Transactions == [run : Runs, kind : Kinds]
Tx(r, k)     == [run |-> r, kind |-> k]

SubmissionState == {"Unknown", "Submitted", "Rejected"}
Receipts        == {"none", "success", "reverted"}

TransactionRecord == [transaction : Transactions, submission : SubmissionState,
                      receipt : Receipts, signed_hash : {"none", "known"}]
ExecutionRecord   == Seq(TransactionRecord)

\* MUTANT of Fresh: a placeholder stands for the missing receipt.
FreshPlaceholder(t) == [transaction |-> t, submission |-> "Unknown",
                        receipt |-> "pending", signed_hash |-> "none"]

(* The entry pushed before anything is sent. *)
Fresh(t) == [transaction |-> t, submission |-> "Unknown",
             receipt |-> "none", signed_hash |-> "none"]

\* MUTANT of HashKnown: only an acknowledged broadcast has a hash.
HashAcknowledged(e) == e.submission = "Submitted"

(* A hash under which the transaction can be looked up on the chain. *)
HashKnown(e) == \/ e.submission = "Submitted"
                \/ e.submission = "Unknown" /\ e.signed_hash = "known"

\* MUTANT of SwapHash: forgets the hash computed before an uncertain broadcast.
SwapHashSubmittedOnly(rec) ==
  {rec[i].transaction : i \in {j \in DOMAIN rec :
     rec[j].transaction.kind = "Swap" /\ rec[j].submission = "Submitted"}}

(* The last swap entry whose hash is known: a set of at most one element.  *)
SwapHash(rec) ==
  LET known == {i \in DOMAIN rec : /\ rec[i].transaction.kind = "Swap"
                                   /\ HashKnown(rec[i])}
  IN  {rec[i].transaction : i \in {j \in known : \A k \in known : k <= j}}

(* The last entry of the record with its submission state or hash set.     *)
WithSubmission(rec, s) == [rec EXCEPT ![Len(rec)].submission = s]
WithSignedHash(rec)    == [rec EXCEPT ![Len(rec)].signed_hash = "known"]
=============================================================================
