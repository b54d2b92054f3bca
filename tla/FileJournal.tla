----------------------------- MODULE FileJournal -----------------------------
(***************************************************************************)
(* The journal of src/examples/swap_frame.rs on a file system that several *)
(* processes share: `--broadcast` runs, which begin, save and archive one  *)
(* record each, and `--resume` runs, which check what is pending and       *)
(* archive it.  Files are inodes, so that a rename takes the file of a     *)
(* process that still writes to it.  Execution has one process at a time,  *)
(* but all of what a run does.                                             *)
(***************************************************************************)
EXTENDS Integers, FiniteSets

CONSTANTS
  Broadcasts, Resumes,  \* processes
  Inodes,               \* bound on files in use: none is created without Room
  Alone                 \* whether users run --resume only by itself

Processes == Broadcasts \union Resumes
(* A record's stage: 1 and 4, an approval or a swap is about to be asked   *)
(* for; 2 and 5, it has a hash; 3 and 6, it is mined.                      *)
Records == [run : Broadcasts, stage : 1..6, end : {"none", "rejected", "reverted"}]
Torn    == [run |-> "none", stage |-> 0, end |-> "none"]
Missing == 0

ASSUME FileJournalAssumption ==
  /\ Broadcasts \cap Resumes = {} /\ Inodes \subseteq Nat \ {Missing}
  /\ "none" \notin Processes /\ Alone \in BOOLEAN

VARIABLES
  pending, tmp,  \* the files pending.json and pending.json.tmp
  archive,       \* the files of resolved runs, by name
  content,       \* what a file holds
  pc, mem,       \* of each process: its place, and its record (at most one)
  handle,        \* and the file it has open
  presenting,    \* those that save a result in order to archive it
  left,          \* the last stage of a run at which a request may have left
  mined          \* the hashes that are mined: run, stage, and success
files == <<pending, tmp, archive, content>>
chain == <<left, mined>>
vars  == <<files, pc, mem, handle, presenting, chain>>

Init ==
  /\ pending = Missing /\ tmp = Missing /\ archive = {} /\ content = [i \in Inodes |-> Torn]
  /\ pc = [p \in Processes |-> "start"] /\ mem = [p \in Processes |-> {}]
  /\ handle = [p \in Processes |-> Missing]
  /\ presenting = {}
  /\ left = [r \in Broadcasts |-> 0] /\ mined = {}

Active == {p \in Processes : pc[p] \notin {"start", "gone"}}

Mem(p)   == CHOOSE r \in mem[p] : TRUE
InUse    == {pending, tmp} \union {f.file : f \in archive} \union {handle[p] : p \in Processes}
NewInode == CHOOSE i \in Inodes : i \notin InUse
Room     == \E i \in Inodes : i \notin InUse

Goto(p, place) == pc' = [pc EXCEPT ![p] = place]
Stop(p) == /\ pc' = [pc EXCEPT ![p] = "gone"] /\ handle' = [handle EXCEPT ![p] = Missing]
           /\ mem' = [mem EXCEPT ![p] = {}] /\ presenting' = presenting \ {p}
Keep(p, r) == mem' = [mem EXCEPT ![p] = {r}]

(* A crash, or an error that ends the process.                             *)
Crash(p) == /\ p \in Active /\ Stop(p)
            /\ UNCHANGED <<files, chain>>

MinedAt(r, stage) == \E ok \in BOOLEAN : <<r, stage, ok>> \in mined
Mine(r, stage, ok) ==
  /\ left[r] = stage - 1 /\ ~MinedAt(r, stage)
  /\ mined' = mined \union {<<r, stage, ok>>}
  /\ UNCHANGED <<files, pc, mem, handle, presenting, left>>

-----------------------------------------------------------------------------
(* --broadcast.  main looks for the file, then prepares the swap.          *)
Check(p) ==
  /\ p \in Broadcasts /\ pc[p] = "start"
  /\ Alone => Active \cap Resumes = {}
  /\ Goto(p, IF pending = Missing THEN "checked" ELSE "gone")
  /\ UNCHANGED <<files, mem, handle, presenting, chain>>

\* MUTANT of MayCreate: opens the file, new or not.
MayCreateAlways == TRUE
MayCreate == pending = Missing
(* begin, with or without an approval: create_new, and then the content.   *)
Begin(p, stage) ==
  /\ p \in Broadcasts /\ pc[p] = "checked" /\ stage \in {1, 4}
  /\ IF MayCreate
     THEN /\ Room /\ pending' = NewInode /\ handle' = [handle EXCEPT ![p] = NewInode]
          /\ content' = [content EXCEPT ![NewInode] = Torn]
          /\ Keep(p, [run |-> p, stage |-> stage, end |-> "none"])
          /\ Goto(p, "begin")
     ELSE Goto(p, "gone") /\ UNCHANGED <<pending, handle, content, mem>>
  /\ UNCHANGED <<tmp, archive, presenting, chain>>

Write(p) ==
  /\ pc[p] \in {"begin", "write"}
  /\ content' = [content EXCEPT ![handle[p]] = Mem(p)]
  /\ Goto(p, IF pc[p] = "begin" THEN "ask" ELSE "rename")
  /\ UNCHANGED <<pending, tmp, archive, mem, handle, presenting, chain>>

Rejected(r) == [r EXCEPT !.end = "rejected"]
(* The wallet is asked: it answers with a hash or a rejection, or not.     *)
AskWallet(p, answer) ==
  /\ pc[p] = "ask"
  /\ left' = [left EXCEPT ![p] = IF answer = "rejected" THEN @ ELSE Mem(p).stage]
  /\ CASE answer = "hash"     -> Keep(p, [Mem(p) EXCEPT !.stage = @ + 1]) /\ Goto(p, "save")
       [] answer = "rejected" -> Keep(p, Rejected(Mem(p))) /\ Goto(p, "save")
       [] answer = "lost"     -> Goto(p, "gone") /\ UNCHANGED mem
  /\ UNCHANGED <<files, handle, presenting, mined>>

(* save: File::create truncates a file that exists.                        *)
Create(p) ==
  LET file == IF tmp = Missing THEN NewInode ELSE tmp IN
  /\ pc[p] = "save" /\ (tmp = Missing => Room)
  /\ tmp' = file /\ content' = [content EXCEPT ![file] = Torn]
  /\ handle' = [handle EXCEPT ![p] = file]
  /\ Goto(p, "write")
  /\ UNCHANGED <<pending, archive, mem, presenting, chain>>

(* After the rename: where the run, or present, goes on.  Of a result that *)
(* is final present saves the record once more.                            *)
Saved(p) ==
  IF p \in presenting THEN "archive"
  ELSE IF Mem(p).end = "rejected" THEN "gone"
  ELSE IF Mem(p).stage = 6 \/ Mem(p).end = "reverted" THEN "save"
  ELSE CASE Mem(p).stage \in {2, 5} -> "wait"
         [] Mem(p).stage = 3         -> "push"
         [] Mem(p).stage = 4         -> "ask"
Rename(p) ==
  /\ pc[p] = "rename"
  /\ IF tmp = Missing
     THEN Goto(p, "gone") /\ presenting' = presenting \ {p} /\ UNCHANGED <<pending, tmp>>
     ELSE /\ pending' = tmp /\ tmp' = Missing
          /\ Goto(p, Saved(p))
          /\ presenting' = IF Saved(p) = "save" THEN presenting \union {p} ELSE presenting
  /\ handle' = [handle EXCEPT ![p] = Missing]
  /\ UNCHANGED <<archive, content, mem, chain>>

WithReceipt(r) ==
  [r EXCEPT !.stage = @ + 1,
            !.end = IF <<r.run, r.stage, TRUE>> \in mined THEN "none" ELSE "reverted"]
(* The wait for a receipt, and the swap that follows an approval.          *)
Wait(p) ==
  /\ pc[p] = "wait" /\ MinedAt(p, Mem(p).stage)
  /\ Keep(p, WithReceipt(Mem(p))) /\ Goto(p, "save")
  /\ UNCHANGED <<files, handle, presenting, chain>>
Push(p) ==
  /\ pc[p] = "push"
  /\ Keep(p, [Mem(p) EXCEPT !.stage = 4]) /\ Goto(p, "save")
  /\ UNCHANGED <<files, handle, presenting, chain>>

-----------------------------------------------------------------------------
(* --resume.                                                               *)
load_record(p) ==
  /\ p \in Resumes /\ pc[p] = "start"
  /\ Alone => Active = {}
  /\ IF pending = Missing \/ content[pending] = Torn
     THEN Goto(p, "gone") /\ UNCHANGED mem
     ELSE Keep(p, content[pending]) /\ Goto(p, "status")
  /\ UNCHANGED <<files, handle, presenting, chain>>

\* MUTANT of Final: a hash is enough.
FinalHashed(r) == r.stage \in {2, 3, 5, 6}
(* check_status comes to a verdict: all is mined, or the wallet refused.   *)
Final(r) == \/ r.end = "rejected" \/ r.stage \in {3, 6}
            \/ r.stage \in {2, 5} /\ MinedAt(r.run, r.stage)
Status(p) ==
  /\ pc[p] = "status"
  /\ IF Final(Mem(p))
     THEN /\ Keep(p, IF Mem(p).stage \in {2, 5} THEN WithReceipt(Mem(p)) ELSE Mem(p))
          /\ Goto(p, "save") /\ presenting' = presenting \union {p}
     ELSE Goto(p, "gone") /\ UNCHANGED <<mem, presenting>>
  /\ UNCHANGED <<files, handle, chain>>

\* MUTANT of Name: the nonce of the last transaction, always.
NameByNonce(r) == <<"nonce", IF r.end = "rejected" THEN 0 ELSE 1>>
(* The last hash, or the nonce of a rejected transaction: one that was not *)
(* used, and is the same for the next run.                                 *)
Name(r) == IF r.end = "rejected" THEN <<"rejected", 0>> ELSE <<r.run, r.stage>>

(* present renames pending.json, whatever it is by now.                    *)
Archive(p) ==
  /\ pc[p] = "archive"
  /\ IF pending = Missing THEN UNCHANGED <<pending, archive>>
     ELSE /\ archive' = {f \in archive : f.name # Name(Mem(p))}
                        \union {[name |-> Name(Mem(p)), file |-> pending]}
          /\ pending' = Missing
  /\ Stop(p)
  /\ UNCHANGED <<tmp, content, chain>>

Next ==
  \/ \E p \in Processes : Crash(p) \/ Write(p) \/ Create(p) \/ Rename(p) \/ Archive(p)
  \/ \E p \in Broadcasts : Check(p) \/ Wait(p) \/ Push(p)
  \/ \E p \in Broadcasts, stage \in {1, 4} : Begin(p, stage)
  \/ \E p \in Broadcasts, answer \in {"hash", "rejected", "lost"} : AskWallet(p, answer)
  \/ \E p \in Resumes : load_record(p) \/ Status(p)
  \/ \E r \in Broadcasts, stage \in {2, 5}, ok \in BOOLEAN : Mine(r, stage, ok)

Spec == Init /\ [][Next]_vars

-----------------------------------------------------------------------------
OnDisk == {content[i] : i \in ({pending} \ {Missing}) \union {f.file : f \in archive}}

(* What may still take effect stays on record: each run with a request     *)
(* that was neither refused nor mined has, in pending.json or in the       *)
(* archive, a record that goes at least that far, even if users start      *)
(* several broadcasts at once and processes crash between any two calls of *)
(* the file system (swap_frame.rs:463).  Of a mined approval whose swap    *)
(* was rejected the record can be lost: its name is that of the next       *)
(* rejected run.                                                           *)
NothingForgotten ==
  \A r \in Broadcasts : left[r] > 0 /\ ~MinedAt(r, left[r] + 1) =>
    \E d \in OnDisk : d.run = r /\ d.stage >= left[r]

(* A run that has begun, or of which a request may still take effect.      *)
Unresolved(r) == \/ pc[r] \notin {"start", "checked", "gone"}
                 \/ left[r] > 0 /\ ~MinedAt(r, left[r] + 1)

(* `begin` must reject an unresolved run (execution.rs:151): no two runs   *)
(* are under way at once.                                                  *)
OneUnresolved == \A r, s \in Broadcasts : Unresolved(r) /\ Unresolved(s) => r = s

(* A file of the archive that is named by a hash is never replaced, and    *)
(* keeps the record of that hash, mined; only rejected runs can share a    *)
(* name (swap_frame.rs:539).                                               *)
ArchiveKept ==
  [][\A f \in archive : f.name[1] # "rejected" =>
       f \in archive' /\ content'[f.file] = content[f.file]]_vars

(* What is archived under a hash is the record of that run up to that      *)
(* hash, and the transaction is mined: no run is archived while its last   *)
(* transaction is open (swap_frame.rs:533).                                *)
ArchiveTrue ==
  \A f \in archive : LET d == content[f.file] IN
    d.end = "rejected" \/ (f.name = <<d.run, d.stage>> /\ MinedAt(d.run, d.stage - 1))
=============================================================================
