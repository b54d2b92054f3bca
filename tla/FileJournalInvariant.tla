-------------------------- MODULE FileJournalInvariant --------------------------
(***************************************************************************)
(* The inductive invariant of the journal on disk, for users who run       *)
(* --resume by itself: one process at a time owns pending.json, and what   *)
(* it has in memory goes on from what the file says.                       *)
(***************************************************************************)
EXTENDS FileJournal

Places == {"start", "gone", "checked", "begin", "ask", "save", "write", "rename", "wait",
           "push", "status", "archive"}
Names  == {<<"rejected", 0>>} \union (Broadcasts \X (1..6))
Stored == Records \union {Torn}

TypeOK ==
  /\ pending \in Inodes \union {Missing} /\ tmp \in Inodes \union {Missing}
  /\ archive \subseteq [name : Names, file : Inodes]
  /\ content \in [Inodes -> Stored]
  /\ pc \in [Processes -> Places]
  /\ mem \in [Processes -> {{}} \union {{r} : r \in Records}]
  /\ handle \in [Processes -> Inodes \union {Missing}]
  /\ presenting \subseteq Processes
  /\ left \in [Broadcasts -> {0, 1, 4}]
  /\ mined \subseteq Broadcasts \X {2, 5} \X BOOLEAN

(* What pending.json says, Torn if it says nothing; who goes on from it.   *)
Disk     == IF pending = Missing THEN Torn ELSE content[pending]
Owner(p) == pc[p] \notin {"start", "checked", "gone"}
Begun(r) == pc[r] \notin {"start", "checked"}
InFlight(r) == left[r] > 0 /\ ~MinedAt(r, left[r] + 1)

(* Files are apart; an open one is the one its place in the code names.    *)
FilesApart ==
  /\ pending = tmp => pending = Missing
  /\ \A f \in archive : f.file # pending /\ f.file # tmp
Handles ==
  \A p \in Processes : /\ pc[p] = "begin" => handle[p] = pending
                       /\ pc[p] \in {"write", "rename"} => handle[p] = tmp /\ tmp # Missing

OneOwner ==
  \A p \in Processes : Owner(p) =>
    /\ pending # Missing
    /\ \A q \in Processes : Owner(q) => q = p
    /\ p \in Resumes => \A q \in Processes : pc[q] # "checked"
RolesKept ==
  /\ \A p \in Broadcasts : pc[p] # "status"
  /\ \A p \in Resumes : pc[p] \notin {"checked", "begin", "ask", "wait", "push"}
  /\ \A p \in Resumes : pc[p] \in {"save", "write", "rename", "archive"} => p \in presenting
  /\ \A p \in Processes : pc[p] = "archive" => p \in presenting
  /\ \A p \in presenting : pc[p] \in {"save", "write", "rename", "archive"}

Done(r) == r.end = "rejected" \/ r.stage \in {3, 6}

(* At each place, the record in memory and what the file says.             *)
AtPlace(p, r) ==
  /\ p \in Broadcasts => r.run = p
  /\ Begun(r.run)
  /\ pc[p] = "begin" => Disk = Torn /\ r.stage \in {1, 4} /\ r.end = "none"
  /\ pc[p] \in {"ask", "wait", "push", "status", "archive"} => Disk = r
  /\ pc[p] = "ask"  => r.stage \in {1, 4} /\ r.end = "none"
  /\ pc[p] = "wait" => r.stage \in {2, 5} /\ r.end = "none"
  /\ pc[p] = "push" => r.stage = 3 /\ r.end = "none"
  /\ pc[p] \in {"save", "write", "rename"} =>
       Disk.run = r.run /\ Disk.stage <= r.stage /\ (r.stage > 1 \/ Done(r))
  /\ pc[p] = "rename" => content[tmp] = r
  /\ p \in presenting => Done(r)
(* A broadcast has asked for what its record says, and for no more.        *)
AskedFor(p, r) ==
  /\ r.stage = 1 => left[p] = 0
  /\ r.stage <= 4 => left[p] <= 1
  /\ r.stage = 4 => ~InFlight(p)
(* A record tells what has happened on the chain.                          *)
RecordTrue(r) ==
  /\ r.stage \in {2, 3} => left[r.run] > 0
  /\ r.stage > 4 => left[r.run] = 4
  /\ r.stage \in {3, 6} => MinedAt(r.run, r.stage - 1)
  /\ r.end = "rejected" => r.stage \in {1, 4} /\ ~InFlight(r.run)
  /\ r.end = "reverted" => r.stage \in {3, 6}

OwnersKnow ==
  \A p \in Processes : Owner(p) => \E r \in mem[p] :
    AtPlace(p, r) /\ RecordTrue(r) /\ (p \in Broadcasts => AskedFor(p, r))
DiskTrue == Disk # Torn => Begun(Disk.run) /\ RecordTrue(Disk)
NotBegun == \A r \in Broadcasts : ~Begun(r) => left[r] = 0
(* Only the run of pending.json can have a request that is open.           *)
FlightOnDisk ==
  \A r \in Broadcasts : InFlight(r) => Disk.run = r /\ Disk.stage >= left[r]

(* A run with a hash in the archive is over.                               *)
ArchivedOver ==
  \A f \in archive : f.name[1] # "rejected" =>
    /\ f.name[1] \in Broadcasts /\ pc[f.name[1]] = "gone" /\ Disk.run # f.name[1]

IInv ==
  /\ TypeOK /\ FilesApart /\ Handles /\ OneOwner /\ RolesKept
  /\ OwnersKnow /\ DiskTrue /\ NotBegun /\ FlightOnDisk
  /\ ArchivedOver /\ ArchiveTrue
=============================================================================
