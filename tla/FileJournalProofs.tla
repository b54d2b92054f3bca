--------------------------- MODULE FileJournalProofs ---------------------------
(***************************************************************************)
(* Proofs about the journal on disk, for any number of processes and of    *)
(* files: while users run --resume by itself, no request that may still    *)
(* take effect is forgotten, one run at a time is open, and the archive    *)
(* keeps true records, across crashes between any two calls of the file    *)
(* system.                                                                 *)
(***************************************************************************)
EXTENDS FileJournalInvariant, TLAPS

Working == Places \ {"start", "checked", "gone"}

LEMMA OwnersRecord ==
  ASSUME IInv, NEW p \in Processes, Owner(p)
  PROVE  /\ Mem(p) \in Records /\ mem[p] = {Mem(p)}
         /\ AtPlace(p, Mem(p)) /\ RecordTrue(Mem(p))
         /\ p \in Broadcasts => AskedFor(p, Mem(p))
         /\ pending # Missing /\ \A q \in Processes : Owner(q) => q = p
<1>1. PICK r \in mem[p] : AtPlace(p, r) /\ RecordTrue(r) /\ (p \in Broadcasts => AskedFor(p, r))
  BY DEF IInv, OwnersKnow
<1>2. mem[p] = {r} /\ r \in Records
  BY <1>1 DEF IInv, TypeOK
<1>3. Mem(p) = r
  BY <1>2 DEF Mem
<1> QED BY <1>1, <1>2, <1>3 DEF IInv, OneOwner

LEMMA RecordType ==
  ASSUME NEW r \in Records
  PROVE  /\ r.run \in Broadcasts /\ r.run \in Processes /\ r.stage \in 1..6
         /\ r.end \in {"none", "rejected", "reverted"} /\ r # Torn /\ r.run # "none"
BY FileJournalAssumption DEF Records, Torn, Processes

LEMMA DiskType ==
  ASSUME IInv
  PROVE  /\ Disk \in Records \/ Disk = Torn
         /\ Disk.run = "none" => Disk = Torn
         /\ pending = Missing => Disk = Torn
<1>1. Disk \in Stored
  BY DEF IInv, TypeOK, Disk, Stored
<1> QED BY <1>1, RecordType DEF Stored, Disk, Torn

LEMMA ProcessType ==
  /\ \A r \in Broadcasts : r \in Processes /\ r # "none" /\ r \notin Resumes
  /\ \A p \in Resumes : p \in Processes /\ p \notin Broadcasts
  /\ \A p \in Processes : p \in Broadcasts \/ p \in Resumes
BY FileJournalAssumption DEF Processes

LEMMA FlightType ==
  ASSUME IInv, NEW r \in Broadcasts
  PROVE  left[r] \in {0, 1, 4}
BY DEF IInv, TypeOK

-----------------------------------------------------------------------------
(***************************************************************************)
(* What a kind of step has to keep.                                        *)
(***************************************************************************)

(* A process that owns nothing afterwards, and changes no file.            *)
LEMMA Leaves ==
  ASSUME IInv, NEW p \in Processes, pc' = [pc EXCEPT ![p] = "gone"],
         UNCHANGED <<files, chain>>, TypeOK',
         \A q \in Processes \ {p} : mem'[q] = mem[q] /\ handle'[q] = handle[q],
         presenting' = presenting \ {p}
  PROVE  IInv'
<1>1. /\ pending' = pending /\ tmp' = tmp /\ archive' = archive /\ content' = content
      /\ left' = left /\ mined' = mined /\ Disk' = Disk
      /\ pc'[p] = "gone" /\ \A q \in Processes \ {p} : pc'[q] = pc[q]
  BY DEF files, chain, Disk, IInv, TypeOK
<1>2. /\ \A q \in Processes : Owner(q)' => Owner(q) /\ q # p
      /\ \A q \in Processes : Begun(q) => Begun(q)'
      /\ \A r : InFlight(r)' = InFlight(r)
      /\ \A r : MinedAt(r, left[r] + 1)' = MinedAt(r, left[r] + 1)
      /\ \A r, n : MinedAt(r, n)' = MinedAt(r, n)
  BY <1>1 DEF Owner, Begun, InFlight, MinedAt
<1>3. FilesApart' /\ Handles'
  BY <1>1 DEF IInv, FilesApart, Handles
<1>4. OneOwner' /\ RolesKept'
  BY <1>1, <1>2 DEF IInv, OneOwner, RolesKept
<1>5. OwnersKnow'
  <2>1. SUFFICES ASSUME NEW q \in Processes, Owner(q)'
                 PROVE  \E r \in mem'[q] :
                          AtPlace(q, r)' /\ RecordTrue(r)' /\ (q \in Broadcasts => AskedFor(q, r)')
    BY DEF OwnersKnow
  <2>2. Owner(q) /\ q # p /\ mem'[q] = mem[q] /\ pc'[q] = pc[q]
    BY <1>1, <1>2, <2>1
  <2>3. PICK r \in mem[q] : AtPlace(q, r) /\ RecordTrue(r) /\ (q \in Broadcasts => AskedFor(q, r))
    BY <2>2 DEF IInv, OwnersKnow
  <2>4. r \in Records
    BY <2>3 DEF IInv, TypeOK
  <2>5. AtPlace(q, r)'
    BY <1>1, <1>2, <2>2, <2>3, <2>4, RecordType DEF AtPlace
  <2>6. RecordTrue(r)' /\ (q \in Broadcasts => AskedFor(q, r)')
    BY <1>1, <1>2, <2>3 DEF RecordTrue, AskedFor
  <2> QED BY <2>2, <2>3, <2>5, <2>6
<1>6. DiskTrue' /\ NotBegun' /\ FlightOnDisk'
  <2>1. DiskTrue'
    BY <1>1, <1>2, DiskType, RecordType DEF IInv, DiskTrue, RecordTrue
  <2> QED BY <1>1, <1>2, <2>1, ProcessType DEF IInv, NotBegun, FlightOnDisk
<1>7. ArchivedOver' /\ ArchiveTrue'
  BY <1>1, <1>2, ProcessType DEF IInv, ArchivedOver, ArchiveTrue
<1> QED BY <1>3, <1>4, <1>5, <1>6, <1>7 DEF IInv

(* A process that is now the owner, of a record that says what is true.    *)
LEMMA GoesOn ==
  ASSUME IInv, NEW p \in Processes, NEW x \in Working, NEW r \in Records, TypeOK',
         pc' = [pc EXCEPT ![p] = x], mem' = [mem EXCEPT ![p] = {r}],
         \A q \in Processes : Owner(q) => q = p,
         p \in Resumes => \A q \in Processes : pc[q] # "checked",
         pending' # Missing, FilesApart',
         x = "begin" => handle'[p] = pending',
         x \in {"write", "rename"} => handle'[p] = tmp' /\ tmp' # Missing,
         p \in Broadcasts => x # "status",
         p \in Resumes => /\ x \notin {"begin", "ask", "wait", "push"}
                          /\ x \in {"save", "write", "rename", "archive"} => p \in presenting',
         x = "archive" => p \in presenting',
         p \in presenting' => x \in {"save", "write", "rename", "archive"},
         presenting' \ {p} = presenting \ {p},
         AtPlace(p, r)', RecordTrue(r)', p \in Broadcasts => AskedFor(p, r)',
         DiskTrue', NotBegun', FlightOnDisk', ArchivedOver', ArchiveTrue'
  PROVE  IInv'
<1>1. pc'[p] = x /\ mem'[p] = {r} /\ \A q \in Processes \ {p} : pc'[q] = pc[q]
  BY DEF IInv, TypeOK
<1>2. \A q \in Processes : Owner(q)' => q = p
  BY <1>1 DEF Owner
<1>3. Handles'
  BY <1>1, <1>2 DEF Handles, Owner
<1>4. OneOwner'
  <2>1. p \in Resumes => \A q \in Processes : pc'[q] # "checked"
    BY <1>1 DEF Working
  <2> QED BY <1>2, <2>1 DEF OneOwner
<1>5. RolesKept'
  <2>1. \A q \in Processes \ {p} : pc'[q] \in {"start", "checked", "gone"}
    BY <1>1 DEF Owner
  <2>2. \A q \in Processes \ {p} : q \notin presenting'
    BY <2>1, <1>1 DEF IInv, RolesKept
  <2>3. \A q \in Resumes : pc'[q] # "checked"
    BY <1>1, ProcessType DEF IInv, RolesKept, Working
  <2>4. presenting' \subseteq Processes
    BY DEF TypeOK
  <2>5. \A q \in Broadcasts : pc'[q] # "status"
    BY <1>1, <2>1, ProcessType
  <2>6. \A q \in Resumes : pc'[q] \notin {"begin", "ask", "wait", "push"}
    BY <1>1, <2>1, ProcessType
  <2>7. \A q \in Resumes : pc'[q] \in {"save", "write", "rename", "archive"} => q \in presenting'
    BY <1>1, <2>1, ProcessType
  <2>8. \A q \in presenting' : pc'[q] \in {"save", "write", "rename", "archive"}
    BY <1>1, <2>2, <2>4
  <2>9. \A q \in Processes : pc'[q] = "archive" => q \in presenting'
    BY <1>1, <2>1
  <2> QED BY <2>3, <2>5, <2>6, <2>7, <2>8, <2>9 DEF RolesKept
<1>6. OwnersKnow'
  BY <1>1, <1>2 DEF OwnersKnow
<1> QED BY <1>3, <1>4, <1>5, <1>6 DEF IInv

(* The owner goes on with the record of the same run, mines nothing, and   *)
(* asks for nothing of another run; the files of the archive stay.         *)
LEMMA OwnerGoesOn ==
  ASSUME IInv, NEW p \in Processes, Owner(p), NEW x \in Working, NEW r \in Records, TypeOK',
         pc' = [pc EXCEPT ![p] = x], mem' = [mem EXCEPT ![p] = {r}], r.run = Mem(p).run,
         archive' = archive, \A f \in archive : content'[f.file] = content[f.file],
         mined' = mined, \A s \in Broadcasts \ {p} : left'[s] = left[s],
         pending' # Missing, FilesApart',
         x = "begin" => handle'[p] = pending',
         x \in {"write", "rename"} => handle'[p] = tmp' /\ tmp' # Missing,
         p \in Broadcasts => x # "status",
         p \in Resumes => /\ x \notin {"begin", "ask", "wait", "push"}
                          /\ x \in {"save", "write", "rename", "archive"} => p \in presenting',
         x = "archive" => p \in presenting',
         p \in presenting' => x \in {"save", "write", "rename", "archive"},
         presenting' \ {p} = presenting \ {p},
         AtPlace(p, r)', RecordTrue(r)', p \in Broadcasts => AskedFor(p, r)',
         Disk' = Disk \/ Disk' = r,
         DiskTrue', FlightOnDisk'
  PROVE  IInv'
<1>1. pc'[p] = x /\ \A q \in Processes \ {p} : pc'[q] = pc[q]
  BY DEF IInv, TypeOK
<1>2. x \notin {"start", "checked", "gone"}
  BY DEF Working
<1>3. Owner(p) /\ AtPlace(p, Mem(p)) /\ \A q \in Processes : Owner(q) => q = p
  BY OwnersRecord
<1>4. NotBegun'
  BY <1>1, <1>2, ProcessType DEF IInv, NotBegun, Begun
<1>5. ArchivedOver'
  <2>1. SUFFICES ASSUME NEW f \in archive, f.name[1] # "rejected"
                 PROVE  /\ f.name[1] \in Broadcasts /\ pc'[f.name[1]] = "gone"
                        /\ Disk'.run # f.name[1]
    BY DEF ArchivedOver
  <2>2. f.name[1] \in Broadcasts /\ pc[f.name[1]] = "gone" /\ Disk.run # f.name[1]
    BY <2>1 DEF IInv, ArchivedOver
  <2>3. f.name[1] # p
    BY <2>2 DEF Owner
  <2>4. r.run # f.name[1]
    <3>1. r.run = p \/ r.run = Disk.run
      <4>1. CASE p \in Broadcasts
        BY <4>1, <1>3 DEF AtPlace
      <4>2. CASE p \in Resumes
        BY <4>2, <1>3, ProcessType DEF AtPlace, IInv, RolesKept, TypeOK, Owner, Places
      <4> QED BY <4>1, <4>2, ProcessType
    <3> QED BY <3>1, <2>2, <2>3
  <2> QED BY <2>2, <2>3, <2>4, <1>1, ProcessType
<1>6. ArchiveTrue'
  BY DEF IInv, ArchiveTrue, MinedAt
<1>7. p \in Resumes => \A q \in Processes : pc[q] # "checked"
  BY DEF IInv, OneOwner
<1> HIDE DEF IInv
<1> QED BY <1>3, <1>4, <1>5, <1>6, <1>7, GoesOn

(* The owner goes on while nothing happens on the chain.                   *)
LEMMA OwnerWorks ==
  ASSUME IInv, NEW p \in Processes, Owner(p), NEW x \in Working, NEW r \in Records, TypeOK',
         pc' = [pc EXCEPT ![p] = x], mem' = [mem EXCEPT ![p] = {r}], r.run = Mem(p).run,
         archive' = archive, \A f \in archive : content'[f.file] = content[f.file],
         UNCHANGED chain,
         pending' # Missing, FilesApart',
         x = "begin" => handle'[p] = pending',
         x \in {"write", "rename"} => handle'[p] = tmp' /\ tmp' # Missing,
         p \in Broadcasts => x # "status",
         p \in Resumes => /\ x \notin {"begin", "ask", "wait", "push"}
                          /\ x \in {"save", "write", "rename", "archive"} => p \in presenting',
         x = "archive" => p \in presenting',
         p \in presenting' => x \in {"save", "write", "rename", "archive"},
         presenting' \ {p} = presenting \ {p},
         AtPlace(p, r)', RecordTrue(r), p \in Broadcasts => AskedFor(p, r),
         \/ Disk' = Disk
         \/ Disk' = r /\ (Disk = Torn \/ (Disk.run = r.run /\ Disk.stage <= r.stage))
  PROVE  IInv'
<1>1. left' = left /\ mined' = mined
  BY DEF chain
<1>2. /\ \A s : InFlight(s)' = InFlight(s)
      /\ \A s, n : MinedAt(s, n)' = MinedAt(s, n)
  BY <1>1 DEF InFlight, MinedAt
<1>3. RecordTrue(r)' /\ (p \in Broadcasts => AskedFor(p, r)')
  BY <1>1, <1>2 DEF RecordTrue, AskedFor
<1>4. DiskTrue'
  <2>1. \A s : Begun(s) => Begun(s)'
    BY DEF Begun, IInv, TypeOK, Working
  <2>2. Begun(r.run)'
    BY DEF AtPlace
  <2>3. CASE Disk' = Disk
    BY <2>1, <2>3, <1>1, <1>2 DEF IInv, DiskTrue, RecordTrue
  <2>4. CASE Disk' = r
    BY <2>2, <2>4, <1>3 DEF DiskTrue, RecordTrue
  <2> QED BY <2>3, <2>4
<1>5. FlightOnDisk'
  <2>1. SUFFICES ASSUME NEW s \in Broadcasts, InFlight(s)
                 PROVE  Disk'.run = s /\ Disk'.stage >= left[s]
    BY <1>1, <1>2 DEF FlightOnDisk
  <2>2. Disk.run = s /\ Disk.stage >= left[s] /\ Disk # Torn
    BY <2>1, ProcessType DEF IInv, FlightOnDisk, Torn
  <2>3. Disk \in Records /\ left[s] \in {0, 1, 4}
    BY <2>2, DiskType, FlightType
  <2>4. CASE Disk' = Disk
    BY <2>2, <2>4
  <2>5. CASE Disk' = r /\ Disk.run = r.run /\ Disk.stage <= r.stage
    BY <2>2, <2>3, <2>5, RecordType
  <2> QED BY <2>2, <2>4, <2>5
<1>6. \A s \in Broadcasts \ {p} : left'[s] = left[s]
  BY <1>1
<1> HIDE DEF IInv
<1> QED BY <1>1, <1>3, <1>4, <1>5, <1>6, OwnerGoesOn

LEMMA NewInodeType ==
  ASSUME Room
  PROVE  /\ NewInode \in Inodes /\ NewInode # Missing
         /\ NewInode # pending /\ NewInode # tmp /\ \A f \in archive : NewInode # f.file
         /\ \A p \in Processes : NewInode # handle[p]
BY FileJournalAssumption DEF Room, NewInode, InUse

-----------------------------------------------------------------------------
(***************************************************************************)
(* Types.                                                                  *)
(***************************************************************************)
LEMMA StoredType == \A r \in Records : r \in Stored
BY DEF Stored

LEMMA StopType ==
  ASSUME TypeOK, NEW p \in Processes, Stop(p), UNCHANGED <<tmp, content, chain>>,
         pending' \in Inodes \union {Missing}, archive' \subseteq [name : Names, file : Inodes]
  PROVE  TypeOK'
BY DEF TypeOK, Stop, chain, Places

LEMMA KeepType ==
  ASSUME TypeOK, NEW p \in Processes, NEW r \in Records, Keep(p, r)
  PROVE  mem' \in [Processes -> {{}} \union {{s} : s \in Records}]
BY DEF TypeOK, Keep

LEMMA GotoType ==
  ASSUME TypeOK, NEW p \in Processes, NEW x \in Places, Goto(p, x)
  PROVE  pc' \in [Processes -> Places]
BY DEF TypeOK, Goto

LEMMA NameType ==
  ASSUME NEW r \in Records
  PROVE  Name(r) \in Names
BY RecordType DEF Name, Names

LEMMA StageType ==
  ASSUME NEW r \in Records, NEW n \in 1..6, NEW s, s = [r EXCEPT !.stage = n]
  PROVE  s \in Records /\ s.run = r.run /\ s.stage = n /\ s.end = r.end
BY DEF Records

LEMMA RejectedType ==
  ASSUME NEW r \in Records
  PROVE  /\ Rejected(r) \in Records /\ Rejected(r).run = r.run
         /\ Rejected(r).stage = r.stage /\ Rejected(r).end = "rejected"
BY DEF Records, Rejected

LEMMA WithReceiptType ==
  ASSUME NEW r \in Records, r.stage \in {2, 5}
  PROVE  /\ WithReceipt(r) \in Records
         /\ WithReceipt(r).run = r.run /\ WithReceipt(r).stage = r.stage + 1
         /\ WithReceipt(r).end \in {"none", "reverted"}
<1> DEFINE e == IF <<r.run, r.stage, TRUE>> \in mined THEN "none" ELSE "reverted"
<1>1. WithReceipt(r) = [r EXCEPT !.stage = r.stage + 1, !.end = e]
  BY DEF WithReceipt
<1>2. PICK n \in 1..6 : n = r.stage + 1
  OBVIOUS
<1>3. PICK d \in {"none", "reverted"} : d = e
  OBVIOUS
<1> HIDE DEF e
<1>4. PICK s : s = WithReceipt(r)
  OBVIOUS
<1>5. s = [r EXCEPT !.stage = n, !.end = d]
  BY <1>1, <1>2, <1>3, <1>4
<1>6. s \in Records /\ s.run = r.run /\ s.stage = n /\ s.end = d
  <2>1. d \in {"none", "rejected", "reverted"}
    OBVIOUS
  <2> QED BY <1>5, <2>1 DEF Records
<1> QED BY <1>2, <1>3, <1>4, <1>6

-----------------------------------------------------------------------------
(***************************************************************************)
(* Each action keeps the invariant.                                        *)
(***************************************************************************)
LEMMA WorkingType == \A x \in Working : x \in Places
BY DEF Working

LEMMA CrashKeeps ==
  ASSUME IInv, NEW p \in Processes, Crash(p)
  PROVE  IInv'
<1>1. TypeOK'
  BY StopType DEF IInv, TypeOK, Crash, files
<1> QED BY <1>1, Leaves DEF Crash, Stop, IInv, TypeOK

LEMMA CheckKeeps ==
  ASSUME IInv, NEW p \in Broadcasts, Check(p)
  PROVE  IInv'
<1>1. p \in Processes /\ p \notin Resumes /\ pc[p] = "start" /\ UNCHANGED <<files, chain>>
  BY ProcessType DEF Check
<1>2. TypeOK'
  BY <1>1 DEF IInv, TypeOK, Check, Goto, files, chain, Places
<1>3. p \notin presenting
  BY <1>1 DEF IInv, RolesKept
<1>4. CASE pending # Missing
  BY <1>1, <1>2, <1>3, <1>4, Leaves DEF Check, Goto
<1>5. CASE pending = Missing
  <2>1. /\ pc'[p] = "checked" /\ \A q \in Processes \ {p} : pc'[q] = pc[q]
        /\ pending' = pending /\ tmp' = tmp /\ archive' = archive /\ content' = content
        /\ left' = left /\ mined' = mined /\ mem' = mem /\ handle' = handle
        /\ presenting' = presenting /\ Disk' = Disk
    BY <1>5, <1>1 DEF Check, Goto, IInv, TypeOK, files, chain, Disk
  <2>2. \A q \in Processes : ~Owner(q) /\ ~Owner(q)'
    BY <1>5, <2>1 DEF IInv, OneOwner, Owner
  <2>3. FilesApart' /\ Handles' /\ OneOwner' /\ OwnersKnow'
    BY <2>1, <2>2 DEF IInv, FilesApart, Handles, OneOwner, OwnersKnow, Owner
  <2>4. RolesKept'
    BY <1>1, <1>3, <2>1, ProcessType DEF IInv, RolesKept, TypeOK
  <2>5. DiskTrue' /\ NotBegun' /\ FlightOnDisk'
    BY <1>1, <1>5, <2>1, ProcessType, DiskType
       DEF IInv, DiskTrue, NotBegun, FlightOnDisk, InFlight, MinedAt, Begun
  <2>6. ArchivedOver' /\ ArchiveTrue'
    BY <1>1, <2>1, ProcessType DEF IInv, ArchivedOver, ArchiveTrue, MinedAt
  <2> QED BY <1>2, <2>3, <2>4, <2>5, <2>6 DEF IInv
<1> QED BY <1>4, <1>5

LEMMA BeginKeeps ==
  ASSUME IInv, NEW p \in Broadcasts, NEW stage \in {1, 4}, Begin(p, stage)
  PROVE  IInv'
<1>1. p \in Processes /\ p \notin Resumes /\ pc[p] = "checked" /\ UNCHANGED chain
  BY ProcessType DEF Begin
<1>2. p \notin presenting
  BY <1>1 DEF IInv, RolesKept
<1>3. CASE pending # Missing
  <2>1. /\ pc' = [pc EXCEPT ![p] = "gone"] /\ UNCHANGED <<files, chain>>
        /\ mem' = mem /\ handle' = handle /\ presenting' = presenting
    BY <1>3 DEF Begin, MayCreate, Goto, files
  <2>2. TypeOK'
    BY <1>1, <2>1 DEF IInv, TypeOK, files, chain, Places
  <2> QED BY <1>1, <1>2, <2>1, <2>2, Leaves
<1>4. CASE pending = Missing
  <2>1. PICK file \in Inodes : file = NewInode
    BY <1>4, NewInodeType DEF Begin, MayCreate
  <2>2. /\ file # Missing /\ file # tmp /\ file # pending
        /\ \A f \in archive : file # f.file
    BY <1>4, <2>1, NewInodeType DEF Begin, MayCreate
  <2>3. PICK r : r = [run |-> p, stage |-> stage, end |-> "none"]
    OBVIOUS
  <2>4. r \in Records /\ r.run = p /\ r.stage = stage /\ r.end = "none"
    BY <2>3 DEF Records
  <2>5. /\ pending' = file /\ handle' = [handle EXCEPT ![p] = file]
        /\ content' = [content EXCEPT ![file] = Torn]
        /\ mem' = [mem EXCEPT ![p] = {r}] /\ pc' = [pc EXCEPT ![p] = "begin"]
        /\ tmp' = tmp /\ archive' = archive /\ presenting' = presenting
        /\ left' = left /\ mined' = mined
    BY <1>4, <2>1, <2>3 DEF Begin, MayCreate, Keep, Goto, chain
  <2>6. TypeOK'
    <3>1. Torn \in Stored /\ "begin" \in Places
      BY DEF Stored, Places
    <3> QED BY <1>1, <2>4, <2>5, <3>1 DEF IInv, TypeOK
  <2>7. /\ \A i \in Inodes \ {file} : content'[i] = content[i]
        /\ \A f \in archive : content'[f.file] = content[f.file]
        /\ content'[file] = Torn /\ Disk' = Torn /\ Disk = Torn
        /\ handle'[p] = pending' /\ pc'[p] = "begin"
        /\ \A q \in Processes \ {p} : pc'[q] = pc[q]
    BY <1>1, <1>4, <2>2, <2>5 DEF IInv, TypeOK, Disk
  <2>8. \A q \in Processes : ~Owner(q)
    BY <1>4 DEF IInv, OneOwner
  <2>9. FilesApart'
    BY <2>2, <2>5 DEF IInv, FilesApart
  <2>10. \A s \in Broadcasts : ~InFlight(s) /\ ~InFlight(s)'
    BY <2>5, <2>7, ProcessType DEF IInv, FlightOnDisk, Torn, InFlight, MinedAt
  <2>11. AtPlace(p, r)'
    BY <1>1, <1>2, <2>4, <2>5, <2>7 DEF AtPlace, Begun
  <2>12. left[p] = 0
    BY <1>1 DEF IInv, NotBegun, Begun
  <2>13. RecordTrue(r)' /\ AskedFor(p, r)'
    BY <2>4, <2>5, <2>10, <2>12 DEF RecordTrue, AskedFor
  <2>14. DiskTrue' /\ FlightOnDisk'
    BY <2>7, <2>10 DEF DiskTrue, FlightOnDisk
  <2>15. NotBegun'
    BY <1>1, <2>5, <2>7, ProcessType DEF IInv, NotBegun, Begun
  <2>16. ArchivedOver' /\ ArchiveTrue'
    BY <1>1, <2>5, <2>7, ProcessType DEF IInv, ArchivedOver, ArchiveTrue, MinedAt, Torn
  <2>17. "begin" \in Working
    BY DEF Working, Places
  <2> HIDE DEF IInv
  <2> QED BY <1>1, <1>2, <2>2, <2>4, <2>5, <2>6, <2>7, <2>8, <2>9, <2>11, <2>13, <2>14, <2>15,
             <2>16, <2>17, GoesOn
<1> QED BY <1>3, <1>4

(* The owner of pending.json, at any place in the code.                    *)
LEMMA OwnersStep ==
  ASSUME IInv, NEW p \in Processes, Owner(p)
  PROVE  /\ \E r \in Records : r = Mem(p) /\ mem[p] = {r} /\ mem = [mem EXCEPT ![p] = {r}]
         /\ pending # Missing /\ pending \in Inodes
         /\ tmp # Missing => tmp \in Inodes /\ tmp # pending
         /\ Disk = content[pending]
         /\ \A f \in archive : f.file # pending /\ f.file # tmp
<1>1. PICK r \in Records : r = Mem(p) /\ mem[p] = {r}
  BY OwnersRecord
<1>2. mem = [mem EXCEPT ![p] = {r}]
  BY <1>1 DEF IInv, TypeOK
<1>3. pending # Missing
  BY OwnersRecord
<1> QED BY <1>1, <1>2, <1>3 DEF IInv, TypeOK, FilesApart, Disk

LEMMA WriteKeeps ==
  ASSUME IInv, NEW p \in Processes, Write(p)
  PROVE  IInv'
<1>1. Owner(p)
  BY DEF Write, Owner
<1>2. PICK r \in Records : r = Mem(p) /\ mem[p] = {r} /\ mem = [mem EXCEPT ![p] = {r}]
  BY <1>1, OwnersStep
<1>3. AtPlace(p, r) /\ RecordTrue(r) /\ (p \in Broadcasts => AskedFor(p, r))
  BY <1>1, <1>2, OwnersRecord
<1>4. PICK file \in Inodes : file = handle[p] /\ \A f \in archive : f.file # file
  BY <1>1, OwnersStep DEF IInv, Handles, Write
<1>5. PICK x \in Working : x = IF pc[p] = "begin" THEN "ask" ELSE "rename"
  BY DEF Working, Places
<1>6. /\ pc' = [pc EXCEPT ![p] = x] /\ mem' = [mem EXCEPT ![p] = {r}]
      /\ content' = [content EXCEPT ![file] = r] /\ pending' = pending /\ tmp' = tmp
      /\ archive' = archive /\ presenting' = presenting /\ handle' = handle /\ UNCHANGED chain
  BY <1>2, <1>4, <1>5 DEF Write, Goto
<1>7. TypeOK'
  BY <1>2, <1>5, <1>6, StoredType, WorkingType DEF IInv, TypeOK, chain
<1>8. /\ content'[file] = r /\ \A i \in Inodes \ {file} : content'[i] = content[i]
      /\ pc'[p] = x /\ \A q \in Processes \ {p} : pc'[q] = pc[q]
  BY <1>6 DEF IInv, TypeOK
<1>9. \A f \in archive : content'[f.file] = content[f.file]
  BY <1>4, <1>8 DEF IInv, TypeOK
<1>10. FilesApart'
  BY <1>6 DEF IInv, FilesApart
<1>11. Begun(r.run)'
  BY <1>3, <1>5, <1>8, RecordType DEF AtPlace, Begun
<1>12. pending # Missing /\ pending' # Missing
  BY <1>1, <1>6, OwnersStep
<1>13. CASE pc[p] = "begin"
  <2>1. x = "ask" /\ file = pending /\ Disk = Torn /\ Disk' = r
    BY <1>3, <1>4, <1>5, <1>6, <1>8, <1>12, <1>13 DEF IInv, Handles, AtPlace, Disk
  <2>2. p \notin presenting /\ p \in Broadcasts
    BY <1>13, ProcessType DEF IInv, RolesKept
  <2>3. AtPlace(p, r)'
    BY <1>3, <1>6, <1>8, <1>11, <1>13, <2>1, <2>2 DEF AtPlace
  <2>4. /\ p \notin Resumes /\ presenting' \ {p} = presenting \ {p} /\ p \notin presenting'
        /\ x # "begin" /\ x \notin {"write", "rename"} /\ x # "status" /\ x # "archive"
    BY <1>6, <2>1, <2>2, ProcessType
  <2>5. Disk' = r /\ (Disk = Torn \/ (Disk.run = r.run /\ Disk.stage <= r.stage))
    BY <2>1
  <2>6. r.run = Mem(p).run
    BY <1>2
  <2> HIDE DEF IInv
  <2> QED BY <1>1, <1>3, <1>6, <1>7, <1>9, <1>10, <1>12, <2>3, <2>4, <2>5, <2>6, OwnerWorks
<1>14. CASE pc[p] = "write"
  <2>1. x = "rename" /\ file = tmp /\ file # pending /\ Disk' = Disk
    BY <1>4, <1>5, <1>6, <1>8, <1>12, <1>14, OwnersStep, <1>1
       DEF IInv, Handles, Disk, TypeOK
  <2>2. p \in Resumes => p \in presenting
    BY <1>14 DEF IInv, RolesKept
  <2>3. AtPlace(p, r)'
    BY <1>3, <1>6, <1>8, <1>11, <1>14, <2>1 DEF AtPlace
  <2>4. handle'[p] = tmp' /\ tmp' # Missing
    BY <1>4, <1>6, <1>14 DEF IInv, Handles
  <2> HIDE DEF IInv
  <2> QED BY <1>1, <1>2, <1>3, <1>6, <1>7, <1>9, <1>10, <1>12, <2>1, <2>2, <2>3, <2>4, OwnerWorks
<1> QED BY <1>13, <1>14 DEF Write

LEMMA CreateKeeps ==
  ASSUME IInv, NEW p \in Processes, Create(p)
  PROVE  IInv'
<1>1. Owner(p) /\ pc[p] = "save"
  BY DEF Create, Owner
<1>2. PICK r \in Records : r = Mem(p) /\ mem[p] = {r} /\ mem = [mem EXCEPT ![p] = {r}]
  BY <1>1, OwnersStep
<1>3. AtPlace(p, r) /\ RecordTrue(r) /\ (p \in Broadcasts => AskedFor(p, r))
  BY <1>1, <1>2, OwnersRecord
<1>4. PICK file \in Inodes :
        /\ file = IF tmp = Missing THEN NewInode ELSE tmp
        /\ file # Missing /\ file # pending /\ \A f \in archive : f.file # file
  BY <1>1, NewInodeType, OwnersStep DEF Create
<1>5. PICK x \in Working : x = "write"
  BY DEF Working, Places
<1>6. /\ pc' = [pc EXCEPT ![p] = x] /\ mem' = [mem EXCEPT ![p] = {r}] /\ tmp' = file
      /\ content' = [content EXCEPT ![file] = Torn] /\ handle' = [handle EXCEPT ![p] = file]
      /\ pending' = pending /\ archive' = archive /\ presenting' = presenting /\ UNCHANGED chain
  BY <1>2, <1>4, <1>5 DEF Create, Goto
<1>7. TypeOK'
  BY <1>2, <1>5, <1>6, WorkingType DEF IInv, TypeOK, chain, Stored
<1>8. /\ \A i \in Inodes \ {file} : content'[i] = content[i]
      /\ handle'[p] = file /\ pc'[p] = x /\ \A q \in Processes \ {p} : pc'[q] = pc[q]
  BY <1>6 DEF IInv, TypeOK
<1>9. /\ \A f \in archive : content'[f.file] = content[f.file]
      /\ Disk' = Disk /\ pending' # Missing
  BY <1>1, <1>4, <1>6, <1>8, OwnersStep DEF IInv, TypeOK, Disk
<1>10. FilesApart'
  BY <1>4, <1>6 DEF IInv, FilesApart
<1>11. Begun(r.run)'
  BY <1>3, <1>5, <1>8, RecordType DEF AtPlace, Begun
<1>12. AtPlace(p, r)'
  BY <1>1, <1>3, <1>5, <1>6, <1>8, <1>9, <1>11 DEF AtPlace
<1>13. p \in Resumes => p \in presenting'
  BY <1>1, <1>6 DEF IInv, RolesKept
<1>14. /\ handle'[p] = tmp' /\ tmp' # Missing /\ presenting' \ {p} = presenting \ {p}
       /\ x \notin {"begin", "ask", "wait", "push"}
       /\ x # "begin" /\ x # "status" /\ x # "archive"
       /\ x \in {"save", "write", "rename", "archive"}
  BY <1>4, <1>5, <1>6, <1>8
<1>15. r.run = Mem(p).run
  BY <1>2
<1> HIDE DEF IInv
<1> QED BY <1>1, <1>3, <1>6, <1>7, <1>9, <1>10, <1>12, <1>13, <1>14, <1>15, OwnerWorks

(* The owner has a new record, and is about to save it.                    *)
LEMMA SavesNext ==
  ASSUME IInv, NEW p \in Processes, Owner(p), NEW r \in Records,
         Keep(p, r), Goto(p, "save"), UNCHANGED <<files, handle, chain>>,
         r.run = Mem(p).run, Disk.run = r.run, Disk.stage <= r.stage,
         r.stage > 1 \/ Done(r), p \in presenting' => Done(r), p \in Resumes => p \in presenting',
         presenting' = presenting \/ presenting' = presenting \union {p},
         RecordTrue(r), p \in Broadcasts => AskedFor(p, r)
  PROVE  IInv'
<1>1. PICK x \in Working : x = "save"
  BY DEF Working, Places
<1>2. pc' = [pc EXCEPT ![p] = x] /\ mem' = [mem EXCEPT ![p] = {r}]
  BY <1>1 DEF Keep, Goto
<1>3. /\ pending' = pending /\ tmp' = tmp /\ archive' = archive /\ content' = content
      /\ Disk' = Disk /\ presenting' \ {p} = presenting \ {p}
      /\ pc'[p] = "save" /\ \A q \in Processes \ {p} : pc'[q] = pc[q]
  BY <1>1, <1>2 DEF IInv, TypeOK, files, Disk
<1>4. TypeOK'
  <2>1. presenting' \subseteq Processes
    BY DEF IInv, TypeOK
  <2> QED BY <1>2, <1>3, <2>1, WorkingType DEF IInv, TypeOK, chain
<1>5. FilesApart' /\ pending' # Missing /\ \A f \in archive : content'[f.file] = content[f.file]
  BY <1>3, OwnersStep DEF IInv, FilesApart
<1>6. AtPlace(p, Mem(p))
  BY OwnersRecord
<1>7. AtPlace(p, r)'
  BY <1>3, <1>6, RecordType DEF AtPlace, Begun
<1>8. x # "begin" /\ x \notin {"write", "rename"} /\ x # "status" /\ x # "archive"
  BY <1>1
<1>9. x \notin {"begin", "ask", "wait", "push"} /\ x \in {"save", "write", "rename", "archive"}
  BY <1>1
<1> HIDE DEF IInv
<1> QED BY <1>2, <1>3, <1>4, <1>5, <1>7, <1>8, <1>9, OwnerWorks

LEMMA WaitKeeps ==
  ASSUME IInv, NEW p \in Broadcasts, Wait(p)
  PROVE  IInv'
<1>1. p \in Processes /\ p \notin Resumes /\ Owner(p) /\ pc[p] = "wait"
  BY ProcessType DEF Wait, Owner
<1>2. PICK m \in Records : m = Mem(p)
  BY <1>1, OwnersStep
<1>3. AtPlace(p, m) /\ RecordTrue(m) /\ AskedFor(p, m)
  BY <1>1, <1>2, OwnersRecord
<1>4. m.run = p /\ m.stage \in {2, 5} /\ Disk = m /\ p \notin presenting
  BY <1>1, <1>3 DEF AtPlace, IInv, RolesKept
<1>5. PICK r : r = WithReceipt(m)
  OBVIOUS
<1>6. /\ r \in Records /\ r.run = m.run /\ r.stage = m.stage + 1 /\ r.end \in {"none", "reverted"}
      /\ MinedAt(p, m.stage)
  BY <1>2, <1>4, <1>5, WithReceiptType DEF Wait
<1>7. RecordTrue(r) /\ AskedFor(p, r)
  BY <1>3, <1>4, <1>6, FlightType DEF RecordTrue, AskedFor
<1>8. /\ Keep(p, r) /\ Goto(p, "save") /\ UNCHANGED <<files, handle, chain>>
      /\ presenting' = presenting
  BY <1>2, <1>5 DEF Wait
<1>9. Disk.run = r.run /\ Disk.stage <= r.stage /\ r.run = Mem(p).run /\ r.stage > 1
  BY <1>2, <1>4, <1>6
<1> HIDE DEF IInv
<1> QED BY <1>1, <1>4, <1>6, <1>7, <1>8, <1>9, SavesNext

LEMMA PushKeeps ==
  ASSUME IInv, NEW p \in Broadcasts, Push(p)
  PROVE  IInv'
<1>1. p \in Processes /\ p \notin Resumes /\ Owner(p) /\ pc[p] = "push"
  BY ProcessType DEF Push, Owner
<1>2. PICK m \in Records : m = Mem(p)
  BY <1>1, OwnersStep
<1>3. AtPlace(p, m) /\ RecordTrue(m) /\ AskedFor(p, m)
  BY <1>1, <1>2, OwnersRecord
<1>4. m.run = p /\ m.stage = 3 /\ m.end = "none" /\ Disk = m /\ p \notin presenting
  BY <1>1, <1>3 DEF AtPlace, IInv, RolesKept
<1>5. PICK n \in 1..6 : n = 4
  OBVIOUS
<1>6. PICK r : r = [m EXCEPT !.stage = n]
  OBVIOUS
<1>7. r \in Records /\ r.run = p /\ r.stage = 4 /\ r.end = "none"
  BY <1>4, <1>5, <1>6, StageType
<1>8. left[p] = 1 /\ MinedAt(p, 2)
  BY <1>3, <1>4, FlightType DEF RecordTrue, AskedFor
<1>9. RecordTrue(r) /\ AskedFor(p, r)
  BY <1>7, <1>8 DEF RecordTrue, AskedFor, InFlight
<1>10. /\ Keep(p, r) /\ Goto(p, "save") /\ UNCHANGED <<files, handle, chain>>
       /\ presenting' = presenting
  BY <1>2, <1>5, <1>6 DEF Push
<1>11. Disk.run = r.run /\ Disk.stage <= r.stage /\ r.run = Mem(p).run /\ r.stage > 1
  BY <1>2, <1>4, <1>7
<1> HIDE DEF IInv
<1> QED BY <1>1, <1>4, <1>7, <1>9, <1>10, <1>11, SavesNext

LEMMA StatusKeeps ==
  ASSUME IInv, NEW p \in Resumes, Status(p)
  PROVE  IInv'
<1>1. p \in Processes /\ p \notin Broadcasts /\ Owner(p) /\ pc[p] = "status"
  BY ProcessType DEF Status, Owner
<1>2. PICK m \in Records : m = Mem(p)
  BY <1>1, OwnersStep
<1>3. AtPlace(p, m) /\ RecordTrue(m)
  BY <1>1, <1>2, OwnersRecord
<1>4. Disk = m /\ p \notin presenting /\ m.stage \in 1..6
  BY <1>1, <1>3, RecordType DEF AtPlace, IInv, RolesKept
<1>5. CASE Final(m)
  <2>1. PICK r : r = IF m.stage \in {2, 5} THEN WithReceipt(m) ELSE m
    OBVIOUS
  <2>2. /\ Keep(p, r) /\ Goto(p, "save") /\ UNCHANGED <<files, handle, chain>>
        /\ presenting' = presenting \union {p}
    BY <1>2, <1>5, <2>1 DEF Status
  <2>3. CASE m.stage \in {2, 5}
    <3>1. MinedAt(m.run, m.stage)
      BY <1>3, <1>5, <2>3 DEF Final, RecordTrue
    <3>2. /\ r \in Records /\ r.run = m.run /\ r.stage = m.stage + 1
          /\ r.end \in {"none", "reverted"}
      BY <2>1, <2>3, WithReceiptType
    <3>3. RecordTrue(r) /\ Done(r)
      BY <1>3, <2>3, <3>1, <3>2 DEF RecordTrue, Done
    <3>4. Disk.run = r.run /\ Disk.stage <= r.stage /\ r.run = Mem(p).run /\ r.stage > 1
      BY <1>2, <1>4, <2>3, <3>2
    <3> HIDE DEF IInv
    <3> QED BY <1>1, <2>2, <3>2, <3>3, <3>4, SavesNext
  <2>4. CASE m.stage \notin {2, 5}
    <3>1. r = m /\ Done(r)
      BY <1>5, <2>1, <2>4 DEF Final, Done
    <3>2. Disk.run = r.run /\ Disk.stage <= r.stage /\ r.run = Mem(p).run
      BY <1>2, <1>4, <3>1
    <3> HIDE DEF IInv
    <3> QED BY <1>1, <1>3, <2>2, <3>1, <3>2, SavesNext
  <2> QED BY <2>3, <2>4
<1>6. CASE ~Final(m)
  <2>1. /\ pc' = [pc EXCEPT ![p] = "gone"] /\ UNCHANGED <<files, chain>>
        /\ mem' = mem /\ handle' = handle /\ presenting' = presenting
    BY <1>2, <1>6 DEF Status, Goto
  <2>2. TypeOK'
    BY <1>1, <2>1 DEF IInv, TypeOK, files, chain, Places
  <2> QED BY <1>1, <1>4, <2>1, <2>2, Leaves
<1> QED BY <1>5, <1>6

(* The owner ends, and leaves a file that says what is true, or none.      *)
LEMMA Ends ==
  ASSUME IInv, NEW p \in Processes, Owner(p), pc' = [pc EXCEPT ![p] = "gone"], TypeOK',
         presenting' = presenting \ {p}, \A s \in Broadcasts \ {p} : left'[s] = left[s],
         FilesApart', DiskTrue', FlightOnDisk', ArchivedOver', ArchiveTrue'
  PROVE  IInv'
<1>1. pc'[p] = "gone" /\ \A q \in Processes \ {p} : pc'[q] = pc[q]
  BY DEF IInv, TypeOK
<1>2. \A q \in Processes : Owner(q) => q = p
  BY OwnersRecord
<1>3. \A q \in Processes : ~Owner(q)'
  BY <1>1, <1>2 DEF Owner
<1>4. Handles' /\ OneOwner' /\ OwnersKnow'
  BY <1>3 DEF Handles, OneOwner, OwnersKnow, Owner
<1>5. RolesKept'
  BY <1>1 DEF IInv, RolesKept
<1>6. NotBegun'
  BY <1>1, ProcessType DEF IInv, NotBegun, Begun
<1> QED BY <1>4, <1>5, <1>6 DEF IInv

LEMMA AskWalletKeeps ==
  ASSUME IInv, NEW p \in Broadcasts, NEW answer \in {"hash", "rejected", "lost"},
         AskWallet(p, answer)
  PROVE  IInv'
<1>1. p \in Processes /\ p \notin Resumes /\ Owner(p) /\ pc[p] = "ask"
  BY ProcessType DEF AskWallet, Owner
<1>2. PICK m \in Records : m = Mem(p)
  BY <1>1, OwnersStep
<1>3. AtPlace(p, m) /\ RecordTrue(m) /\ AskedFor(p, m) /\ pending # Missing
  BY <1>1, <1>2, OwnersRecord
<1>4. /\ m.run = p /\ m.stage \in {1, 4} /\ m.end = "none" /\ Disk = m /\ p \notin presenting
      /\ ~InFlight(p)
  BY <1>1, <1>3 DEF AtPlace, IInv, RolesKept, AskedFor, InFlight
<1>5. CASE answer = "rejected"
  <2>1. PICK r : r = Rejected(m)
    OBVIOUS
  <2>2. r \in Records /\ r.run = p /\ r.stage = m.stage /\ r.end = "rejected"
    BY <1>4, <2>1, RejectedType
  <2>3. left' = left
    BY <1>5 DEF AskWallet, IInv, TypeOK
  <2>4. /\ Keep(p, r) /\ Goto(p, "save") /\ UNCHANGED <<files, handle, chain>>
        /\ presenting' = presenting
    BY <1>2, <1>5, <2>1, <2>3 DEF AskWallet, chain
  <2>5. RecordTrue(r) /\ AskedFor(p, r) /\ Done(r)
    BY <1>3, <1>4, <2>2 DEF RecordTrue, AskedFor, Done
  <2>6. Disk.run = r.run /\ Disk.stage <= r.stage /\ r.run = Mem(p).run
    BY <1>2, <1>4, <2>2
  <2> HIDE DEF IInv
  <2> QED BY <1>1, <2>2, <2>4, <2>5, <2>6, SavesNext
<1>6. CASE answer \in {"hash", "lost"}
  <2>1. /\ left' = [left EXCEPT ![p] = m.stage] /\ UNCHANGED files /\ handle' = handle
        /\ presenting' = presenting /\ mined' = mined
    BY <1>2, <1>6 DEF AskWallet
  <2>2. /\ pending' = pending /\ tmp' = tmp /\ archive' = archive /\ content' = content
        /\ Disk' = m
    BY <1>4, <2>1 DEF files, Disk
  <2>3. left'[p] = m.stage /\ \A s \in Broadcasts \ {p} : left'[s] = left[s]
    BY <2>1 DEF IInv, TypeOK
  <2>4. /\ left' \in [Broadcasts -> {0, 1, 4}]
        /\ FilesApart'
    BY <1>4, <2>1, <2>2 DEF IInv, TypeOK, FilesApart
  <2>5. \A s \in Broadcasts \ {p} : InFlight(s)' = InFlight(s)
    BY <2>1, <2>3 DEF InFlight, MinedAt
  <2>6. FlightOnDisk'
    BY <1>4, <2>2, <2>3, <2>5 DEF IInv, FlightOnDisk
  <2>7. pc'[p] # "start" /\ pc'[p] # "checked"
    BY <1>1, <1>6 DEF AskWallet, Goto, IInv, TypeOK
  <2>8. DiskTrue'
    BY <1>4, <2>2, <2>7 DEF DiskTrue, RecordTrue, Begun
  <2>9. CASE answer = "lost"
    <3>1. pc' = [pc EXCEPT ![p] = "gone"] /\ mem' = mem
      BY <2>9 DEF AskWallet, Goto
    <3>2. TypeOK'
      BY <2>1, <2>2, <2>4, <3>1 DEF IInv, TypeOK, Places
    <3>3. pc'[p] = "gone" /\ \A q \in Processes \ {p} : pc'[q] = pc[q]
      BY <1>1, <3>1 DEF IInv, TypeOK
    <3>4. ArchivedOver' /\ ArchiveTrue'
      BY <1>4, <2>1, <2>2, <3>3, ProcessType DEF IInv, ArchivedOver, ArchiveTrue, MinedAt
    <3>5. presenting' = presenting \ {p}
      BY <1>4, <2>1
    <3> QED BY <1>1, <2>3, <2>4, <2>6, <2>8, <3>1, <3>2, <3>4, <3>5, Ends
  <2>10. CASE answer = "hash"
    <3>1. PICK n \in 1..6 : n = m.stage + 1
      BY <1>4
    <3>2. PICK r : r = [m EXCEPT !.stage = n]
      OBVIOUS
    <3>3. r \in Records /\ r.run = p /\ r.stage = m.stage + 1 /\ r.end = "none"
      BY <1>4, <3>1, <3>2, StageType
    <3>4. PICK x \in Working : x = "save"
      BY DEF Working, Places
    <3>5. pc' = [pc EXCEPT ![p] = x] /\ mem' = [mem EXCEPT ![p] = {r}]
      BY <1>2, <2>10, <3>1, <3>2, <3>4 DEF AskWallet, Keep, Goto
    <3>6. TypeOK'
      BY <2>1, <2>2, <2>4, <3>3, <3>5, WorkingType DEF IInv, TypeOK
    <3>7. pc'[p] = "save" /\ Begun(p)'
      BY <1>1, <2>7, <3>4, <3>5 DEF IInv, TypeOK, Begun
    <3>8. AtPlace(p, r)'
      BY <1>4, <2>1, <2>2, <3>3, <3>7 DEF AtPlace, Done
    <3>9. RecordTrue(r)' /\ AskedFor(p, r)'
      BY <1>4, <2>3, <3>3 DEF RecordTrue, AskedFor
    <3>10. /\ x # "begin" /\ x \notin {"write", "rename"} /\ x # "status" /\ x # "archive"
           /\ p \notin presenting' /\ presenting' \ {p} = presenting \ {p}
      BY <1>4, <2>1, <3>4
    <3>11. /\ r.run = Mem(p).run /\ Disk' = Disk /\ pending' # Missing
           /\ \A f \in archive : content'[f.file] = content[f.file]
      BY <1>2, <1>3, <1>4, <2>2, <3>3
    <3> HIDE DEF IInv
    <3> QED BY <1>1, <2>1, <2>2, <2>3, <2>4, <2>6, <2>8, <3>3, <3>5, <3>6, <3>8, <3>9, <3>10,
               <3>11, OwnerGoesOn
  <2> QED BY <1>6, <2>9, <2>10
<1> QED BY <1>5, <1>6

LEMMA RenameKeeps ==
  ASSUME IInv, NEW p \in Processes, Rename(p)
  PROVE  IInv'
<1>1. Owner(p) /\ pc[p] = "rename"
  BY DEF Rename, Owner
<1>2. PICK r \in Records : r = Mem(p) /\ mem[p] = {r} /\ mem = [mem EXCEPT ![p] = {r}]
  BY <1>1, OwnersStep
<1>3. AtPlace(p, r) /\ RecordTrue(r) /\ (p \in Broadcasts => AskedFor(p, r))
  BY <1>1, <1>2, OwnersRecord
<1>4. /\ Disk.run = r.run /\ Disk.stage <= r.stage /\ (r.stage > 1 \/ Done(r))
      /\ content[tmp] = r /\ Begun(r.run) /\ (p \in presenting => Done(r))
      /\ (p \in Broadcasts => r.run = p) /\ r.stage \in 1..6
  BY <1>1, <1>3, RecordType DEF AtPlace
<1>5. tmp # Missing /\ tmp \in Inodes /\ tmp # pending /\ \A f \in archive : f.file # tmp
  BY <1>1, OwnersStep DEF IInv, Handles
<1>6. p \in Resumes => p \in presenting
  BY <1>1 DEF IInv, RolesKept
<1>7. /\ pending' = tmp /\ tmp' = Missing /\ archive' = archive /\ content' = content
      /\ Goto(p, Saved(p)) /\ handle' = [handle EXCEPT ![p] = Missing] /\ mem' = mem
      /\ presenting' = (IF Saved(p) = "save" THEN presenting \union {p} ELSE presenting)
      /\ left' = left /\ mined' = mined
  BY <1>5 DEF Rename, chain
<1>8. Disk' = r
  BY <1>4, <1>5, <1>7 DEF Disk
<1>9. FilesApart'
  BY <1>5, <1>7, FileJournalAssumption DEF IInv, TypeOK, FilesApart
<1>10. ASSUME NEW x \in Places, Saved(p) = x
       PROVE  TypeOK'
  BY <1>5, <1>7, <1>10 DEF IInv, TypeOK, Goto
<1>11. ASSUME NEW x \in Working, Saved(p) = x, AtPlace(p, r)',
              x \in {"archive", "save", "wait", "push", "ask"},
              x = "archive" => p \in presenting,
              p \in presenting' => x \in {"archive", "save"}
       PROVE  IInv'
  <2>1. pc' = [pc EXCEPT ![p] = x] /\ mem' = [mem EXCEPT ![p] = {r}] /\ r.run = Mem(p).run
    BY <1>2, <1>7, <1>11 DEF Goto
  <2>2. TypeOK'
    BY <1>10, <1>11, WorkingType
  <2>3. /\ presenting' \ {p} = presenting \ {p} /\ UNCHANGED chain
        /\ p \in Resumes => p \in presenting'
        /\ \A f \in archive : content'[f.file] = content[f.file]
    BY <1>6, <1>7 DEF chain
  <2>4. /\ x # "begin" /\ x \notin {"write", "rename"} /\ x # "status"
        /\ p \in presenting' => x \in {"save", "write", "rename", "archive"}
        /\ x = "archive" => p \in presenting'
        /\ p \in Resumes => x \notin {"begin", "ask", "wait", "push"}
    BY <1>7, <1>11, <2>3
  <2>5. Disk' = r /\ (Disk = Torn \/ (Disk.run = r.run /\ Disk.stage <= r.stage))
    BY <1>4, <1>8
  <2> HIDE DEF IInv
  <2> QED BY <1>1, <1>3, <1>5, <1>7, <1>9, <1>11, <2>1, <2>2, <2>3, <2>4, <2>5, OwnerWorks
<1>12. ASSUME NEW x \in Working, Saved(p) = x
       PROVE  Begun(r.run)' /\ pc'[p] = x
  BY <1>4, <1>7, <1>12, RecordType DEF IInv, TypeOK, Goto, Begun, Working
<1>13. CASE p \in presenting
  <2>1. PICK x \in Working : x = "archive"
    BY DEF Working, Places
  <2>2. Saved(p) = x
    BY <1>13, <2>1 DEF Saved
  <2>3. AtPlace(p, r)'
    BY <1>4, <1>7, <1>8, <1>12, <2>1, <2>2 DEF AtPlace, Done
  <2> QED BY <1>11, <1>13, <2>1, <2>2, <2>3
<1>14. CASE p \notin presenting /\ r.end = "rejected"
  <2>1. Saved(p) = "gone" /\ p \in Broadcasts
    BY <1>2, <1>6, <1>14, ProcessType DEF Saved
  <2>2. pc' = [pc EXCEPT ![p] = "gone"] /\ presenting' = presenting \ {p}
    BY <1>7, <1>14, <2>1 DEF Goto
  <2>3. TypeOK'
    BY <1>10, <2>1 DEF Places
  <2>4. pc'[p] = "gone" /\ \A q \in Processes \ {p} : pc'[q] = pc[q]
    BY <2>2 DEF IInv, TypeOK
  <2>5. DiskTrue'
    <3>1. RecordTrue(r)'
      BY <1>3, <1>7 DEF RecordTrue, MinedAt, InFlight
    <3>2. Begun(r.run)'
      BY <1>4, <2>1, <2>4 DEF Begun
    <3> QED BY <1>8, <3>1, <3>2 DEF DiskTrue, RecordTrue
  <2>6. FlightOnDisk'
    <3>1. SUFFICES ASSUME NEW s \in Broadcasts, InFlight(s)
                   PROVE  r.run = s /\ r.stage >= left[s]
      BY <1>7, <1>8 DEF FlightOnDisk, InFlight, MinedAt
    <3>2. Disk.run = s /\ Disk.stage >= left[s]
      BY <3>1 DEF IInv, FlightOnDisk
    <3>3. Disk \in Records
      BY <3>2, DiskType, ProcessType DEF Torn
    <3> QED BY <1>4, <3>2, <3>3, FlightType, RecordType
  <2>7. ArchivedOver' /\ ArchiveTrue'
    <3>1. ArchivedOver'
      BY <1>1, <1>4, <1>7, <1>8, <2>1, <2>4, ProcessType DEF IInv, ArchivedOver
    <3>2. ArchiveTrue'
      BY <1>7 DEF IInv, ArchiveTrue, MinedAt
    <3> QED BY <3>1, <3>2
  <2>8. \A s \in Broadcasts \ {p} : left'[s] = left[s]
    BY <1>7
  <2> QED BY <1>1, <1>9, <2>2, <2>3, <2>5, <2>6, <2>7, <2>8, Ends
<1>15. CASE p \notin presenting /\ r.end # "rejected" /\ (r.stage = 6 \/ r.end = "reverted")
  <2>1. PICK x \in Working : x = "save"
    BY DEF Working, Places
  <2>2. Saved(p) = x
    BY <1>2, <1>15, <2>1 DEF Saved
  <2>3. Done(r)
    BY <1>3, <1>15 DEF Done, RecordTrue
  <2>4. AtPlace(p, r)'
    BY <1>4, <1>7, <1>8, <1>12, <2>1, <2>2, <2>3 DEF AtPlace
  <2> QED BY <1>11, <2>1, <2>2, <2>4
<1>16. CASE p \notin presenting /\ r.end = "none" /\ r.stage # 6
  <2>1. r.stage \in {2, 3, 4, 5}
    BY <1>4, <1>16 DEF Done
  <2>2. PICK x \in Working :
          x = IF r.stage \in {2, 5} THEN "wait" ELSE IF r.stage = 3 THEN "push" ELSE "ask"
    BY DEF Working, Places
  <2>3. Saved(p) = x
    BY <1>2, <1>16, <2>1, <2>2 DEF Saved
  <2>4. AtPlace(p, r)' /\ p \notin presenting'
    BY <1>4, <1>7, <1>8, <1>12, <1>16, <2>1, <2>2, <2>3 DEF AtPlace
  <2>5. x \in {"wait", "push", "ask"}
    BY <2>2
  <2> QED BY <1>11, <2>3, <2>4, <2>5
<1>17. r.end \in {"none", "rejected", "reverted"}
  BY RecordType
<1> QED BY <1>13, <1>14, <1>15, <1>16, <1>17

LEMMA load_recordKeeps ==
  ASSUME IInv, Alone, NEW p \in Resumes, load_record(p)
  PROVE  IInv'
<1>1. p \in Processes /\ p \notin Broadcasts /\ pc[p] = "start" /\ UNCHANGED <<files, chain>>
  BY ProcessType DEF load_record
<1>2. p \notin presenting
  BY <1>1 DEF IInv, RolesKept
<1>3. \A q \in Processes : pc[q] \in {"start", "gone"}
  BY DEF load_record, Active
<1>4. CASE pending = Missing \/ content[pending] = Torn
  <2>1. /\ pc' = [pc EXCEPT ![p] = "gone"] /\ mem' = mem /\ handle' = handle
        /\ presenting' = presenting
    BY <1>4 DEF load_record, Goto
  <2>2. TypeOK'
    BY <1>1, <2>1 DEF IInv, TypeOK, files, chain, Places
  <2> QED BY <1>1, <1>2, <2>1, <2>2, Leaves
<1>5. CASE pending # Missing /\ content[pending] # Torn
  <2>1. PICK r \in Records : r = content[pending] /\ r = Disk /\ Disk # Torn
    BY <1>5, DiskType DEF Disk
  <2>2. PICK x \in Working : x = "status"
    BY DEF Working, Places
  <2>3. /\ mem' = [mem EXCEPT ![p] = {r}] /\ pc' = [pc EXCEPT ![p] = x]
        /\ handle' = handle /\ presenting' = presenting
        /\ pending' = pending /\ tmp' = tmp /\ archive' = archive /\ content' = content
        /\ left' = left /\ mined' = mined /\ Disk' = Disk
    BY <1>1, <1>5, <2>1, <2>2 DEF load_record, Keep, Goto, files, chain, Disk
  <2>4. TypeOK'
    BY <1>1, <2>3, WorkingType DEF IInv, TypeOK
  <2>5. pc'[p] = x /\ \A q \in Processes \ {p} : pc'[q] = pc[q]
    BY <1>1, <2>3 DEF IInv, TypeOK
  <2>6. /\ \A s \in Broadcasts : pc'[s] = pc[s]
        /\ \A s : InFlight(s)' = InFlight(s) /\ \A n : MinedAt(s, n)' = MinedAt(s, n)
    BY <1>1, <2>3, <2>5, ProcessType DEF InFlight, MinedAt
  <2>7. Begun(r.run) /\ RecordTrue(r)
    BY <2>1 DEF IInv, DiskTrue
  <2>8. Begun(r.run)' /\ RecordTrue(r)'
    BY <2>3, <2>6, <2>7, RecordType DEF Begun, RecordTrue
  <2>9. AtPlace(p, r)'
    BY <1>1, <1>2, <2>1, <2>2, <2>3, <2>5, <2>8 DEF AtPlace
  <2>10. FilesApart' /\ DiskTrue' /\ FlightOnDisk' /\ pending' # Missing
    BY <1>5, <2>1, <2>3, <2>6, <2>8
       DEF IInv, FilesApart, DiskTrue, FlightOnDisk, RecordTrue
  <2>11. NotBegun' /\ ArchivedOver' /\ ArchiveTrue'
    BY <2>3, <2>6 DEF IInv, NotBegun, Begun, ArchivedOver, ArchiveTrue
  <2>12. /\ \A q \in Processes : Owner(q) => q = p
         /\ \A q \in Processes : pc[q] # "checked"
    BY <1>3 DEF Owner
  <2>13. /\ x # "begin" /\ x \notin {"write", "rename"} /\ p \notin presenting'
         /\ x \notin {"begin", "ask", "wait", "push"}
         /\ x \notin {"save", "write", "rename", "archive"}
         /\ presenting' \ {p} = presenting \ {p}
    BY <1>2, <2>2, <2>3
  <2> HIDE DEF IInv
  <2> QED BY <1>1, <2>3, <2>4, <2>8, <2>9, <2>10, <2>11, <2>12, <2>13, GoesOn
<1> QED BY <1>4, <1>5

(* When the owner archives a record, nothing of its run is open.           *)
LEMMA ArchivesDone ==
  ASSUME IInv, NEW p \in Processes, pc[p] = "archive", NEW r, r = Mem(p)
  PROVE  /\ r \in Records /\ r = Disk /\ Done(r) /\ RecordTrue(r) /\ Begun(r.run)
         /\ p \in Broadcasts => r.run = p
         /\ pending # Missing /\ content[pending] = r
         /\ \A s \in Broadcasts : ~InFlight(s)
         /\ \A q \in Processes \ {p} : ~Owner(q)
<1>1. Owner(p)
  BY DEF Owner
<1>2. r \in Records /\ pending # Missing
  BY <1>1, OwnersRecord
<1>3. AtPlace(p, r) /\ RecordTrue(r) /\ \A q \in Processes : Owner(q) => q = p
  BY <1>1, OwnersRecord
<1>4. p \in presenting
  BY DEF IInv, RolesKept
<1>5. r = Disk /\ Done(r) /\ Begun(r.run) /\ (p \in Broadcasts => r.run = p)
  BY <1>3, <1>4 DEF AtPlace
<1>6. ASSUME NEW s \in Broadcasts, InFlight(s)
      PROVE  FALSE
  <2>1. r.run = s /\ r.stage >= left[s] /\ left[s] \in {1, 4} /\ ~MinedAt(s, left[s] + 1)
    BY <1>5, <1>6, FlightType DEF IInv, FlightOnDisk, InFlight
  <2>2. CASE r.end = "rejected"
    BY <1>3, <1>6, <2>1, <2>2 DEF RecordTrue
  <2>3. CASE r.stage = 3
    BY <1>3, <2>1, <2>3 DEF RecordTrue
  <2>4. CASE r.stage = 6
    BY <1>3, <2>1, <2>4 DEF RecordTrue
  <2> QED BY <1>5, <2>2, <2>3, <2>4 DEF Done
<1> QED BY <1>2, <1>3, <1>5, <1>6 DEF Disk

LEMMA ArchiveKeeps ==
  ASSUME IInv, NEW p \in Processes, Archive(p)
  PROVE  IInv'
<1>1. Owner(p) /\ pc[p] = "archive" /\ Stop(p) /\ tmp' = tmp /\ content' = content
  BY DEF Archive, Owner
<1>2. PICK r : r = Mem(p)
  OBVIOUS
<1>3. /\ r \in Records /\ r = Disk /\ Done(r) /\ RecordTrue(r) /\ Begun(r.run)
      /\ p \in Broadcasts => r.run = p
      /\ pending # Missing /\ content[pending] = r
      /\ \A s \in Broadcasts : ~InFlight(s)
      /\ \A q \in Processes \ {p} : ~Owner(q)
  BY <1>1, <1>2, ArchivesDone
<1>4. PICK name \in Names : name = Name(r)
  BY <1>3, NameType
<1>5. PICK new : new = [name |-> name, file |-> pending]
  OBVIOUS
<1>6. pending \in Inodes /\ pending # tmp
  BY <1>3 DEF IInv, TypeOK, FilesApart
<1>7. /\ archive' = {f \in archive : f.name # name} \union {new}
      /\ pending' = Missing /\ left' = left /\ mined' = mined /\ Disk' = Torn
  BY <1>2, <1>3, <1>4, <1>5 DEF Archive, chain, Disk
<1>8. /\ pc' = [pc EXCEPT ![p] = "gone"] /\ presenting' = presenting \ {p}
      /\ pc'[p] = "gone" /\ \A q \in Processes \ {p} : pc'[q] = pc[q]
  BY <1>1 DEF Stop, IInv, TypeOK
<1>9. TypeOK'
  <2>1. new \in [name : Names, file : Inodes]
    BY <1>5, <1>6
  <2>2. archive' \subseteq [name : Names, file : Inodes]
    BY <1>7, <2>1 DEF IInv, TypeOK
  <2>3. UNCHANGED <<tmp, content, chain>> /\ pending' \in Inodes \union {Missing}
    BY <1>1, <1>7 DEF chain
  <2> QED BY <1>1, <2>2, <2>3, StopType DEF IInv
<1>10. FilesApart'
  <2>1. \A f \in archive' : f = new \/ f \in archive
    BY <1>7
  <2>2. new.file = pending
    BY <1>5
  <2>3. \A f \in archive' : f.file # Missing
    BY <1>9, FileJournalAssumption DEF TypeOK
  <2> QED BY <1>1, <1>6, <1>7, <2>1, <2>2, <2>3 DEF IInv, FilesApart
<1>11. DiskTrue' /\ FlightOnDisk'
  BY <1>3, <1>7 DEF DiskTrue, FlightOnDisk, InFlight, MinedAt
<1>12. ArchivedOver'
  <2>1. SUFFICES ASSUME NEW f \in archive', f.name[1] # "rejected"
                 PROVE  f.name[1] \in Broadcasts /\ pc'[f.name[1]] = "gone"
    BY <1>7, ProcessType DEF ArchivedOver, Torn
  <2>2. CASE f \in archive
    BY <1>8, <2>1, <2>2, ProcessType DEF IInv, ArchivedOver
  <2>3. CASE f = new
    <3>1. f.name = Name(r) /\ r.end # "rejected"
      BY <1>4, <1>5, <2>1, <2>3 DEF Name
    <3>2. f.name[1] = r.run /\ r.run \in Broadcasts
      BY <1>3, <3>1, RecordType DEF Name
    <3>3. pc'[r.run] = "gone"
      BY <1>3, <1>8, <3>2, ProcessType DEF Begun, Owner
    <3> QED BY <3>2, <3>3
  <2> QED BY <1>7, <2>1, <2>2, <2>3
<1>13. ArchiveTrue'
  <2>1. SUFFICES ASSUME NEW f \in archive'
                 PROVE  \/ content[f.file].end = "rejected"
                        \/ /\ f.name = <<content[f.file].run, content[f.file].stage>>
                           /\ MinedAt(content[f.file].run, content[f.file].stage - 1)
    BY <1>1, <1>7 DEF ArchiveTrue, MinedAt
  <2>2. CASE f \in archive
    BY <2>2 DEF IInv, ArchiveTrue
  <2>3. CASE f = new
    <3>1. content[f.file] = r /\ f.name = Name(r)
      BY <1>3, <1>4, <1>5, <2>3
    <3> QED BY <1>3, <3>1 DEF Name, Done, RecordTrue
  <2> QED BY <1>7, <2>2, <2>3
<1>14. \A s \in Broadcasts \ {p} : left'[s] = left[s]
  BY <1>7
<1> QED BY <1>1, <1>8, <1>9, <1>10, <1>11, <1>12, <1>13, <1>14, Ends

LEMMA MineKeeps ==
  ASSUME IInv, NEW r \in Broadcasts, NEW stage \in {2, 5}, NEW ok \in BOOLEAN, Mine(r, stage, ok)
  PROVE  IInv'
<1>1. /\ mined' = mined \union {<<r, stage, ok>>} /\ left' = left
      /\ pending' = pending /\ tmp' = tmp /\ archive' = archive /\ content' = content
      /\ pc' = pc /\ mem' = mem /\ handle' = handle /\ presenting' = presenting /\ Disk' = Disk
  BY DEF Mine, files, Disk
<1>2. /\ \A s, n : MinedAt(s, n) => MinedAt(s, n)'
      /\ \A s : InFlight(s)' => InFlight(s)
  BY <1>1 DEF MinedAt, InFlight
<1>3. TypeOK' /\ FilesApart' /\ Handles' /\ OneOwner' /\ RolesKept' /\ NotBegun'
  <2>1. <<r, stage, ok>> \in Broadcasts \X {2, 5} \X BOOLEAN
    OBVIOUS
  <2>2. TypeOK'
    BY <1>1, <2>1 DEF IInv, TypeOK
  <2> QED BY <1>1, <2>2
          DEF IInv, FilesApart, Handles, OneOwner, RolesKept, NotBegun, Owner, Begun
<1>4. ASSUME NEW d, RecordTrue(d)
      PROVE  RecordTrue(d)'
  BY <1>1, <1>2, <1>4 DEF RecordTrue
<1>5. OwnersKnow'
  <2>1. SUFFICES ASSUME NEW p \in Processes, Owner(p)
                 PROVE  \E d \in mem[p] :
                          AtPlace(p, d)' /\ RecordTrue(d)' /\ (p \in Broadcasts => AskedFor(p, d)')
    BY <1>1 DEF OwnersKnow, Owner
  <2>2. PICK d \in mem[p] : AtPlace(p, d) /\ RecordTrue(d) /\ (p \in Broadcasts => AskedFor(p, d))
    BY <2>1 DEF IInv, OwnersKnow
  <2>3. AtPlace(p, d)'
    BY <1>1, <2>2 DEF AtPlace, Begun
  <2>4. p \in Broadcasts => AskedFor(p, d)'
    BY <1>1, <1>2, <2>2 DEF AskedFor
  <2> QED BY <1>4, <2>2, <2>3, <2>4
<1>6. DiskTrue' /\ FlightOnDisk'
  <2>1. DiskTrue'
    <3>1. PICK d : d = Disk /\ d = Disk'
      BY <1>1
    <3>2. d # Torn => Begun(d.run) /\ RecordTrue(d)
      BY <3>1 DEF IInv, DiskTrue
    <3>3. d # Torn => Begun(d.run)' /\ RecordTrue(d)'
      BY <1>1, <1>4, <3>2 DEF Begun
    <3> QED BY <3>1, <3>3 DEF DiskTrue, RecordTrue
  <2> QED BY <1>1, <1>2, <2>1 DEF IInv, FlightOnDisk
<1>7. ArchivedOver' /\ ArchiveTrue'
  BY <1>1, <1>2 DEF IInv, ArchivedOver, ArchiveTrue
<1> QED BY <1>3, <1>5, <1>6, <1>7 DEF IInv

LEMMA InitHolds ==
  ASSUME Init
  PROVE  IInv
<1>1. TypeOK
  BY DEF Init, TypeOK, Stored, Places
<1>2. /\ \A p \in Processes : pc[p] = "start" /\ ~Owner(p)
      /\ \A r \in Broadcasts : ~Begun(r) /\ left[r] = 0 /\ ~InFlight(r)
  BY ProcessType DEF Init, Owner, Begun, InFlight
<1>3. Disk = Torn /\ archive = {} /\ pending = Missing /\ tmp = Missing /\ presenting = {}
  BY DEF Init, Disk
<1>4. FilesApart /\ Handles /\ OneOwner /\ OwnersKnow
  BY <1>2, <1>3 DEF FilesApart, Handles, OneOwner, OwnersKnow
<1>5. RolesKept
  BY <1>2, <1>3, ProcessType DEF RolesKept
<1>6. DiskTrue /\ NotBegun /\ FlightOnDisk /\ ArchivedOver /\ ArchiveTrue
  BY <1>2, <1>3 DEF DiskTrue, NotBegun, FlightOnDisk, ArchivedOver, ArchiveTrue
<1> QED BY <1>1, <1>4, <1>5, <1>6 DEF IInv

LEMMA StutterKeeps ==
  ASSUME IInv, UNCHANGED vars
  PROVE  IInv'
<1>1. /\ pending' = pending /\ tmp' = tmp /\ archive' = archive /\ content' = content
      /\ pc' = pc /\ mem' = mem /\ handle' = handle /\ presenting' = presenting
      /\ left' = left /\ mined' = mined
  BY DEF vars, files, chain
<1>2. Disk' = Disk
  BY <1>1 DEF Disk
<1>3. TypeOK' /\ FilesApart' /\ Handles' /\ OneOwner' /\ RolesKept' /\ NotBegun'
  BY <1>1 DEF IInv, TypeOK, FilesApart, Handles, OneOwner, RolesKept, NotBegun, Owner, Begun
<1>4. OwnersKnow'
  <2>1. SUFFICES ASSUME NEW p \in Processes, Owner(p)
                 PROVE  \E d \in mem[p] :
                          AtPlace(p, d)' /\ RecordTrue(d)' /\ (p \in Broadcasts => AskedFor(p, d)')
    BY <1>1 DEF OwnersKnow, Owner
  <2>2. PICK d \in mem[p] : AtPlace(p, d) /\ RecordTrue(d) /\ (p \in Broadcasts => AskedFor(p, d))
    BY <2>1 DEF IInv, OwnersKnow
  <2>3. AtPlace(p, d)'
    BY <1>1, <1>2, <2>2 DEF AtPlace, Begun
  <2>4. RecordTrue(d)' /\ (p \in Broadcasts => AskedFor(p, d)')
    BY <1>1, <2>2 DEF RecordTrue, AskedFor, InFlight, MinedAt
  <2> QED BY <2>2, <2>3, <2>4
<1>5. DiskTrue' /\ FlightOnDisk'
  BY <1>1, <1>2 DEF IInv, DiskTrue, FlightOnDisk, RecordTrue, Begun, InFlight, MinedAt
<1>6. ArchivedOver' /\ ArchiveTrue'
  BY <1>1, <1>2 DEF IInv, ArchivedOver, ArchiveTrue, MinedAt
<1> QED BY <1>3, <1>4, <1>5, <1>6 DEF IInv

LEMMA NextKeeps ==
  ASSUME IInv, Alone, [Next]_vars
  PROVE  IInv'
<1> HIDE DEF IInv
<1>1. ASSUME NEW p \in Processes, Crash(p) \/ Write(p) \/ Create(p) \/ Rename(p) \/ Archive(p)
      PROVE  IInv'
  BY <1>1, CrashKeeps, WriteKeeps, CreateKeeps, RenameKeeps, ArchiveKeeps
<1>2. ASSUME NEW p \in Broadcasts, Check(p) \/ Wait(p) \/ Push(p)
      PROVE  IInv'
  BY <1>2, CheckKeeps, WaitKeeps, PushKeeps
<1>3. ASSUME NEW p \in Broadcasts, NEW stage \in {1, 4}, Begin(p, stage)
      PROVE  IInv'
  BY <1>3, BeginKeeps
<1>4. ASSUME NEW p \in Broadcasts, NEW answer \in {"hash", "rejected", "lost"},
             AskWallet(p, answer)
      PROVE  IInv'
  BY <1>4, AskWalletKeeps
<1>5. ASSUME NEW p \in Resumes, load_record(p) \/ Status(p)
      PROVE  IInv'
  BY <1>5, load_recordKeeps, StatusKeeps
<1>6. ASSUME NEW r \in Broadcasts, NEW stage \in {2, 5}, NEW ok \in BOOLEAN, Mine(r, stage, ok)
      PROVE  IInv'
  BY <1>6, MineKeeps
<1>7. CASE UNCHANGED vars
  BY <1>7, StutterKeeps
<1> QED BY <1>1, <1>2, <1>3, <1>4, <1>5, <1>6, <1>7 DEF Next

-----------------------------------------------------------------------------
(***************************************************************************)
(* What follows.                                                           *)
(***************************************************************************)

(* While users run --resume by itself, pending.json has one owner at a     *)
(* time, and says what is true of the requests of its run, between any two *)
(* calls of the file system.                                               *)
THEOREM InvariantHolds ==
  ASSUME Alone
  PROVE  Spec => []IInv
<1>1. Init => IInv
  BY InitHolds
<1>2. IInv /\ [Next]_vars => IInv'
  BY NextKeeps
<1> QED BY <1>1, <1>2, PTL DEF Spec

(* A run whose request was neither refused nor mined has a record on disk  *)
(* that goes at least as far as the request.                               *)
THEOREM NothingForgottenHolds ==
  ASSUME Alone
  PROVE  Spec => []NothingForgotten
<1>1. IInv => NothingForgotten
  <2>1. SUFFICES ASSUME IInv, NEW r \in Broadcasts, InFlight(r)
                 PROVE  \E d \in OnDisk : d.run = r /\ d.stage >= left[r]
    BY DEF NothingForgotten, InFlight
  <2>2. Disk.run = r /\ Disk.stage >= left[r]
    BY <2>1 DEF IInv, FlightOnDisk
  <2>3. pending # Missing /\ Disk = content[pending]
    BY <2>2, ProcessType DEF Disk, Torn
  <2>4. Disk \in OnDisk
    BY <2>3 DEF OnDisk
  <2> QED BY <2>2, <2>4
<1> QED BY <1>1, InvariantHolds, PTL

(* No two runs are under way at once: a run begins only when no request of *)
(* an earlier one may still take effect.                                   *)
THEOREM OneUnresolvedHolds ==
  ASSUME Alone
  PROVE  Spec => []OneUnresolved
<1>1. IInv => OneUnresolved
  <2>1. SUFFICES ASSUME IInv, NEW r \in Broadcasts, NEW s \in Broadcasts,
                        Unresolved(r), Unresolved(s)
                 PROVE  r = s
    BY DEF OneUnresolved
  <2>2. ASSUME NEW q \in Broadcasts, Unresolved(q)
        PROVE  Owner(q) \/ Disk.run = q
    BY <2>1, <2>2 DEF Unresolved, Owner, IInv, FlightOnDisk, InFlight
  <2>3. ASSUME NEW q \in Broadcasts, NEW o \in Broadcasts, Owner(q), InFlight(o)
        PROVE  o = q
    <3>1. PICK m \in Records : m = Mem(q) /\ AtPlace(q, m)
      BY <2>1, <2>3, OwnersRecord, ProcessType
    <3>2. Disk.run = o
      BY <2>1, <2>3 DEF IInv, FlightOnDisk
    <3>3. Disk # Torn
      BY <3>2, ProcessType DEF Torn
    <3>4. pc[q] \in {"begin", "ask", "save", "write", "rename", "wait", "push", "archive"}
      BY <2>1, <2>3, ProcessType DEF Owner, IInv, RolesKept, TypeOK, Places
    <3> QED BY <3>1, <3>2, <3>3, <3>4 DEF AtPlace
  <2>4. ASSUME NEW q \in Broadcasts, Unresolved(q), ~Owner(q)
        PROVE  InFlight(q)
    BY <2>4 DEF Unresolved, Owner, InFlight
  <2>5. CASE Owner(r) /\ Owner(s)
    BY <2>1, <2>5, OwnersRecord, ProcessType
  <2>6. CASE ~Owner(r) /\ ~Owner(s)
    BY <2>1, <2>2, <2>6
  <2>7. CASE Owner(r) /\ ~Owner(s)
    BY <2>1, <2>3, <2>4, <2>7
  <2>8. CASE ~Owner(r) /\ Owner(s)
    BY <2>1, <2>3, <2>4, <2>8
  <2> QED BY <2>5, <2>6, <2>7, <2>8
<1> QED BY <1>1, InvariantHolds, PTL

(* What the archive holds under a hash is the record of that run up to     *)
(* that hash, and the transaction is mined.                                *)
THEOREM ArchiveTrueHolds ==
  ASSUME Alone
  PROVE  Spec => []ArchiveTrue
<1>1. IInv => ArchiveTrue
  BY DEF IInv
<1> QED BY <1>1, InvariantHolds, PTL

(* A file of the archive that is named by a hash is never replaced.        *)
THEOREM ArchiveKeptHolds ==
  ASSUME Alone
  PROVE  Spec => ArchiveKept
<1>1. IInv /\ [Next]_vars =>
        [\A f \in archive : f.name[1] # "rejected" =>
           f \in archive' /\ content'[f.file] = content[f.file]]_vars
  <2>1. SUFFICES ASSUME IInv, Next, NEW f \in archive, f.name[1] # "rejected"
                 PROVE  f \in archive' /\ content'[f.file] = content[f.file]
    OBVIOUS
  <2>2. f.file \in Inodes /\ f.file # pending /\ f.file # tmp
    BY <2>1 DEF IInv, TypeOK, FilesApart
  <2>3. CASE UNCHANGED <<archive, content>>
    BY <2>1, <2>3
  <2>4. ASSUME NEW p \in Processes, Write(p)
        PROVE  f \in archive' /\ content'[f.file] = content[f.file]
    <3>1. handle[p] # f.file
      BY <2>1, <2>2, <2>4 DEF Write, IInv, Handles
    <3> QED BY <2>1, <2>2, <2>4, <3>1 DEF Write, IInv, TypeOK
  <2>5. ASSUME NEW p \in Processes, Create(p)
        PROVE  f \in archive' /\ content'[f.file] = content[f.file]
    <3>1. tmp' # f.file /\ content' = [content EXCEPT ![tmp'] = Torn] /\ archive' = archive
      BY <2>1, <2>2, <2>5, NewInodeType DEF Create
    <3> QED BY <2>1, <2>2, <3>1 DEF IInv, TypeOK
  <2>6. ASSUME NEW p \in Processes, Archive(p)
        PROVE  f \in archive' /\ content'[f.file] = content[f.file]
    <3>1. PICK r : r = Mem(p)
      OBVIOUS
    <3>2. r = Disk
      BY <2>1, <2>6, <3>1, ArchivesDone DEF Archive
    <3>3. f.name # Name(r)
      BY <2>1, <3>2 DEF Name, IInv, ArchivedOver
    <3> QED BY <2>1, <2>6, <3>1, <3>3 DEF Archive
  <2>7. ASSUME NEW p \in Broadcasts, NEW stage \in {1, 4}, Begin(p, stage)
        PROVE  f \in archive' /\ content'[f.file] = content[f.file]
    <3>1. CASE MayCreate
      <4>1. PICK i : i = NewInode
        OBVIOUS
      <4>2. i # f.file /\ content' = [content EXCEPT ![i] = Torn] /\ archive' = archive
        BY <2>1, <2>7, <3>1, <4>1, NewInodeType DEF Begin
      <4> QED BY <2>1, <2>2, <4>2 DEF IInv, TypeOK
    <3>2. CASE ~MayCreate
      BY <2>1, <2>7, <3>2 DEF Begin
    <3> QED BY <3>1, <3>2
  <2>8. \/ UNCHANGED <<archive, content>>
        \/ \E p \in Processes : Write(p) \/ Create(p) \/ Archive(p)
        \/ \E p \in Broadcasts, stage \in {1, 4} : Begin(p, stage)
    BY <2>1 DEF Next, Crash, Rename, Check, Wait, Push, AskWallet, load_record, Status, Mine, files
  <2> QED BY <2>3, <2>4, <2>5, <2>6, <2>7, <2>8
<1> QED BY <1>1, InvariantHolds, PTL DEF Spec, ArchiveKept
=============================================================================
