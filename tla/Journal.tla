------------------------------ MODULE Journal -------------------------------
(***************************************************************************)
(* Rollback-journal transactions on one node: the file operations of db.go *)
(* that SQLite reaches through FUSE, CommitJournal, rollbackJournal and    *)
(* DB.Open, with the loss of power at any step.                            *)
(*                                                                         *)
(* SQLite (external) journals pages before it writes them, syncs the       *)
(* journal in between and writes every page it adds to the file            *)
(* (synchronous is not OFF).                                               *)
(***************************************************************************)
EXTENDS Pages, Sequences, SequencesExt, FiniteSets

CONSTANTS
  Budget,           \* how many transactions, demotions and power losses: a bound
  OrderedMetadata   \* the disk keeps directory changes in order: any fsync makes
                    \* earlier ones durable (ext4, xfs); POSIX does not promise it

ASSUME BudgetAssumption == Budget \in [tx : Nat, demote : Nat, crash : Nat]
ASSUME MetadataAssumption == OrderedMetadata \in BOOLEAN

VARIABLES
  file,    \* the database file as the process sees it
  disk,    \* for each page, the values a power loss may leave
  jrnl,    \* the journal file
  jdisk,   \* the journal files a power loss may leave
  ltx,     \* the LTX files; ltx[k] is that of TXID k
  pos,     \* DB.pos
  pageN,   \* DB.pageN
  dirty,   \* DB.dirtyPageSet
  sums,    \* DB.chksums
  role,    \* whether the node runs, and DB.Writeable
  pc,      \* the holder of the write lock and its progress
  cl,      \* the transaction of the SQLite client
  left     \* what is left of Budget

files  == <<file, disk, jrnl, jdisk, ltx>>
memory == <<pos, pageN, dirty, sums>>
vars   == <<files, memory, role, pc, cl, left>>

-----------------------------------------------------------------------------
Value  == [tx : 1 .. Budget.tx + 1, n : Pgno]
File   == [Pgno -> Value \cup {Absent}]

\* A journal: its header has the magic once SQLite has synced it; pages are the
\* frames of its synced segments, tail those of the segment being written, both
\* with the data of orig; inode tells one journal file from the next.
NoJournal == [hdr |-> "none"]
Journal   == [hdr : {"plain", "magic", "cleared"}, inode : Nat, n : Pgno, orig : File,
              pages : SUBSET Pgno, tail : SUBSET Pgno]

\* JournalReader: the first header needs no magic, a later one does; a cleared or
\* truncated journal has no header.
IsValid(j) == j.hdr \in {"plain", "magic"}
Frames(j) == IF j.hdr = "magic" THEN j.pages ELSE IF j.hdr = "plain" THEN j.tail ELSE {}

LTX == [n : Pgno, pages : SUBSET Pgno, data : File, post : File]

NoPos == [txid |-> 0, sum |-> [p \in Pgno |-> Absent]]
NoTx  == [w |-> {}, v |-> Absent]

TypeOK ==
  /\ file \in File /\ disk \in [Pgno -> SUBSET (Value \cup {Absent})]
  /\ jrnl \in Journal \cup {NoJournal} /\ jdisk \subseteq Journal \cup {NoJournal}
  /\ ltx \in Seq(LTX)
  /\ pos \in [txid : Nat, sum : File] /\ pageN \in 0 .. MaxPage
  /\ dirty \subseteq Pgno /\ sums \in File
  /\ role \in {"primary", "leaving", "replica", "down", "opening", "failed"}
  /\ pc \in {"idle", "tx", "undone", "ltx", "synced", "final", "done",
             "roll", "rolled", "init", "apply", "verify"}
  /\ cl \in [w : SUBSET Pgno, v : Value \cup {Absent}]
  /\ left \in [tx : Nat, demote : Nat, crash : Nat]

\* A primary that has committed one transaction.
Init ==
  \E n \in Pgno :
    LET f == [p \in Pgno |-> IF p <= n THEN [tx |-> 1, n |-> n] ELSE Absent]
    IN  /\ file = f /\ disk = [p \in Pgno |-> {f[p]}]
        /\ jrnl = NoJournal /\ jdisk = {NoJournal}
        /\ ltx = <<[n |-> n, pages |-> 1 .. n, data |-> f, post |-> f]>>
        /\ pos = [txid |-> 1, sum |-> f] /\ pageN = n
        /\ dirty = {} /\ sums = f
        /\ role = "primary" /\ pc = "idle" /\ cl = NoTx /\ left = Budget

Spend(e) == left[e] > 0 /\ left' = [left EXCEPT ![e] = @ - 1]

-----------------------------------------------------------------------------
(* What reaches the disk. *)

\* The file becomes f, without or with an fsync.
Write(f) == file' = f /\ disk' = [p \in Pgno |-> disk[p] \cup {f[p]}]
Sync(f)  == file' = f /\ disk' = [p \in Pgno |-> {f[p]}]

\* The journals that may be found after an fsync of some other file.
Settled ==
  IF ~OrderedMetadata THEN jdisk
  ELSE IF jrnl = NoJournal THEN {NoJournal}
  ELSE {j \in jdisk : j # NoJournal /\ j.inode = jrnl.inode}

\* Journal j is written; and it is synced, which does not sync its directory.
WriteJournal(j) == jrnl' = j /\ jdisk' = jdisk \cup {j}
SyncedJournal(j) ==
  /\ jrnl' = j
  /\ jdisk' = {j} \cup IF OrderedMetadata THEN {} ELSE jdisk \cap {NoJournal}

-----------------------------------------------------------------------------
(* The operations of a SQLite client. *)

\* The client starts to write: CreateJournal, or OpenJournal if there is a journal
\* that SQLite does not take for a hot one, and the header.
CreateJournal(n, w) ==
  /\ pc = "idle" /\ role = "primary" /\ jrnl.hdr # "magic"
  /\ Spend("tx")
  /\ 1 \in w /\ w \subseteq 1 .. n /\ Size(file) + 1 .. n \subseteq w
  /\ LET t == Budget.tx - left.tx + 2
     IN  /\ cl' = [w |-> w, v |-> [tx |-> t, n |-> n]]
         /\ WriteJournal([hdr |-> "plain", inode |-> IF jrnl = NoJournal THEN t ELSE jrnl.inode,
                          n |-> Size(file), orig |-> file, pages |-> {}, tail |-> {}])
  /\ pc' = "tx"
  /\ UNCHANGED <<file, disk, ltx, memory, role>>

\* The client journals page p.
WriteJournalAt(p) ==
  /\ pc = "tx" /\ role = "primary"
  /\ p \in cl.w /\ p <= jrnl.n /\ p \notin jrnl.pages \cup jrnl.tail
  /\ WriteJournal([jrnl EXCEPT !.tail = @ \cup {p}])
  /\ UNCHANGED <<file, disk, ltx, memory, role, pc, cl, left>>

\* The client completes the header of the segment; SyncJournal.
SyncJournal ==
  /\ pc = "tx" /\ role = "primary" /\ jrnl.tail # {}
  /\ SyncedJournal([jrnl EXCEPT !.hdr = "magic", !.pages = @ \cup jrnl.tail, !.tail = {}])
  /\ UNCHANGED <<file, disk, ltx, memory, role, pc, cl, left>>

\* Mutant of WritePages: the checksum in memory is not updated.
WritePagesNoChecksum(S, g) ==
  /\ Write(Overlay(file, S, g))
  /\ UNCHANGED sums

\* Pages S of the file are overwritten with those of g (writeDatabasePage).
WritePages(S, g) ==
  /\ Write(Overlay(file, S, g))
  /\ sums' = Overlay(sums, S, g)

\* Mutant of WriteDatabaseAt: a page of the database before is not marked dirty.
WriteDatabaseAtNewOnly(p) ==
  /\ pc = "tx" /\ role = "primary" /\ jrnl.hdr = "magic"
  /\ p \in cl.w /\ file[p] # cl.v
  /\ p <= jrnl.n => p \in jrnl.pages
  /\ WritePages({p}, [q \in Pgno |-> cl.v])
  /\ dirty' = IF p = 1 \/ p > pageN THEN dirty \cup {p} ELSE dirty
  /\ UNCHANGED <<jrnl, jdisk, ltx, pos, pageN, role, pc, cl, left>>

\* The client writes page p: when its cache spills, or before it commits.
WriteDatabaseAt(p) ==
  /\ pc = "tx" /\ role = "primary" /\ jrnl.hdr = "magic"
  /\ p \in cl.w /\ file[p] # cl.v
  /\ p <= jrnl.n => p \in jrnl.pages
  /\ WritePages({p}, [q \in Pgno |-> cl.v])
  /\ dirty' = dirty \cup {p}
  /\ UNCHANGED <<jrnl, jdisk, ltx, pos, pageN, role, pc, cl, left>>

\* The client rolls back what it wrote, or a new client what a dead one wrote: it
\* truncates the file to its old size (TruncateDatabase, which checks the size),
\* plays the journal back and syncs the file.
ClientRollback ==
  /\ role = "primary" /\ jrnl.hdr = "magic" /\ pc \in {"tx", "idle"}
  /\ jrnl.n = pageN
  /\ LET played == IF pc = "tx" THEN jrnl.pages \cup jrnl.tail ELSE jrnl.pages
     IN  /\ Sync(Overlay(Trim(file, pageN), played, jrnl.orig))
         /\ sums' = Overlay(sums, played, jrnl.orig)
         /\ dirty' = dirty \cup played
  /\ pc' = "undone" /\ cl' = NoTx
  /\ jdisk' = Settled
  /\ UNCHANGED <<jrnl, ltx, pos, pageN, role, left>>

\* The client dies, or is refused because the node is no longer writeable.  The
\* journal stays.
ClientEnds ==
  /\ pc \in {"tx", "undone", "done"}
  /\ pc' = "idle" /\ cl' = NoTx
  /\ UNCHANGED <<files, memory, role, left>>

\* After a commit that made the database smaller: TruncateDatabase.
TruncateDatabase ==
  /\ pc = "done"
  /\ Size(file) = pageN
  /\ Sync(Trim(file, pageN))
  /\ pc' = "idle"
  /\ jdisk' = Settled
  /\ UNCHANGED <<jrnl, ltx, memory, role, cl, left>>

-----------------------------------------------------------------------------
(* CommitJournal: the client removes, truncates or clears the journal. *)

\* invalidateJournal, in mode DELETE or in modes TRUNCATE and PERSIST; the journal
\* and its directory are synced.
InvalidateJournal ==
  /\ \/ jrnl' = NoJournal
     \/ jrnl' = [jrnl EXCEPT !.hdr = "cleared", !.pages = {}, !.tail = {}]
  /\ jdisk' = {jrnl'}
  /\ dirty' = {}

\* The header is not valid: nothing has been written to the database.
DiscardJournal ==
  /\ pc = "tx" /\ role = "primary" /\ jrnl.hdr = "plain"
  /\ InvalidateJournal
  /\ pc' = "idle" /\ cl' = NoTx
  /\ UNCHANGED <<file, disk, ltx, pos, pageN, sums, role, left>>

\* The pages of a transaction: the dirty ones that are within its commit size.
TxPages(n) == {p \in dirty : p <= n}

\* The pages read match their checksums and no checksum is missing.
PagesVerified(n) ==
  /\ \A p \in TxPages(n) : file[p] = sums[p]
  /\ \A p \in 1 .. n : sums[p] # Absent

\* The LTX file is built from the dirty pages, synced and renamed; checksums past
\* the end are dropped.
CommitLTX ==
  /\ role = "primary" /\ jrnl.hdr = "magic"
  /\ \/ pc = "tx" /\ \A p \in cl.w : file[p] = cl.v
     \/ pc = "undone"
  /\ LET n == Size(file)
     IN  /\ PagesVerified(n)
         /\ sums' = Trim(sums, n)
         /\ ltx' = Append(ltx, [n |-> n, pages |-> TxPages(n), data |-> file,
                                post |-> Trim(sums, n)])
  /\ pc' = "ltx" /\ cl' = NoTx
  /\ jdisk' = Settled
  /\ UNCHANGED <<file, disk, jrnl, pos, pageN, dirty, role, left>>

\* Mutant of CommitSync: the database file is not synced.
CommitNoSync ==
  /\ pc = "ltx"
  /\ pc' = "synced"
  /\ UNCHANGED <<files, memory, role, cl, left>>

\* The database file is synced ...
CommitSync ==
  /\ pc = "ltx"
  /\ Sync(file)
  /\ pc' = "synced"
  /\ jdisk' = Settled
  /\ UNCHANGED <<jrnl, ltx, memory, role, cl, left>>

\* ... then the journal is invalidated ...
CommitInvalidate ==
  /\ pc = "synced"
  /\ InvalidateJournal
  /\ pc' = "final"
  /\ UNCHANGED <<file, disk, ltx, pos, pageN, sums, role, cl, left>>

\* Mutant of CommitPos: the page count is not set.
CommitPosOnly ==
  /\ pc = "final"
  /\ pos' = [txid |-> pos.txid + 1, sum |-> Last(ltx).post]
  /\ pc' = "done"
  /\ UNCHANGED <<files, pageN, dirty, sums, role, cl, left>>

\* ... and the page count and the position are set.
CommitPos ==
  /\ pc = "final"
  /\ pageN' = Last(ltx).n
  /\ pos' = [txid |-> pos.txid + 1, sum |-> Last(ltx).post]
  /\ pc' = "done"
  /\ UNCHANGED <<files, dirty, sums, role, cl, left>>

-----------------------------------------------------------------------------
(* Recovery: after a demotion (Store.Recover) and in DB.Open. *)

\* The lease is lost; a commit under way goes on.
Demote ==
  /\ role = "primary" /\ Spend("demote")
  /\ role' = "leaving"
  /\ UNCHANGED <<files, memory, pc, cl>>

Promote ==
  /\ role = "replica" /\ pc = "idle"
  /\ role' = "primary"
  /\ UNCHANGED <<files, memory, pc, cl, left>>

\* rollbackJournal writes the frames of the journal to the database.
RollbackPages ==
  /\ role \in {"leaving", "opening"} /\ pc = "idle" /\ jrnl # NoJournal
  /\ WritePages(Frames(jrnl), jrnl.orig)
  /\ pc' = "roll"
  /\ UNCHANGED <<jrnl, jdisk, ltx, pos, pageN, dirty, role, cl, left>>

\* Mutant of RollbackTruncate: one page too many is kept.
RollbackTruncateLate ==
  /\ pc = "roll"
  /\ IF IsValid(jrnl)
     THEN Sync(Trim(file, jrnl.n + 1)) /\ pageN' = jrnl.n + 1 /\ UNCHANGED sums
     ELSE Sync(file) /\ UNCHANGED <<sums, pageN>>
  /\ pc' = "rolled"
  /\ jdisk' = Settled
  /\ UNCHANGED <<jrnl, ltx, pos, dirty, role, cl, left>>

\* The database is resized to the size in the last header, if there was one, and
\* synced.  Checksums are dropped only up to the page count before.
RollbackTruncate ==
  /\ pc = "roll"
  /\ IF IsValid(jrnl)
     THEN /\ Sync(Trim(file, jrnl.n))
          /\ sums' = Resized(sums, jrnl.n, pageN)
          /\ pageN' = jrnl.n
     ELSE Sync(file) /\ UNCHANGED <<sums, pageN>>
  /\ pc' = "rolled"
  /\ jdisk' = Settled
  /\ UNCHANGED <<jrnl, ltx, pos, dirty, role, cl, left>>

\* What follows the rollback: a demoted node is a replica, Open goes on.
Recovered ==
  /\ role' = IF role = "leaving" THEN "replica" ELSE role
  /\ pc' = IF role = "leaving" THEN "idle" ELSE "init"

\* The journal is removed.  Its directory is not synced.
RollbackRemove ==
  /\ pc = "rolled"
  /\ WriteJournal(NoJournal)
  /\ Recovered
  /\ UNCHANGED <<file, disk, ltx, memory, cl, left>>

\* There is no journal.
RollbackNothing ==
  /\ role \in {"leaving", "opening"} /\ pc = "idle" /\ jrnl = NoJournal
  /\ Recovered
  /\ UNCHANGED <<files, memory, cl, left>>

\* The power fails: of each page, and of the journal, one possible state is left.
PowerLoss ==
  /\ role \notin {"down", "failed"} /\ Spend("crash")
  /\ \E f \in [Pgno -> UNION {disk[p] : p \in Pgno}] :
       (\A p \in Pgno : f[p] \in disk[p]) /\ Sync(f)
  /\ \E j \in jdisk : jrnl' = j /\ jdisk' = {j}
  /\ pos' = NoPos /\ pageN' = 0 /\ dirty' = {} /\ sums' = NoPos.sum
  /\ role' = "down" /\ pc' = "idle" /\ cl' = NoTx
  /\ UNCHANGED ltx

\* DB.Open starts: initFromDatabaseHeader.
Open ==
  /\ role = "down"
  /\ role' = "opening" /\ pageN' = Size(file)
  /\ UNCHANGED <<files, pos, dirty, sums, pc, cl, left>>

\* initDatabaseFile: the page count and the checksums of the pages.
InitDatabaseFile ==
  /\ pc = "init"
  /\ pageN' = Size(file) /\ sums' = Content(file)
  /\ pc' = "apply"
  /\ UNCHANGED <<files, pos, dirty, role, cl, left>>

\* A replica stores the LTX file of a transaction of the primary.
ReceiveLTX(n, w) ==
  /\ role = "replica" /\ pc = "idle"
  /\ Spend("tx")
  /\ 1 \in w /\ w \subseteq 1 .. n /\ pageN + 1 .. n \subseteq w
  /\ LET v == [q \in Pgno |-> [tx |-> Budget.tx - left.tx + 2, n |-> n]]
         g == Trim(Overlay(pos.sum, w, v), n)
     IN  ltx' = Append(ltx, [n |-> n, pages |-> w, data |-> g, post |-> g])
  /\ pc' = "apply"
  /\ jdisk' = Settled
  /\ UNCHANGED <<file, disk, jrnl, memory, role, cl>>

\* ApplyLTXNoLock writes the pages of the last LTX file ...
ApplyPages ==
  /\ pc = "apply"
  /\ WritePages(Last(ltx).pages, Last(ltx).data)
  /\ pc' = "verify"
  /\ UNCHANGED <<jrnl, jdisk, ltx, pos, pageN, dirty, role, cl, left>>

\* ... resizes and syncs the database, and compares the checksum.
ApplyVerify ==
  /\ pc = "verify"
  /\ LET l == Last(ltx)
         kept == Resized(sums, l.n, pageN)
     IN  /\ Sync(Trim(file, l.n))
         /\ sums' = kept /\ pageN' = l.n
         /\ IF Trim(kept, l.n) = l.post
            THEN pos' = [txid |-> Len(ltx), sum |-> l.post] /\ role' = "replica"
            ELSE role' = "failed" /\ UNCHANGED pos
  /\ pc' = "idle"
  /\ jdisk' = Settled
  /\ UNCHANGED <<jrnl, ltx, dirty, cl, left>>

-----------------------------------------------------------------------------
ClientStep ==
  \/ \E n \in Pgno : \E w \in SUBSET Pgno : CreateJournal(n, w)
  \/ \E p \in Pgno : WriteJournalAt(p) \/ WriteDatabaseAt(p)
  \/ SyncJournal \/ ClientRollback \/ ClientEnds \/ TruncateDatabase \/ DiscardJournal

CommitStep == CommitLTX \/ CommitSync \/ CommitInvalidate \/ CommitPos

RecoverStep ==
  RollbackPages \/ RollbackTruncate \/ RollbackRemove \/ RollbackNothing \/ Open \/ InitDatabaseFile

ReplicaStep ==
  \/ \E n \in Pgno : \E w \in SUBSET Pgno : ReceiveLTX(n, w)
  \/ ApplyPages \/ ApplyVerify

Next == ClientStep \/ CommitStep \/ RecoverStep \/ ReplicaStep \/ Demote \/ Promote \/ PowerLoss

Spec == Init /\ [][Next]_vars

-----------------------------------------------------------------------------
Running == role \in {"primary", "leaving", "replica"}

\* DB.Open never fails, and a received file never fails its checksum: wherever the
\* power was lost, in a transaction, in CommitJournal or in the recovery itself,
\* the journal and the last LTX file lead back to a state whose checksum matches.
OpenSucceeds == role # "failed"

\* Every LTX file is exactly the change its transaction made: applied to the
\* database before, it gives the one its post-apply checksum is of.  Replicas
\* depend on it; dirtyPageSet is what CommitJournal takes the pages from.
LTXChain ==
  \A k \in 1 .. Len(ltx) :
    /\ ltx[k].post = Content(ltx[k].data)
    /\ k > 1 => ltx[k].post = ApplyTo(ltx[k - 1].post, ltx[k])

\* What a reader would see, rolling back a hot journal, is the database at the
\* position, from the first write of a transaction to the moment its journal is
\* invalidated, and whatever was rolled back, aborted or left by a dead client.
ReadersSeePos ==
  Running /\ pc \in {"idle", "tx", "undone", "ltx", "synced", "done"} =>
    /\ Content(Overlay(file, Frames(jrnl), IF jrnl = NoJournal THEN file ELSE jrnl.orig)) = pos.sum
    /\ pageN = Size(pos.sum)

\* The checksums in memory are those of the pages, so that CommitJournal never
\* refuses a transaction for a checksum that is missing or differs.
CommitNeverRefused ==
  role = "primary" /\ (pc = "undone" \/ (pc = "tx" /\ cl.w # {} /\ \A p \in cl.w : file[p] = cl.v))
  => PagesVerified(Size(file))
=============================================================================
