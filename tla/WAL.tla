-------------------------------- MODULE WAL ---------------------------------
(***************************************************************************)
(* Write-ahead-log transactions on one node: the file operations of db.go  *)
(* that SQLite reaches through FUSE, CommitWAL, the checkpoints of SQLite  *)
(* and of LiteFS, syncWALToLTX and DB.Open, with the loss of power at any  *)
(* step.                                                                   *)
(*                                                                         *)
(* Data.  Offsets in the WAL are numbers of frames.  Salts are numbers;    *)
(* the chained checksums make the frames that a reader takes for valid a   *)
(* prefix of those written since the header, which is what fr holds.       *)
(*                                                                         *)
(* SQLite (external): one connection writes and one checkpoints at a time, *)
(* each behind its lock; the wal-index says where the log ends.  The file  *)
(* system keeps directory changes and truncations in order with fsync.     *)
(***************************************************************************)
EXTENDS Pages, Sequences, SequencesExt, FiniteSets

CONSTANTS
  Budget,    \* how many transactions, demotions and power losses: a bound
  Clients    \* what the connections of SQLite do besides writing one by one:
             \* "passive", a checkpoint may run beside a writer of another connection
             \* "salts", a connection may keep the salts it finds in the wal-index
             \* "unpublished", a client dies between its last frame and the wal-index
             \* "nospace", CommitWAL may fail for want of space
             \* "torn", an import breaks off, by itself or by a power loss

ASSUME BudgetAssumption == Budget \in [tx : Nat, demote : Nat, crash : Nat]
ASSUME ClientsAssumption == 
  Clients \subseteq {"passive", "salts", "unpublished", "nospace", "torn"}

VARIABLES
  file,    \* the database file as the process sees it
  disk,    \* for each page, the values a power loss may leave
  wal,     \* the WAL file
  wdisk,   \* the WAL files a power loss may leave
  ltx,     \* the LTX files; ltx[k] is that of TXID k
  index,   \* the wal-index in the SHM file: SQLite's end of the log
  pos,     \* DB.pos
  pageN,   \* DB.pageN
  sums,    \* DB.chksums
  dbw,     \* DB.wal
  role,    \* whether the node runs, and DB.Writeable
  pc,      \* the holder of the WRITE lock and its progress
  cl,      \* the transaction of the client that writes
  ck,      \* the client that holds the CKPT lock and its progress
  left     \* what is left of Budget

dbfile == <<file, disk>>
log    == <<wal, wdisk>>
memory == <<pos, pageN, sums, dbw>>
locks  == <<pc, cl, ck>>
vars   == <<dbfile, log, ltx, index, memory, role, locks, left>>

-----------------------------------------------------------------------------
Value == [tx : 1 .. Budget.tx + 1, n : Pgno]
File  == [Pgno -> Value \cup {Absent}]

\* A frame has a page, and the database size if it ends a transaction.
Frame == [p : Pgno, v : Value, commit : 0 .. MaxPage]

\* fr are the valid frames, size the length of the file; salt 0 is a file without
\* a header, or none.  gen counts truncations and removals that may not be durable.
Log   == [gen : Nat, salt : Nat, fr : Seq(Frame), size : Nat]
NoLog == [gen |-> 0, salt |-> 0, fr |-> <<>>, size |-> 0]

\* The end of the last transaction in the log, and of the first one after frame k.
LastCommit(fr) == SelectLastInSeq(fr, LAMBDA e : e.commit # 0)
NextCommit(fr, k) == SelectInSubSeq(fr, k + 1, Len(fr), LAMBDA e : e.commit # 0)

\* The pages of frames i to k, and file f with their last versions.
PagesIn(fr, i, k) == {fr[j].p : j \in i .. k}
Version(f, fr, k) ==
  [p \in Pgno |-> IF p \in PagesIn(fr, 1, k)
                  THEN fr[SelectLastInSubSeq(fr, 1, k, LAMBDA e : e.p = p)].v
                  ELSE f[p]]

\* The database a reader sees that reads the log up to frame k.
View(f, fr, k) ==
  IF k = 0 THEN Content(f) ELSE Trim(Version(f, fr, k), fr[k].commit)

LTX == [n : Pgno, pages : SUBSET Pgno, data : File, post : File,
        salt : Nat, off : Nat, size : Nat]

\* DB.wal: position, salts, the last frame of each committed page (0 if none) and
\* the checksums of the pages in the log.  NoSum is no checksum there; Absent is the
\* checksum of a page that was removed.
NoSum == [tx |-> -1, n |-> 0]
NewDBWAL == [offset |-> 0, salt |-> 0, frameOffsets |-> [p \in Pgno |-> 0],
             chksums |-> [p \in Pgno |-> NoSum]]

NoPos  == [txid |-> 0, sum |-> [p \in Pgno |-> Absent]]
NoTx   == [w |-> {}, v |-> Absent, at |-> 0]
NoCkpt == [st |-> "idle", mx |-> 0, n |-> 0, todo |-> {}]

TypeOK ==
  /\ file \in File /\ disk \in [Pgno -> SUBSET (Value \cup {Absent})]
  /\ wal \in Log /\ wdisk \subseteq Log /\ wal \in wdisk
  /\ ltx \in Seq(LTX)
  /\ index \in [mx : Nat, bf : Nat, n : 0 .. MaxPage, salt : Nat]
  /\ index.bf <= index.mx
  /\ pc \in {"import", "apply", "verify"} \/ index.mx <= Len(wal.fr)
  /\ pos \in [txid : Nat, sum : File] /\ pageN \in 0 .. MaxPage /\ sums \in File
  /\ dbw \in [offset : Nat, salt : Nat, frameOffsets : [Pgno -> Nat],
              chksums : [Pgno -> Value \cup {Absent, NoSum}]]
  /\ role \in {"primary", "leaving", "replica", "down", "opening", "failed"}
  /\ pc \in {"idle", "begin", "tx", "framed", "unlock", "synced",
             "recover", "resize", "reset", "init", "import", "apply", "verify"}
  /\ cl \in [w : SUBSET Pgno, v : Value \cup {Absent}, at : Nat]
  /\ ck \in [st : {"idle", "locked", "copy"}, mx : Nat, n : 0 .. MaxPage, todo : SUBSET Pgno]
  /\ left \in [tx : Nat, demote : Nat, crash : Nat]

\* A primary that has committed one transaction and checkpointed it.
Init ==
  \E n \in Pgno :
    LET f == [p \in Pgno |-> IF p <= n THEN [tx |-> 1, n |-> n] ELSE Absent]
    IN  /\ file = f /\ disk = [p \in Pgno |-> {f[p]}]
        /\ wal = NoLog /\ wdisk = {NoLog}
        /\ ltx = <<[n |-> n, pages |-> 1 .. n, data |-> f, post |-> f,
                    salt |-> 0, off |-> 0, size |-> 0]>>
        /\ index = [mx |-> 0, bf |-> 0, n |-> n, salt |-> 0]
        /\ pos = [txid |-> 1, sum |-> f] /\ pageN = n /\ sums = f /\ dbw = NewDBWAL
        /\ role = "primary" /\ pc = "idle" /\ cl = NoTx /\ ck = NoCkpt /\ left = Budget

Running == role \in {"primary", "leaving", "replica"}
Spend(e) == left[e] > 0 /\ left' = [left EXCEPT ![e] = @ - 1]

\* The number of the next transaction; also a salt not used before.
NextTx == Budget.tx - left.tx + 2

-----------------------------------------------------------------------------
(* What reaches the disk. *)

\* The database file becomes f, without or with an fsync.
Write(f) == file' = f /\ disk' = [p \in Pgno |-> disk[p] \cup {f[p]}]
Sync(f)  == file' = f /\ disk' = [p \in Pgno |-> {f[p]}]

\* The log becomes w, without or with an fsync; what an fsync of another file
\* leaves of it.
WriteLog(w) == wal' = w /\ wdisk' = wdisk \cup {w}
SyncLog(w)  == wal' = [w EXCEPT !.gen = 0] /\ wdisk' = {wal'}
Settled     == {w \in wdisk : w.gen = wal.gen}

\* Pages S of the file are overwritten with those of g (writeDatabasePage).
WritePages(S, g) == Write(Overlay(file, S, g)) /\ sums' = Overlay(sums, S, g)

\* TruncateWAL to zero, and RemoveWAL.
ClearLog == WriteLog([NoLog EXCEPT !.gen = wal.gen + 1])

\* DB.wal after TruncateWAL: the position and the salts stay.
ClearedDBWAL ==
  [dbw EXCEPT !.frameOffsets = NewDBWAL.frameOffsets, !.chksums = NewDBWAL.chksums]

\* Mutant of UpdatedSHM: the end of the log is kept.
UpdatedSHMKeepsEnd(n) == [index EXCEPT !.n = n, !.salt = dbw.salt]

\* updateSHM: the log is empty, the salts are those of the last header.
UpdatedSHM(n) == [mx |-> 0, bf |-> 0, n |-> n, salt |-> dbw.salt]

-----------------------------------------------------------------------------
(* A client that writes. *)

\* The WRITE lock is taken.  The transaction writes the pages in w, every page it
\* adds among them, and leaves n pages.
BeginWrite(n, w) ==
  /\ pc = "idle" /\ role = "primary"
  /\ ck = NoCkpt \/ "passive" \in Clients
  /\ Spend("tx")
  /\ w # {} /\ w \subseteq 1 .. n /\ index.n + 1 .. n \subseteq w
  /\ n # index.n => 1 \in w
  /\ cl' = [w |-> w, v |-> [tx |-> NextTx, n |-> n], at |-> index.mx]
  /\ pc' = "begin"
  /\ UNCHANGED <<dbfile, log, ltx, index, memory, role, ck>>

\* The salts of a new header: fresh ones, and always so in a restart; but a client that
\* has restarted the log before keeps those of a wal-index that says it is empty.
Salts ==
  {cl.v.tx} \cup
  {s \in {index.salt} \ {0} : index.mx = 0 /\ (wal.salt = s \/ "salts" \in Clients)}

\* Mutant of HeaderWritten: the position is not reset.
HeaderWrittenKeepsOffset(s) == [NewDBWAL EXCEPT !.salt = s, !.offset = dbw.offset]

\* Mutant of HeaderWritten: the frames of the log before are not forgotten.
HeaderWrittenKeepsFrames(s) == [NewDBWAL EXCEPT !.salt = s, !.frameOffsets = dbw.frameOffsets]

\* DB.wal after writeWALHeader.
HeaderWritten(s) == [NewDBWAL EXCEPT !.salt = s]

\* The log is empty, or restarted because all of it is in the database: the client
\* writes and syncs a header.  The frames behind it are valid if the salts are the same.
WriteWALHeader(s) ==
  /\ pc = "begin" /\ role = "primary" /\ index.bf = index.mx
  /\ SyncLog([wal EXCEPT !.salt = s, !.fr = IF s = wal.salt THEN @ ELSE <<>>])
  /\ dbw' = HeaderWritten(s)
  /\ index' = [index EXCEPT !.mx = 0, !.bf = 0, !.salt = s]
  /\ cl' = [cl EXCEPT !.at = 0]
  /\ pc' = "tx"
  /\ UNCHANGED <<dbfile, ltx, pos, pageN, sums, role, ck, left>>

\* The client writes the next frame; not before the position of LiteFS.
WriteWALFrame ==
  /\ role = "primary"
  /\ pc = "tx" \/ (pc = "begin" /\ index.mx > 0)
  /\ cl.at >= dbw.offset
  /\ LET p == CHOOSE q \in cl.w : \A r \in cl.w : q <= r
         last == cl.w = {p}
     IN  /\ WriteLog([wal EXCEPT !.fr = Append(SubSeq(@, 1, cl.at),
                                               [p |-> p, v |-> cl.v, commit |-> IF last THEN cl.v.n ELSE 0]),
                                 !.size = IF @ > cl.at THEN @ ELSE cl.at + 1])
         /\ cl' = [cl EXCEPT !.w = @ \ {p}, !.at = @ + 1]
         /\ pc' = IF last THEN "framed" ELSE "tx"
  /\ UNCHANGED <<dbfile, ltx, index, memory, role, ck, left>>

\* The client publishes its transaction in the wal-index.
WriteSHM ==
  /\ pc = "framed"
  /\ index' = [index EXCEPT !.mx = cl.at, !.n = cl.v.n]
  /\ pc' = "unlock" /\ cl' = NoTx
  /\ UNCHANGED <<dbfile, log, ltx, memory, role, ck, left>>

\* The client rolls back, dies, or is refused because the node is not writeable.
ClientEnds ==
  /\ pc \in {"begin", "tx"} \/ (pc = "framed" /\ "unpublished" \in Clients)
  /\ pc' = "unlock" /\ cl' = NoTx
  /\ UNCHANGED <<dbfile, log, ltx, index, memory, role, ck, left>>

-----------------------------------------------------------------------------
(* CommitWAL, when the WRITE lock is released. *)

\* Mutant of PageChecksum: the log before goes before the transaction.
PageChecksumStale(p, S, d) ==
  IF dbw.chksums[p] # NoSum THEN dbw.chksums[p]
  ELSE IF p \in S THEN d[p] ELSE sums[p]

\* pageChecksum, for a transaction that writes pages S with the data of d.
PageChecksum(p, S, d) ==
  IF p \in S THEN d[p]
  ELSE IF dbw.chksums[p] # NoSum THEN dbw.chksums[p] ELSE sums[p]

\* readPage: a page as it was before the transaction.
ReadPage(p) ==
  IF dbw.frameOffsets[p] # 0 THEN wal.fr[dbw.frameOffsets[p]].v ELSE file[p]

\* The transaction that ends at frame e is accepted: the pages it removes are the
\* ones their checksums say and no checksum is missing.
Accepted(e) ==
  LET n == wal.fr[e].commit
      S == PagesIn(wal.fr, dbw.offset + 1, e)
      d == Version(file, wal.fr, e)
  IN  /\ \A p \in n + 1 .. pageN : ReadPage(p) = PageChecksum(p, {}, d)
      /\ \A p \in 1 .. n : PageChecksum(p, S, d) # Absent

\* Mutant of CommitSync: the log is not synced.
CommitNoSync ==
  /\ pc = "unlock" /\ pc' = "synced"
  /\ UNCHANGED <<dbfile, log, ltx, index, memory, role, cl, ck, left>>

\* The log is synced, if there is one ...
CommitSync ==
  /\ pc = "unlock" /\ pc' = "synced"
  /\ IF wal.salt = 0 THEN UNCHANGED log ELSE SyncLog(wal)
  /\ UNCHANGED <<dbfile, ltx, index, memory, role, cl, ck, left>>

\* Whether the disk has room for the LTX file.
Room == IF "nospace" \in Clients THEN BOOLEAN ELSE {TRUE}

\* ... and the first transaction after the position becomes an LTX file.  An error is
\* only logged.  Whether the node is still writeable is not asked.
CommitWAL(room) ==
  /\ pc = "synced" /\ pc' = "idle"
  /\ LET e == NextCommit(wal.fr, dbw.offset)
         n == wal.fr[e].commit
         S == PagesIn(wal.fr, dbw.offset + 1, e)
         d == Version(file, wal.fr, e)
         post == [p \in Pgno |-> IF p <= n THEN PageChecksum(p, S, d) ELSE Absent]
     IN  IF e # 0 /\ Accepted(e) /\ room
         THEN /\ ltx' = Append(ltx, [n |-> n, pages |-> S, data |-> d, post |-> post,
                                     salt |-> dbw.salt, off |-> dbw.offset, size |-> e - dbw.offset])
              /\ dbw' = [dbw EXCEPT
                   !.offset = e,
                   !.frameOffsets = Overlay(@, S, [p \in Pgno |->
                      SelectLastInSubSeq(wal.fr, 1, e, LAMBDA f : f.p = p)]),
                   !.chksums = Overlay(@, S \cup n + 1 .. pageN, Trim(d, n))]
              /\ pageN' = n
              /\ pos' = [txid |-> pos.txid + 1, sum |-> post]
              /\ wdisk' = Settled
         ELSE UNCHANGED <<ltx, dbw, pageN, pos, wdisk>>
  /\ UNCHANGED <<dbfile, wal, index, sums, role, cl, ck, left>>

-----------------------------------------------------------------------------
(* A client that checkpoints. *)

\* TryLocks refuses CKPT while another connection holds WRITE.
TryLockCkpt == ck = NoCkpt /\ pc = "idle"

LockCkpt ==
  /\ Running /\ TryLockCkpt /\ index.bf < index.mx
  /\ ck' = [NoCkpt EXCEPT !.st = "locked"]
  /\ UNCHANGED <<dbfile, log, ltx, index, memory, role, pc, cl, left>>

\* The client reads the wal-index, as far as no reader needs older frames, and syncs
\* the log.
BeginCheckpoint(m) ==
  /\ ck.st = "locked"
  /\ m \in index.bf + 1 .. index.mx /\ wal.fr[m].commit # 0
  /\ SyncLog(wal)
  /\ ck' = [st |-> "copy", mx |-> m, n |-> index.n,
            todo |-> PagesIn(wal.fr, index.bf + 1, m) \cap 1 .. index.n]
  /\ UNCHANGED <<dbfile, ltx, index, memory, role, pc, cl, left>>

\* WriteDatabaseAt.
CopyPage(p) ==
  /\ ck.st = "copy" /\ role = "primary" /\ p \in ck.todo
  /\ WritePages({p}, Version(file, wal.fr, ck.mx))
  /\ ck' = [ck EXCEPT !.todo = @ \ {p}]
  /\ UNCHANGED <<log, ltx, index, pos, pageN, dbw, role, pc, cl, left>>

\* If the whole log was copied the file is resized, which TruncateDatabase refuses
\* when the size is not its own, and synced.
EndCheckpoint ==
  /\ ck.st = "copy" /\ ck.todo = {}
  /\ IF ck.mx = index.mx
     THEN ck.n = pageN /\ Sync(Trim(file, ck.n)) /\ wdisk' = Settled
     ELSE UNCHANGED <<dbfile, wdisk>>
  /\ index' = [index EXCEPT !.bf = ck.mx]
  /\ ck' = NoCkpt
  /\ UNCHANGED <<wal, ltx, memory, role, pc, cl, left>>

\* The client dies or is refused.
AbortCheckpoint ==
  /\ ck # NoCkpt
  /\ ck' = NoCkpt
  /\ UNCHANGED <<dbfile, log, ltx, index, memory, role, pc, cl, left>>

\* The log is truncated after a checkpoint, or removed by the last connection.
TruncateWAL ==
  /\ Running /\ pc = "idle" /\ ck = NoCkpt
  /\ wal.salt # 0 /\ index.bf = index.mx
  /\ ClearLog
  /\ dbw' = ClearedDBWAL
  /\ index' = [index EXCEPT !.mx = 0, !.bf = 0, !.salt = 0]
  /\ UNCHANGED <<dbfile, ltx, pos, pageN, sums, role, locks, left>>

-----------------------------------------------------------------------------
(* Recovery: after a demotion (Store.Recover) and in DB.Open. *)

\* The lease is lost; a commit under way goes on.
Demote ==
  /\ role = "primary" /\ Spend("demote")
  /\ role' = "leaving"
  /\ UNCHANGED <<dbfile, log, ltx, index, memory, locks>>

Promote ==
  /\ role = "replica" /\ pc = "idle"
  /\ role' = "primary"
  /\ UNCHANGED <<dbfile, log, ltx, index, memory, locks, left>>

\* CheckpointNoLock runs once nobody holds WRITE or CKPT, or in Open.
CanCheckpoint ==
  \/ role = "leaving" /\ pc = "idle" /\ ck = NoCkpt
  \/ pc = "recover"

\* What follows: a demoted node is a replica, Open goes on.
Recovered ==
  /\ role' = IF role = "leaving" THEN "replica" ELSE role
  /\ pc' = IF role = "leaving" THEN "idle" ELSE "init"

\* There is no WAL file; or it is empty, and only the SHM file is rewritten.
CheckpointNothing ==
  /\ CanCheckpoint /\ wal.salt = 0
  /\ index' \in {index, UpdatedSHM(pageN)}
  /\ Recovered
  /\ UNCHANGED <<dbfile, log, ltx, memory, cl, ck, left>>

\* Mutant of CheckpointEnd: uncommitted frames are copied as well.
CheckpointEndAll == Len(wal.fr)

\* readWALPageOffsets takes the frames up to the last that ends a transaction.
CheckpointEnd == LastCommit(wal.fr)

\* The last committed version of each page is copied ...
CheckpointPages ==
  /\ CanCheckpoint /\ wal.salt # 0
  /\ WritePages(PagesIn(wal.fr, 1, CheckpointEnd), Version(file, wal.fr, CheckpointEnd))
  /\ pc' = "resize"
  /\ UNCHANGED <<log, ltx, index, pos, pageN, dbw, role, cl, ck, left>>

\* ... the file is resized and synced ...
CheckpointResize ==
  /\ pc = "resize" /\ pc' = "reset"
  /\ LET n == wal.fr[LastCommit(wal.fr)].commit
     IN  IF LastCommit(wal.fr) = 0
         THEN UNCHANGED <<dbfile, sums, pageN, wdisk>>
         ELSE /\ Sync(Trim(file, n)) /\ wdisk' = Settled
              /\ sums' = Resized(sums, n, pageN) /\ pageN' = n
  /\ UNCHANGED <<wal, ltx, index, pos, dbw, role, cl, ck, left>>

\* ... and the log is truncated and the SHM file rewritten.
CheckpointReset ==
  /\ pc = "reset"
  /\ ClearLog
  /\ dbw' = ClearedDBWAL
  /\ index' = UpdatedSHM(pageN)
  /\ Recovered
  /\ UNCHANGED <<dbfile, ltx, pos, pageN, sums, cl, ck, left>>

\* The power fails: of each page, and of the log, one possible state is left.
PowerLoss ==
  /\ role \notin {"down", "failed"} /\ Spend("crash")
  /\ pc = "import" => "torn" \in Clients
  /\ \E f \in [Pgno -> UNION {disk[p] : p \in Pgno}] :
       (\A p \in Pgno : f[p] \in disk[p]) /\ Sync(f)
  /\ \E w \in wdisk : SyncLog(w)
  /\ pos' = NoPos /\ pageN' = 0 /\ sums' = NoPos.sum /\ dbw' = NewDBWAL
  /\ index' = [mx |-> 0, bf |-> 0, n |-> 0, salt |-> 0]
  /\ role' = "down" /\ pc' = "idle" /\ cl' = NoTx /\ ck' = NoCkpt
  /\ UNCHANGED ltx

\* syncWALToLTX: a log with other salts than the last LTX file is removed, one that
\* does not reach the start of its transaction is an error, one that goes past its
\* end is cut.
SyncWALToLTX ==
  LET l == Last(ltx)
      end == l.off + l.size
  IN  IF wal.salt = 0 THEN UNCHANGED log
      ELSE IF wal.salt # l.salt THEN ClearLog
      ELSE IF wal.size > end
      THEN WriteLog([wal EXCEPT !.gen = @ + 1, !.size = end,
                                !.fr = SubSeq(@, 1, IF Len(@) < end THEN Len(@) ELSE end)])
      ELSE UNCHANGED log

ShortWAL == wal.salt # 0 /\ wal.salt = Last(ltx).salt /\ wal.size < Last(ltx).off

\* DB.Open starts: initFromDatabaseHeader, syncWALToLTX.
Open ==
  /\ role = "down"
  /\ pageN' = Size(file)
  /\ SyncWALToLTX
  /\ IF ShortWAL THEN role' = "failed" /\ UNCHANGED pc
     ELSE role' = "opening" /\ pc' = "recover"
  /\ UNCHANGED <<dbfile, ltx, index, pos, sums, dbw, cl, ck, left>>

\* initDatabaseFile: the page count and the checksums of the pages.
InitDatabaseFile ==
  /\ pc = "init"
  /\ pageN' = Size(file) /\ sums' = Content(file)
  /\ pc' = "apply"
  /\ UNCHANGED <<dbfile, log, ltx, index, pos, dbw, role, cl, ck, left>>

\* A replica stores the LTX file of a transaction of the primary, which names the
\* salts of another log.
ReceiveLTX(n, w) ==
  /\ role = "replica" /\ pc = "idle"
  /\ Spend("tx")
  /\ w # {} /\ w \subseteq 1 .. n /\ pageN + 1 .. n \subseteq w
  /\ n # pageN => 1 \in w
  /\ LET v == [q \in Pgno |-> [tx |-> NextTx, n |-> n]]
         g == Trim(Overlay(pos.sum, w, v), n)
     IN  ltx' = Append(ltx, [n |-> n, pages |-> w, data |-> g, post |-> g,
                             salt |-> 0, off |-> 0, size |-> 0])
  /\ pc' = "apply"
  /\ wdisk' = Settled
  /\ UNCHANGED <<dbfile, wal, index, memory, role, cl, ck>>

\* Import has the write lock: the log is truncated, if there is one ...
ImportStart ==
  /\ role = "primary" /\ pc = "idle" /\ ck = NoCkpt /\ left.tx > 0
  /\ IF wal.salt = 0 THEN UNCHANGED <<log, dbw>> ELSE ClearLog /\ dbw' = ClearedDBWAL
  /\ pc' = "import"
  /\ UNCHANGED <<dbfile, ltx, index, pos, pageN, sums, role, cl, ck, left>>

Uploads == IF "torn" \in Clients THEN BOOLEAN ELSE {TRUE}

\* ... importToLTX makes a file of the upload, a database of n pages; if the upload is
\* not whole Import returns, and what follows is ApplyLTXNoLock.
ImportToLTX(n, whole) ==
  /\ pc = "import"
  /\ Spend("tx")
  /\ LET g == [p \in Pgno |-> IF p <= n THEN [tx |-> NextTx, n |-> n] ELSE Absent]
     IN  IF whole
         THEN /\ ltx' = Append(ltx, [n |-> n, pages |-> 1 .. n, data |-> g, post |-> g,
                                     salt |-> 0, off |-> 0, size |-> 0])
              /\ wdisk' = Settled
              /\ pc' = "apply"
         ELSE pc' = "idle" /\ UNCHANGED <<ltx, wdisk>>
  /\ UNCHANGED <<dbfile, wal, index, memory, role, cl, ck>>

\* ApplyLTXNoLock writes the pages of the last LTX file ...
ApplyPages ==
  /\ pc = "apply" /\ pc' = "verify"
  /\ WritePages(Last(ltx).pages, Last(ltx).data)
  /\ UNCHANGED <<log, ltx, index, pos, pageN, dbw, role, cl, ck, left>>

\* ... resizes and syncs the database, compares the checksum and rewrites the SHM file.
ApplyVerify ==
  /\ pc = "verify" /\ pc' = "idle"
  /\ LET l == Last(ltx)
         kept == Resized(sums, l.n, pageN)
         sum(p) == IF p > l.n THEN Absent
                   ELSE IF dbw.chksums[p] # NoSum THEN dbw.chksums[p] ELSE kept[p]
     IN  /\ Sync(Trim(file, l.n))
         /\ sums' = kept /\ pageN' = l.n
         /\ IF [p \in Pgno |-> sum(p)] = l.post
            THEN /\ pos' = [txid |-> Len(ltx), sum |-> l.post]
                 /\ role' = IF role = "opening" THEN "replica" ELSE role
                 /\ index' = UpdatedSHM(l.n)
            ELSE role' = "failed" /\ UNCHANGED <<pos, index>>
  /\ wdisk' = Settled
  /\ UNCHANGED <<wal, ltx, dbw, cl, ck, left>>

-----------------------------------------------------------------------------
WriterStep ==
  \/ \E n \in Pgno : \E w \in SUBSET Pgno : BeginWrite(n, w)
  \/ \E s \in Salts : WriteWALHeader(s)
  \/ WriteWALFrame \/ WriteSHM \/ ClientEnds \/ CommitSync
  \/ \E room \in Room : CommitWAL(room)

CheckpointStep ==
  \/ LockCkpt
  \/ \E m \in 1 .. index.mx : BeginCheckpoint(m)
  \/ \E p \in Pgno : CopyPage(p)
  \/ EndCheckpoint \/ AbortCheckpoint \/ TruncateWAL

RecoverStep ==
  CheckpointNothing \/ CheckpointPages \/ CheckpointResize \/ CheckpointReset
    \/ Open \/ InitDatabaseFile

ApplyStep ==
  \/ \E n \in Pgno : \E w \in SUBSET Pgno : ReceiveLTX(n, w)
  \/ ImportStart
  \/ \E n \in Pgno : \E whole \in Uploads : ImportToLTX(n, whole)
  \/ ApplyPages \/ ApplyVerify

Next ==
  WriterStep \/ CheckpointStep \/ RecoverStep \/ ApplyStep \/ Demote \/ Promote \/ PowerLoss

Spec == Init /\ [][Next]_vars

-----------------------------------------------------------------------------
\* DB.Open never fails, and a received or imported file never fails its checksum: wherever the
\* power was lost, in a transaction, in CommitWAL, in a checkpoint or in the
\* recovery itself, log, database and last LTX file lead to a database whose
\* checksum matches.
OpenSucceeds == role # "failed"

\* Every LTX file is exactly the change its transaction made: applied to the database
\* before, it gives the one its post-apply checksum is of.  CommitWAL puts the
\* checksum together from those of the log and those of the file.
LTXChain ==
  \A k \in 2 .. Len(ltx) : ltx[k].post = ApplyTo(ltx[k - 1].post, ltx[k])

\* What SQLite reads through the wal-index is the database at the position, at every
\* step of a checkpoint and of a transaction until it is published, and after
\* aborted ones, restarts of the log, demotions and recoveries.
ReadersSeePos ==
  Running /\ pc \in {"idle", "begin", "tx", "framed"} =>
    View(file, wal.fr, index.mx) = pos.sum /\ pageN = index.n /\ pageN = Size(pos.sum)

\* SQLite and LiteFS agree on the end of the log, so that LiteFS neither misses a
\* transaction nor refuses a frame for being written before its position.
SameEnd ==
  Running /\ pc \in {"idle", "begin", "tx", "framed"} /\ wal.salt # 0 => index.mx = dbw.offset

\* CommitWAL never refuses a transaction for a checksum that is missing or for a
\* removed page that is not what its checksum says; SQLite would have committed it.
CommitNeverRefused ==
  pc = "synced" /\ NextCommit(wal.fr, dbw.offset) # 0 => Accepted(NextCommit(wal.fr, dbw.offset))
=============================================================================
