--------------------------- MODULE JournalProofs ----------------------------
(***************************************************************************)
(* Journal for databases of any size and any number of transactions,       *)
(* demotions and power losses.  What readers see and what the LTX files    *)
(* say needs nothing of the disk, for DB.Open compares checksums; that it  *)
(* always succeeds needs directory changes that stay in order.             *)
(***************************************************************************)
EXTENDS Journal, SequenceTheorems, TLAPS

-----------------------------------------------------------------------------
(* Types, in which a page is of a transaction that has begun: the number   *)
(* of the next one is new to every file and every journal.                 *)

Used        == Budget.tx - left.tx + 1
Known(u)    == [tx : 1..u, n : Pgno] \cup {Absent}
Files(u)    == [Pgno -> Known(u)]
Journals(u) == [hdr : {"plain", "magic", "cleared"}, inode : 0..u, n : Pgno, orig : Files(u),
                pages : SUBSET Pgno, tail : SUBSET Pgno] \cup {NoJournal}
LTXs(u)     == [n : Pgno, pages : SUBSET Pgno, data : Files(u), post : Files(u)]

Typed ==
  /\ left \in [tx : 0..Budget.tx, demote : Nat, crash : Nat]
  /\ file \in Files(Used) /\ disk \in [Pgno -> SUBSET Known(Used)]
  /\ jrnl \in Journals(Used) /\ jdisk \subseteq Journals(Used)
  /\ ltx \in Seq(LTXs(Used)) /\ ltx # <<>>
  /\ pos \in [txid : Nat, sum : Files(Used)] /\ pageN \in 0..MaxPage
  /\ dirty \subseteq Pgno /\ sums \in Files(Used)
  /\ role \in {"primary", "leaving", "replica", "down", "opening", "failed"}
  /\ pc \in {"idle", "tx", "undone", "ltx", "synced", "final", "done",
             "roll", "rolled", "init", "apply", "verify"}
  /\ cl \in [w : SUBSET Pgno, v : Known(Used)]

-----------------------------------------------------------------------------
(* The inductive invariant. *)

New         == ltx[Len(ltx)]
Same(f, g, S) == \A p \in S : f[p] = g[p]

\* f is a database of n pages and nothing else.
Whole(f, n) == n \in Pgno /\ f[1].n = n /\ \A p \in Pgno : p <= n <=> f[p] # Absent

Chained ==
  /\ LTXChain
  /\ \A k \in 1..Len(ltx) : ltx[k].n = Size(ltx[k].data) /\ Whole(ltx[k].post, ltx[k].n)

\* Who holds the write lock where, and what journal there is then.
Roles ==
  /\ role = "primary" => pc \in {"idle", "tx", "undone", "ltx", "synced", "final", "done"}
  /\ role = "leaving" => pc \notin {"init", "apply", "verify"}
  /\ role = "replica" => pc \in {"idle", "apply", "verify"} /\ jrnl = NoJournal
  /\ role = "opening" => pc \in {"idle", "roll", "rolled", "init", "apply", "verify"}
  /\ role \in {"down", "failed"} => pc = "idle"
  /\ pc \in {"init", "apply", "verify"} => jrnl = NoJournal
  /\ pc = "tx" => IsValid(jrnl)
  /\ pc \in {"undone", "ltx", "synced"} => jrnl.hdr = "magic"
  /\ pc \in {"final", "done"} => ~IsValid(jrnl)

\* The pages that the newest LTX file leaves alone are those of the position.
Based == Same(New.post, pos.sum, 1..New.n \ New.pages) /\ 1..New.n \ New.pages \subseteq 1..pageN

\* The position is a database, that of the newest LTX file unless it is being
\* committed or applied.
Position ==
  Running =>
    /\ Whole(pos.sum, pageN)
    /\ pc \in {"idle", "tx", "undone", "done", "roll", "rolled"} => pos.sum = New.post
    /\ pc \in {"ltx", "synced", "apply"} => Based

\* The pages of the database that SQLite may have overwritten.
Logged(j) == IF j.hdr = "magic" THEN j.pages ELSE {}

\* A journal has the pages of the position, and the others are in the file.
JournalUndoes ==
  Running =>
    /\ IsValid(jrnl) /\ pc \in {"idle", "tx", "undone", "ltx", "synced", "roll", "rolled"} =>
         /\ jrnl.n = pageN /\ Same(jrnl.orig, pos.sum, 1..pageN)
         /\ jrnl.pages \cup jrnl.tail \subseteq 1..pageN
    /\ pc \in {"idle", "tx", "ltx", "synced", "done"} =>
         Same(file, pos.sum, 1..pageN \ Logged(jrnl))
    /\ pc \in {"undone", "roll", "rolled", "done", "apply"} => Same(file, pos.sum, 1..pageN)

\* The transaction of a client, whose pages no file had before.
Transaction ==
  pc = "tx" =>
    /\ 1 \in cl.w /\ cl.w \subseteq 1..cl.v.n /\ pageN + 1..cl.v.n \subseteq cl.w
    /\ cl.v # Absent /\ \A p \in 1..pageN : file[p] # Absent
    /\ \A p \in Pgno : file[p] = cl.v => p \in dirty /\ sums[p] = cl.v

\* Checksums and dirty pages.
Memory ==
  Running =>
    /\ pc \in {"idle", "tx", "undone", "roll", "rolled", "done", "apply"} =>
         Same(sums, file, 1..pageN)
    /\ pc \in {"idle", "tx", "undone"} => Same(file, pos.sum, 1..pageN \ dirty)
    /\ pc \in {"ltx", "synced", "final"} =>
         Same(file, New.post, 1..New.n) /\ Same(sums, New.post, 1..New.n)

\* A checksum is that of the file, or missing, where an LTX file does not set it.
Applying ==
  /\ pc = "apply" => \A p \in 1..New.n \ New.pages : sums[p] \in {file[p], Absent}
  /\ pc = "verify" => \A p \in 1..New.n : sums[p] \in {file[p], Absent}

Inv ==
  /\ Typed /\ Chained /\ Roles /\ Position
  /\ JournalUndoes /\ Transaction /\ Memory /\ Applying

-----------------------------------------------------------------------------
(* Files and types. *)

\* Page 1 is a page, and a page that is absent counts none.
LEMMA PageFacts ==
  /\ MaxPage \in Nat /\ MaxPage >= 1 /\ 1 \in Pgno
  /\ Pgno \subseteq Nat /\ Pgno \subseteq 0..MaxPage
  /\ Absent.n = 0 /\ Absent.tx = 0 /\ \A u : Absent \in Known(u)
BY PageAssumption DEF Pgno, Absent, Known

\* A page counts between 0 and MaxPage pages.
LEMMA SizeType ==
  ASSUME NEW u \in Nat, NEW f \in Files(u)
  PROVE  /\ Size(f) \in 0..MaxPage
         /\ f[1] # Absent => Size(f) \in Pgno
BY PageFacts DEF Size, Files, Known, Pgno, Absent

\* What is made of files is a file.
LEMMA FileOps ==
  ASSUME NEW u \in Nat, NEW f \in Files(u), NEW g \in Files(u), NEW S, NEW n, NEW m
  PROVE  /\ Trim(f, n) \in Files(u) /\ Content(f) \in Files(u)
         /\ Overlay(f, S, g) \in Files(u) /\ Resized(f, n, m) \in Files(u)
BY PageFacts DEF Trim, Content, Overlay, Resized, Files

\* What was known stays known.
LEMMA KnownGrows ==
  ASSUME NEW u \in Nat, NEW v \in Nat, u <= v
  PROVE  /\ Known(u) \subseteq Known(v) /\ Files(u) \subseteq Files(v)
         /\ Journals(u) \subseteq Journals(v) /\ LTXs(u) \subseteq LTXs(v)
         /\ Seq(LTXs(u)) \subseteq Seq(LTXs(v))
<1>1. Known(u) \subseteq Known(v)
  BY DEF Known
<1>2. Files(u) \subseteq Files(v)
  BY <1>1 DEF Files
<1>3. Journals(u) \subseteq Journals(v)
  BY <1>2 DEF Journals
<1>4. LTXs(u) \subseteq LTXs(v)
  BY <1>2 DEF LTXs
<1>5. Seq(LTXs(u)) \subseteq Seq(LTXs(v))
  <2>1. SUFFICES ASSUME NEW s \in Seq(LTXs(u)) PROVE s \in Seq(LTXs(v))
    OBVIOUS
  <2>2. Len(s) \in Nat /\ s \in [1..Len(s) -> LTXs(u)]
    BY LenProperties
  <2>3. s \in [1..Len(s) -> LTXs(v)]
    BY <1>4, <2>2
  <2>4. QED
    BY <2>2, <2>3 DEF Seq
<1>6. QED
  BY <1>1, <1>2, <1>3, <1>4, <1>5

\* The number of transactions begun.
LEMMA UsedType == Typed => Used \in Nat /\ Used >= 1 /\ Used <= Budget.tx + 1
BY BudgetAssumption DEF Typed, Used

\* The types of Journal.
LEMMA TypedIs == Typed => TypeOK
<1>1. SUFFICES ASSUME Typed PROVE TypeOK
  OBVIOUS
<1>2. Used \in Nat /\ Budget.tx + 1 \in Nat /\ Used <= Budget.tx + 1
  BY <1>1, UsedType, BudgetAssumption
<1> DEFINE b == Budget.tx + 1
<1>3. Known(b) = Value \cup {Absent} /\ Files(b) = File
  BY DEF Known, Files, Value, File
<1>4. /\ Known(Used) \subseteq Known(b) /\ Files(Used) \subseteq Files(b)
      /\ Journals(Used) \subseteq Journals(b) /\ Seq(LTXs(Used)) \subseteq Seq(LTXs(b))
  BY <1>2, KnownGrows
<1> HIDE DEF b
<1>5. Journals(b) \subseteq Journal \cup {NoJournal} /\ LTXs(b) = LTX
  <2>1. LTXs(b) = LTX
    BY <1>3 DEF LTXs, LTX
  <2>2. 0..b \subseteq Nat
    OBVIOUS
  <2>3. Journals(b) \subseteq Journal \cup {NoJournal}
    BY <1>3, <2>2 DEF Journals, Journal
  <2>4. QED
    BY <2>1, <2>3
<1>6. /\ file \in File /\ disk \in [Pgno -> SUBSET (Value \cup {Absent})]
      /\ sums \in File /\ pos \in [txid : Nat, sum : File]
      /\ cl \in [w : SUBSET Pgno, v : Value \cup {Absent}]
  BY <1>1, <1>3, <1>4 DEF Typed
<1>7. jrnl \in Journal \cup {NoJournal} /\ jdisk \subseteq Journal \cup {NoJournal}
  BY <1>1, <1>4, <1>5 DEF Typed
<1>8. ltx \in Seq(LTX)
  BY <1>1, <1>4, <1>5 DEF Typed
<1>9. left \in [tx : Nat, demote : Nat, crash : Nat]
  BY <1>1, BudgetAssumption DEF Typed
<1>10. QED
  BY <1>1, <1>6, <1>7, <1>8, <1>9 DEF Typed, TypeOK

\* The steps that write or sync a file.
LEMMA WriteTyped ==
  ASSUME Typed, NEW f \in Files(Used), Write(f) \/ Sync(f)
  PROVE  file' \in Files(Used) /\ disk' \in [Pgno -> SUBSET Known(Used)]
BY DEF Write, Sync, Typed, Files

\* Journals that an fsync leaves are among those there were, or none.
LEMMA SettledTyped ==
  /\ Settled \subseteq jdisk \cup {NoJournal}
  /\ Typed => Settled \subseteq Journals(Used)
BY DEF Settled, Typed, Journals

\* The newest LTX file and its database.
LEMMA NewFacts ==
  ASSUME Typed
  PROVE  /\ Len(ltx) \in Nat /\ Len(ltx) >= 1 /\ Last(ltx) = New /\ New \in LTXs(Used)
         /\ New.n \in Pgno /\ New.pages \subseteq Pgno
         /\ New.data \in Files(Used) /\ New.post \in Files(Used)
         /\ Chained => /\ New.n = Size(New.data) /\ Whole(New.post, New.n)
                       /\ New.post = Content(New.data)
                       /\ Same(New.data, New.post, 1..New.n)
<1>1. Len(ltx) \in Nat /\ Len(ltx) >= 1
  BY LenProperties, EmptySeq DEF Typed
<1>2. New \in LTXs(Used)
  BY <1>1, ElementOfSeq DEF Typed, New
<1>3. Last(ltx) = New
  BY DEF Last, New
<1>4. ASSUME Chained
      PROVE  /\ New.n = Size(New.data) /\ Whole(New.post, New.n)
             /\ New.post = Content(New.data)
  BY <1>1, <1>4 DEF Chained, LTXChain, New
<1>5. ASSUME Chained PROVE Same(New.data, New.post, 1..New.n)
  BY <1>2, <1>4, <1>5, PageFacts DEF Content, Trim, Same, LTXs, Pgno
<1>6. QED
  BY <1>1, <1>2, <1>3, <1>4, <1>5 DEF LTXs

\* A file that has the pages of a database counts as many.
LEMMA SameSize ==
  ASSUME NEW n \in Pgno, NEW g, Whole(g, n), NEW f, Same(f, g, 1..n)
  PROVE  Size(f) = n
BY PageFacts DEF Same, Whole, Size, Pgno

\* The size that a commit finds in the header.
LEMMA FileSize ==
  ASSUME Inv, Running
  PROVE  /\ pageN \in Pgno
         /\ pc \in {"idle", "tx", "done"} /\ jrnl.hdr # "magic" =>
              Same(file, pos.sum, 1..pageN) /\ Size(file) = pageN
         /\ pc \in {"undone", "roll", "rolled", "done", "apply"} => Size(file) = pageN
         /\ pc = "tx" /\ (\A p \in cl.w : file[p] = cl.v) => Size(file) = cl.v.n /\ cl.v.n \in Pgno
<1>1. Whole(pos.sum, pageN) /\ pageN \in Pgno
  BY DEF Inv, Position, Whole
<1>2. pc \in {"idle", "tx", "done"} /\ jrnl.hdr # "magic" => Same(file, pos.sum, 1..pageN)
  BY DEF Inv, JournalUndoes, Logged, Same
<1>3. pc \in {"undone", "roll", "rolled", "done", "apply"} => Same(file, pos.sum, 1..pageN)
  BY DEF Inv, JournalUndoes
<1>4. pc = "tx" /\ (\A p \in cl.w : file[p] = cl.v) => Size(file) = cl.v.n /\ cl.v.n \in Pgno
  BY PageFacts DEF Inv, Transaction, Size, Typed, Known
<1>5. QED
  BY <1>1, <1>2, <1>3, <1>4, SameSize

\* A transaction that begins has a new number.
LEMMA Spent ==
  ASSUME Typed, Spend("tx")
  PROVE  /\ left' \in [tx : 0..Budget.tx, demote : Nat, crash : Nat]
         /\ Used' = Used + 1 /\ Budget.tx - left.tx + 2 = Used'
<1>1. left \in [tx : 0..Budget.tx, demote : Nat, crash : Nat]
  BY DEF Typed
<1>2. left.tx > 0 /\ left' = [left EXCEPT !.tx = left.tx - 1]
  BY <1>1 DEF Spend
<1>3. left'.tx = left.tx - 1
  BY <1>1, <1>2
<1>4. left.tx - 1 \in 0..Budget.tx
  BY <1>1, <1>2, BudgetAssumption
<1>5. left' \in [tx : 0..Budget.tx, demote : Nat, crash : Nat]
  BY <1>1, <1>2, <1>4
<1>6. QED
  BY <1>1, <1>3, <1>5, BudgetAssumption DEF Used

\* A journal that SQLite has written to.
LEMMA ValidJournal ==
  ASSUME Typed, IsValid(jrnl)
  PROVE  /\ jrnl # NoJournal
         /\ jrnl \in [hdr : {"plain", "magic", "cleared"}, inode : 0..Used, n : Pgno,
                      orig : Files(Used), pages : SUBSET Pgno, tail : SUBSET Pgno]
BY DEF Typed, Journals, IsValid, NoJournal

\* invalidateJournal leaves no header.
LEMMA InvalidateTyped ==
  ASSUME Typed, IsValid(jrnl), InvalidateJournal
  PROVE  /\ jrnl' \in Journals(Used) /\ jdisk' \subseteq Journals(Used)
         /\ ~IsValid(jrnl)' /\ Frames(jrnl') = {} /\ Logged(jrnl') = {}
         /\ dirty' = {} /\ jdisk' = {jrnl'} /\ jrnl'.hdr # "magic"
<1>1. CASE jrnl' = NoJournal
  BY <1>1 DEF InvalidateJournal, Journals, IsValid, NoJournal, Frames, Logged
<1>2. CASE jrnl' = [jrnl EXCEPT !.hdr = "cleared", !.pages = {}, !.tail = {}]
  <2> DEFINE j == [jrnl EXCEPT !.hdr = "cleared", !.pages = {}, !.tail = {}]
  <2>1. j.hdr = "cleared" /\ j \in Journals(Used)
    BY ValidJournal DEF Journals
  <2>2. jrnl' = j /\ jdisk' = {j} /\ dirty' = {}
    BY <1>2 DEF InvalidateJournal
  <2> HIDE DEF j
  <2>3. QED
    BY <2>1, <2>2 DEF IsValid, Frames, Logged
<1>3. QED
  BY <1>1, <1>2 DEF InvalidateJournal

\* Types are kept by the steps of a client ...
LEMMA TypedClient ==
  ASSUME Inv, ClientStep
  PROVE  Typed'
<1>0. Typed /\ Used \in Nat
  BY UsedType DEF Inv
<1>1. ASSUME NEW n \in Pgno, NEW w \in SUBSET Pgno, CreateJournal(n, w) PROVE Typed'
  <2>1. /\ left' \in [tx : 0..Budget.tx, demote : Nat, crash : Nat]
        /\ Used' = Used + 1 /\ Budget.tx - left.tx + 2 = Used'
    BY <1>0, <1>1, Spent DEF CreateJournal
  <2>2. /\ Known(Used) \subseteq Known(Used') /\ Files(Used) \subseteq Files(Used')
        /\ Journals(Used) \subseteq Journals(Used') /\ Seq(LTXs(Used)) \subseteq Seq(LTXs(Used'))
    BY <1>0, <2>1, KnownGrows
  <2>3. Size(file) \in Pgno
    BY <1>1, FileSize DEF CreateJournal, Running
  <2> DEFINE j == [hdr |-> "plain", inode |-> IF jrnl = NoJournal THEN Used' ELSE jrnl.inode,
                   n |-> Size(file), orig |-> file, pages |-> {}, tail |-> {}]
  <2>4. j \in Journals(Used')
    <3>1. (IF jrnl = NoJournal THEN Used' ELSE jrnl.inode) \in 0..Used'
      BY <1>0, <2>1 DEF Typed, Journals
    <3>2. file \in Files(Used')
      BY <1>0, <2>2 DEF Typed
    <3>3. QED
      BY <2>3, <3>1, <3>2 DEF Journals
  <2>5. jrnl' = j /\ jdisk' = jdisk \cup {j}
    BY <1>1, <2>1 DEF CreateJournal, WriteJournal
  <2>6. cl' \in [w : SUBSET Pgno, v : Known(Used')]
    <3>1. cl' = [w |-> w, v |-> [tx |-> Used', n |-> n]]
      BY <1>1, <2>1 DEF CreateJournal
    <3>2. [tx |-> Used', n |-> n] \in Known(Used')
      BY <1>0, <2>1 DEF Known
    <3>3. QED
      BY <3>1, <3>2
  <2> HIDE DEF j
  <2>7. jrnl' \in Journals(Used') /\ jdisk' \subseteq Journals(Used')
    BY <1>0, <2>2, <2>4, <2>5 DEF Typed
  <2>8. file' \in Files(Used') /\ disk' \in [Pgno -> SUBSET Known(Used')]
    BY <1>0, <1>1, <2>2 DEF Typed, CreateJournal
  <2>9. ltx' \in Seq(LTXs(Used')) /\ ltx' # <<>>
    BY <1>0, <1>1, <2>2 DEF Typed, CreateJournal
  <2>10. /\ pos' \in [txid : Nat, sum : Files(Used')] /\ sums' \in Files(Used')
         /\ pageN' \in 0..MaxPage /\ dirty' \subseteq Pgno
    BY <1>0, <1>1, <2>2 DEF Typed, CreateJournal, memory
  <2>11. QED
    BY <1>0, <1>1, <2>1, <2>6, <2>7, <2>8, <2>9, <2>10 DEF Typed, CreateJournal
<1>2. ASSUME NEW p \in Pgno, WriteJournalAt(p) PROVE Typed'
  <2>1. jrnl' \in Journals(Used) /\ jdisk' \subseteq Journals(Used)
    <3> DEFINE j == [jrnl EXCEPT !.tail = @ \cup {p}]
    <3>1. IsValid(jrnl)
      BY <1>2 DEF WriteJournalAt, Inv, Roles
    <3>2. j \in Journals(Used)
      BY <1>0, <3>1, ValidJournal DEF Journals
    <3>3. jrnl' = j /\ jdisk' = jdisk \cup {j}
      BY <1>2 DEF WriteJournalAt, WriteJournal
    <3> HIDE DEF j
    <3>4. QED
      BY <1>0, <3>2, <3>3 DEF Typed
  <2>2. QED
    BY <1>0, <1>2, <2>1 DEF WriteJournalAt, Typed, Used, memory
<1>3. ASSUME NEW p \in Pgno, WriteDatabaseAt(p) PROVE Typed'
  <2>1. [q \in Pgno |-> cl.v] \in Files(Used)
    BY <1>0 DEF Typed, Files
  <2>2. /\ Overlay(file, {p}, [q \in Pgno |-> cl.v]) \in Files(Used)
        /\ sums' \in Files(Used)
    BY <1>0, <1>3, <2>1, FileOps DEF WriteDatabaseAt, WritePages, Typed
  <2>3. file' \in Files(Used) /\ disk' \in [Pgno -> SUBSET Known(Used)]
    BY <1>0, <1>3, <2>2, WriteTyped DEF WriteDatabaseAt, WritePages
  <2>4. QED
    BY <1>0, <1>3, <2>2, <2>3 DEF WriteDatabaseAt, Typed, Used
<1>4. CASE SyncJournal
  <2>1. jrnl' \in Journals(Used) /\ jdisk' \subseteq Journals(Used)
    <3> DEFINE j == [jrnl EXCEPT !.hdr = "magic", !.pages = @ \cup jrnl.tail, !.tail = {}]
    <3>1. IsValid(jrnl)
      BY <1>4 DEF SyncJournal, Inv, Roles
    <3>2. j \in Journals(Used)
      BY <1>0, <3>1, ValidJournal DEF Journals
    <3>3. jrnl' = j /\ jdisk' \subseteq {j} \cup jdisk
      BY <1>4 DEF SyncJournal, SyncedJournal
    <3> HIDE DEF j
    <3>4. QED
      BY <1>0, <3>2, <3>3 DEF Typed
  <2>2. QED
    BY <1>0, <1>4, <2>1 DEF SyncJournal, Typed, Used, memory
<1>5. CASE ClientRollback
  <2>1. PICK played : /\ Sync(Overlay(Trim(file, pageN), played, jrnl.orig))
                      /\ sums' = Overlay(sums, played, jrnl.orig)
                      /\ dirty' = dirty \cup played /\ played \subseteq jrnl.pages \cup jrnl.tail
    BY <1>5 DEF ClientRollback
  <2>2. jrnl.orig \in Files(Used) /\ jrnl.pages \subseteq Pgno /\ jrnl.tail \subseteq Pgno
    BY <1>0, <1>5, ValidJournal DEF ClientRollback, IsValid
  <2>3. /\ Overlay(Trim(file, pageN), played, jrnl.orig) \in Files(Used)
        /\ sums' \in Files(Used)
    BY <1>0, <2>1, <2>2, FileOps DEF Typed
  <2>4. file' \in Files(Used) /\ disk' \in [Pgno -> SUBSET Known(Used)]
    BY <1>0, <2>1, <2>3, WriteTyped
  <2>5. cl' \in [w : SUBSET Pgno, v : Known(Used)]
    BY <1>5, PageFacts DEF ClientRollback, NoTx
  <2>6. jdisk' \subseteq Journals(Used)
    BY <1>0, <1>5, SettledTyped DEF ClientRollback
  <2>7. dirty' \subseteq Pgno
    BY <1>0, <2>1, <2>2 DEF Typed
  <2>8. QED
    BY <1>0, <1>5, <2>3, <2>4, <2>5, <2>6, <2>7 DEF ClientRollback, Typed, Used
<1>6. CASE ClientEnds
  <2>1. cl' \in [w : SUBSET Pgno, v : Known(Used)]
    BY <1>6, PageFacts DEF ClientEnds, NoTx
  <2>2. QED
    BY <1>0, <1>6, <2>1 DEF ClientEnds, Typed, Used, files, memory
<1>7. CASE TruncateDatabase
  <2>1. file' \in Files(Used) /\ disk' \in [Pgno -> SUBSET Known(Used)]
    BY <1>0, <1>7, FileOps, WriteTyped DEF TruncateDatabase, Typed
  <2>2. jdisk' \subseteq Journals(Used)
    BY <1>0, <1>7, SettledTyped DEF TruncateDatabase
  <2>3. QED
    BY <1>0, <1>7, <2>1, <2>2 DEF TruncateDatabase, Typed, Used, memory
<1>8. CASE DiscardJournal
  <2>1. cl' \in [w : SUBSET Pgno, v : Known(Used)]
    BY <1>8, PageFacts DEF DiscardJournal, NoTx
  <2>2. jrnl' \in Journals(Used) /\ jdisk' \subseteq Journals(Used) /\ dirty' = {}
    BY <1>0, <1>8, InvalidateTyped DEF DiscardJournal, IsValid
  <2>3. QED
    BY <1>0, <1>8, <2>1, <2>2 DEF DiscardJournal, Typed, Used
<1>9. QED
  BY <1>1, <1>2, <1>3, <1>4, <1>5, <1>6, <1>7, <1>8 DEF ClientStep

\* The LTX file of a commit: the pages of the file, and the checksums.
CommitFile ==
  [n |-> Size(file), pages |-> TxPages(Size(file)), data |-> file, post |-> Trim(sums, Size(file))]

\* It is appended to those there are.
LEMMA CommitFileTyped ==
  ASSUME Inv, CommitLTX
  PROVE  /\ CommitFile \in LTXs(Used) /\ ltx' = Append(ltx, CommitFile)
         /\ ltx' \in Seq(LTXs(Used)) /\ ltx' # <<>> /\ Len(ltx') = Len(ltx) + 1
         /\ \A k \in 1..Len(ltx) : ltx'[k] = ltx[k]
         /\ New' = CommitFile
<1>0. Typed /\ Used \in Nat
  BY UsedType DEF Inv
<1>1. Size(file) \in Pgno
  BY FileSize DEF CommitLTX, Running
<1>2. CommitFile \in LTXs(Used)
  <2>1. TxPages(Size(file)) \subseteq Pgno /\ Trim(sums, Size(file)) \in Files(Used)
    BY <1>0, FileOps DEF TxPages, Typed
  <2>2. QED
    BY <1>0, <1>1, <2>1 DEF CommitFile, LTXs, Typed
<1>3. ltx' = Append(ltx, CommitFile)
  BY DEF CommitLTX, CommitFile
<1>4. QED
  BY <1>0, <1>2, <1>3, AppendProperties, LenProperties DEF Typed, New

\* ... by those of CommitJournal ...
LEMMA TypedCommit ==
  ASSUME Inv, CommitStep
  PROVE  Typed'
<1>0. Typed /\ Used \in Nat
  BY UsedType DEF Inv
<1>1. CASE CommitLTX
  <2>1. ltx' \in Seq(LTXs(Used)) /\ ltx' # <<>>
    BY <1>1, CommitFileTyped
  <2>2. sums' \in Files(Used)
    BY <1>0, <1>1, FileOps DEF CommitLTX, Typed
  <2>3. cl' \in [w : SUBSET Pgno, v : Known(Used)]
    BY <1>1, PageFacts DEF CommitLTX, NoTx
  <2>4. jdisk' \subseteq Journals(Used)
    BY <1>0, <1>1, SettledTyped DEF CommitLTX
  <2>5. QED
    BY <1>0, <1>1, <2>1, <2>2, <2>3, <2>4 DEF CommitLTX, Typed, Used
<1>2. CASE CommitSync
  <2>1. file' \in Files(Used) /\ disk' \in [Pgno -> SUBSET Known(Used)]
    BY <1>0, <1>2, WriteTyped DEF CommitSync, Typed
  <2>2. jdisk' \subseteq Journals(Used)
    BY <1>0, <1>2, SettledTyped DEF CommitSync
  <2>3. QED
    BY <1>0, <1>2, <2>1, <2>2 DEF CommitSync, Typed, Used, memory
<1>3. CASE CommitInvalidate
  <2>1. jrnl' \in Journals(Used) /\ jdisk' \subseteq Journals(Used) /\ dirty' = {}
    BY <1>0, <1>3, InvalidateTyped DEF CommitInvalidate, Inv, Roles, IsValid
  <2>2. QED
    BY <1>0, <1>3, <2>1 DEF CommitInvalidate, Typed, Used
<1>4. CASE CommitPos
  <2>1. Last(ltx).n \in Pgno /\ Last(ltx).post \in Files(Used)
    BY <1>0, NewFacts
  <2>2. pageN' \in 0..MaxPage /\ pos' \in [txid : Nat, sum : Files(Used)]
    BY <1>0, <1>4, <2>1 DEF CommitPos, Typed, Pgno
  <2>3. QED
    BY <1>0, <1>4, <2>2 DEF CommitPos, Typed, Used, files
<1>5. QED
  BY <1>1, <1>2, <1>3, <1>4 DEF CommitStep

\* ... by those of the recovery ...
LEMMA TypedRecover ==
  ASSUME Inv, RecoverStep
  PROVE  Typed'
<1>0. Typed /\ Used \in Nat
  BY UsedType DEF Inv
<1>1. CASE RollbackPages
  <2>1. jrnl.orig \in Files(Used)
    BY <1>0, <1>1 DEF RollbackPages, Typed, Journals
  <2>2. Overlay(file, Frames(jrnl), jrnl.orig) \in Files(Used) /\ sums' \in Files(Used)
    BY <1>0, <1>1, <2>1, FileOps DEF RollbackPages, WritePages, Typed
  <2>3. file' \in Files(Used) /\ disk' \in [Pgno -> SUBSET Known(Used)]
    BY <1>0, <1>1, <2>2, WriteTyped DEF RollbackPages, WritePages
  <2>4. QED
    BY <1>0, <1>1, <2>2, <2>3 DEF RollbackPages, Typed, Used
<1>2. CASE RollbackTruncate
  <2>1. jdisk' \subseteq Journals(Used)
    BY <1>0, <1>2, SettledTyped DEF RollbackTruncate
  <2>2. /\ file' \in Files(Used) /\ disk' \in [Pgno -> SUBSET Known(Used)]
        /\ sums' \in Files(Used) /\ pageN' \in 0..MaxPage
    <3>1. CASE IsValid(jrnl)
      <4>1. /\ Sync(Trim(file, jrnl.n)) /\ sums' = Resized(sums, jrnl.n, pageN)
            /\ pageN' = jrnl.n
        BY <1>2, <3>1 DEF RollbackTruncate
      <4>2. QED
        <5>1. jrnl.n \in Pgno
          BY <1>0, <3>1, ValidJournal
        <5>2. Trim(file, jrnl.n) \in Files(Used) /\ Resized(sums, jrnl.n, pageN) \in Files(Used)
          BY <1>0, FileOps DEF Typed
        <5>3. QED
          BY <1>0, <4>1, <5>1, <5>2, WriteTyped, PageFacts
    <3>2. CASE ~IsValid(jrnl)
      <4>1. Sync(file) /\ UNCHANGED <<sums, pageN>>
        BY <1>2, <3>2 DEF RollbackTruncate
      <4>2. QED
        BY <1>0, <4>1, WriteTyped DEF Typed
    <3>3. QED
      BY <3>1, <3>2
  <2>3. QED
    BY <1>0, <1>2, <2>1, <2>2 DEF RollbackTruncate, Typed, Used
<1>3. CASE RollbackRemove
  <2>1. jrnl' \in Journals(Used) /\ jdisk' \subseteq Journals(Used)
    BY <1>0, <1>3 DEF RollbackRemove, WriteJournal, Typed, Journals
  <2>2. QED
    BY <1>0, <1>3, <2>1 DEF RollbackRemove, Recovered, Typed, Used, memory
<1>4. CASE RollbackNothing
  BY <1>0, <1>4 DEF RollbackNothing, Recovered, Typed, Used, memory, files
<1>5. CASE Open
  <2>1. pageN' \in 0..MaxPage
    BY <1>0, <1>5, SizeType DEF Open, Typed
  <2>2. QED
    BY <1>0, <1>5, <2>1 DEF Open, Typed, Used, files
<1>6. CASE InitDatabaseFile
  <2>1. pageN' \in 0..MaxPage /\ sums' \in Files(Used)
    BY <1>0, <1>6, SizeType, FileOps DEF InitDatabaseFile, Typed
  <2>2. QED
    BY <1>0, <1>6, <2>1 DEF InitDatabaseFile, Typed, Used, files
<1>7. QED
  BY <1>1, <1>2, <1>3, <1>4, <1>5, <1>6 DEF RecoverStep

\* The LTX file that a replica receives.
ReceivedFile(n, w, f) == [n |-> n, pages |-> w, data |-> f, post |-> f]

\* It is appended to those there are, with a new number on its pages.
LEMMA ReceivedTyped ==
  ASSUME Inv, NEW n \in Pgno, NEW w \in SUBSET Pgno, ReceiveLTX(n, w)
  PROVE  /\ Used' = Used + 1 /\ left' \in [tx : 0..Budget.tx, demote : Nat, crash : Nat]
         /\ \E f \in Files(Used') :
              /\ f = Trim(Overlay(pos.sum, w, [q \in Pgno |-> [tx |-> Used', n |-> n]]), n)
              /\ ltx' = Append(ltx, ReceivedFile(n, w, f))
              /\ New' = ReceivedFile(n, w, f)
         /\ ltx' \in Seq(LTXs(Used')) /\ ltx' # <<>> /\ Len(ltx') = Len(ltx) + 1
         /\ \A k \in 1..Len(ltx) : ltx'[k] = ltx[k]
<1>0. Typed /\ Used \in Nat
  BY UsedType DEF Inv
<1>1. /\ left' \in [tx : 0..Budget.tx, demote : Nat, crash : Nat]
      /\ Used' = Used + 1 /\ Budget.tx - left.tx + 2 = Used'
  BY <1>0, Spent DEF ReceiveLTX
<1>2. PICK v : v = [q \in Pgno |-> [tx |-> Used', n |-> n]]
  OBVIOUS
<1>3. PICK f : f = Trim(Overlay(pos.sum, w, v), n)
  OBVIOUS
<1>4. Files(Used) \subseteq Files(Used') /\ Seq(LTXs(Used)) \subseteq Seq(LTXs(Used')) /\ Used' \in Nat
  BY <1>0, <1>1, KnownGrows
<1>5. f \in Files(Used')
  <2>1. v \in Files(Used')
    BY <1>0, <1>1, <1>2 DEF Files, Known
  <2>2. pos.sum \in Files(Used')
    BY <1>0, <1>4 DEF Typed
  <2>3. Overlay(pos.sum, w, v) \in Files(Used')
    BY <1>4, <2>1, <2>2, FileOps
  <2>4. QED
    BY <1>3, <1>4, <2>3, FileOps
<1>6. ReceivedFile(n, w, f) \in LTXs(Used')
  BY <1>5 DEF ReceivedFile, LTXs
<1>7. ltx' = Append(ltx, ReceivedFile(n, w, f))
  BY <1>1, <1>2, <1>3 DEF ReceiveLTX, ReceivedFile
<1>8. ltx \in Seq(LTXs(Used'))
  BY <1>0, <1>4 DEF Typed
<1>9. /\ ltx' \in Seq(LTXs(Used')) /\ ltx' # <<>> /\ Len(ltx') = Len(ltx) + 1
      /\ \A k \in 1..Len(ltx) : ltx'[k] = ltx[k]
      /\ New' = ReceivedFile(n, w, f)
  BY <1>6, <1>7, <1>8, AppendProperties, LenProperties DEF New
<1>10. QED
  BY <1>1, <1>2, <1>3, <1>5, <1>7, <1>9

\* ... and by all others.
LEMMA TypedReplica ==
  ASSUME Inv, ReplicaStep \/ Demote \/ Promote \/ PowerLoss
  PROVE  Typed'
<1>0. Typed /\ Used \in Nat
  BY UsedType DEF Inv
<1>1. ASSUME NEW n \in Pgno, NEW w \in SUBSET Pgno, ReceiveLTX(n, w) PROVE Typed'
  <2>1. /\ Used' = Used + 1 /\ left' \in [tx : 0..Budget.tx, demote : Nat, crash : Nat]
        /\ ltx' \in Seq(LTXs(Used')) /\ ltx' # <<>>
    BY <1>1, ReceivedTyped
  <2>2. /\ Known(Used) \subseteq Known(Used') /\ Files(Used) \subseteq Files(Used')
        /\ Journals(Used) \subseteq Journals(Used')
    BY <1>0, <2>1, KnownGrows
  <2>3. jrnl' \in Journals(Used') /\ jdisk' \subseteq Journals(Used')
    BY <1>0, <1>1, <2>2, SettledTyped DEF ReceiveLTX, Typed
  <2>4. /\ file' \in Files(Used') /\ disk' \in [Pgno -> SUBSET Known(Used')]
        /\ pos' \in [txid : Nat, sum : Files(Used')] /\ sums' \in Files(Used')
        /\ pageN' \in 0..MaxPage /\ dirty' \subseteq Pgno
    BY <1>0, <1>1, <2>2 DEF Typed, ReceiveLTX, memory
  <2>5. cl' \in [w : SUBSET Pgno, v : Known(Used')]
    BY <1>0, <1>1, <2>2 DEF Typed, ReceiveLTX
  <2>6. QED
    BY <1>0, <1>1, <2>1, <2>3, <2>4, <2>5 DEF Typed, ReceiveLTX
<1>2. CASE ApplyPages
  <2>1. Last(ltx).data \in Files(Used)
    BY <1>0, NewFacts
  <2>2. Overlay(file, Last(ltx).pages, Last(ltx).data) \in Files(Used) /\ sums' \in Files(Used)
    BY <1>0, <1>2, <2>1, FileOps DEF ApplyPages, WritePages, Typed
  <2>3. file' \in Files(Used) /\ disk' \in [Pgno -> SUBSET Known(Used)]
    BY <1>0, <1>2, <2>2, WriteTyped DEF ApplyPages, WritePages
  <2>4. QED
    BY <1>0, <1>2, <2>2, <2>3 DEF ApplyPages, Typed, Used
<1>3. CASE ApplyVerify
  <2>1. PICK l : /\ l = New /\ Sync(Trim(file, l.n))
                 /\ sums' = Resized(sums, l.n, pageN) /\ pageN' = l.n
                 /\ \/ pos' = [txid |-> Len(ltx), sum |-> l.post] /\ role' = "replica"
                    \/ role' = "failed" /\ UNCHANGED pos
    BY <1>0, <1>3, NewFacts DEF ApplyVerify
  <2>2. l.n \in Pgno /\ l.post \in Files(Used) /\ Len(ltx) \in Nat
    BY <1>0, <2>1, NewFacts
  <2>3. file' \in Files(Used) /\ disk' \in [Pgno -> SUBSET Known(Used)]
    BY <1>0, <2>1, FileOps, WriteTyped DEF Typed
  <2>4. sums' \in Files(Used) /\ pageN' \in 0..MaxPage
    <3>1. Resized(sums, l.n, pageN) \in Files(Used)
      BY <1>0, FileOps DEF Typed
    <3>2. QED
      BY <2>1, <2>2, <3>1, PageFacts
  <2>5. pos' \in [txid : Nat, sum : Files(Used)] /\ role' \in {"replica", "failed"}
    BY <1>0, <2>1, <2>2 DEF Typed
  <2>6. jdisk' \subseteq Journals(Used)
    BY <1>0, <1>3, SettledTyped DEF ApplyVerify
  <2>7. QED
    BY <1>0, <1>3, <2>3, <2>4, <2>5, <2>6 DEF ApplyVerify, Typed, Used
<1>4. CASE Demote
  <2>1. left' = [left EXCEPT !.demote = left.demote - 1] /\ left.demote > 0
    BY <1>0, <1>4 DEF Demote, Spend, Typed
  <2>2. left' \in [tx : 0..Budget.tx, demote : Nat, crash : Nat] /\ left'.tx = left.tx
    BY <1>0, <2>1 DEF Typed
  <2>3. QED
    BY <1>0, <1>4, <2>2 DEF Demote, Typed, Used, files, memory
<1>5. CASE Promote
  BY <1>0, <1>5 DEF Promote, Typed, Used, files, memory
<1>6. CASE PowerLoss
  <2>1. left' = [left EXCEPT !.crash = left.crash - 1] /\ left.crash > 0
    BY <1>0, <1>6 DEF PowerLoss, Spend, Typed
  <2>2. left' \in [tx : 0..Budget.tx, demote : Nat, crash : Nat] /\ left'.tx = left.tx
    BY <1>0, <2>1 DEF Typed
  <2>3. PICK f \in [Pgno -> UNION {disk[p] : p \in Pgno}] :
          (\A p \in Pgno : f[p] \in disk[p]) /\ Sync(f)
    BY <1>6 DEF PowerLoss
  <2>4. f \in Files(Used)
    BY <1>0, <2>3 DEF Typed, Files
  <2>5. file' \in Files(Used) /\ disk' \in [Pgno -> SUBSET Known(Used)]
    BY <1>0, <2>3, <2>4, WriteTyped
  <2>6. jrnl' \in Journals(Used) /\ jdisk' \subseteq Journals(Used)
    BY <1>0, <1>6 DEF PowerLoss, Typed
  <2>7. /\ pos' \in [txid : Nat, sum : Files(Used)] /\ pageN' \in 0..MaxPage
        /\ dirty' \subseteq Pgno /\ sums' \in Files(Used)
        /\ cl' \in [w : SUBSET Pgno, v : Known(Used)]
    <3>1. [p \in Pgno |-> Absent] \in Files(Used) /\ Absent \in Known(Used)
      BY PageFacts DEF Files
    <3>2. NoPos \in [txid : Nat, sum : Files(Used)] /\ NoPos.sum \in Files(Used)
      BY <3>1 DEF NoPos
    <3>3. NoTx \in [w : SUBSET Pgno, v : Known(Used)]
      BY <3>1 DEF NoTx
    <3>4. QED
      BY <1>6, <3>2, <3>3, PageFacts DEF PowerLoss
  <2>8. QED
    BY <1>0, <1>6, <2>2, <2>5, <2>6, <2>7 DEF PowerLoss, Typed, Used
<1>7. QED
  BY <1>1, <1>2, <1>3, <1>4, <1>5, <1>6 DEF ReplicaStep

-----------------------------------------------------------------------------
(* What each step keeps of the rest. *)

Rest == Chained /\ Roles /\ Position /\ JournalUndoes /\ Transaction /\ Memory /\ Applying

\* Where no LTX file is added.
LEMMA ChainedSame ==
  ASSUME Inv, UNCHANGED ltx
  PROVE  Chained' /\ New' = New
BY DEF Inv, Chained, LTXChain, New

\* The steps that only move the lock.
LEMMA RestClientEnds ==
  ASSUME Inv, ClientEnds
  PROVE  Rest'
<1>1. /\ UNCHANGED <<file, jrnl, ltx, pos, pageN, dirty, sums, role>>
      /\ pc' = "idle" /\ pc \in {"tx", "undone", "done"}
  BY DEF ClientEnds, files, memory
<1>2. Chained' /\ New' = New
  BY <1>1, ChainedSame
<1>3. Roles'
  BY <1>1 DEF Inv, Roles, IsValid
<1>4. Position'
  BY <1>1, <1>2 DEF Inv, Position, Running
<1>5. JournalUndoes'
  BY <1>1 DEF Inv, Roles, JournalUndoes, Running, IsValid, Same, Logged
<1>6. Memory'
  BY <1>1 DEF Inv, JournalUndoes, Memory, Running, Same
<1>7. Transaction' /\ Applying'
  BY <1>1 DEF Transaction, Applying
<1>8. QED
  BY <1>2, <1>3, <1>4, <1>5, <1>6, <1>7 DEF Rest

\* The lease is lost or acquired.
LEMMA RestRole ==
  ASSUME Inv, Demote \/ Promote
  PROVE  Rest'
<1>1. /\ UNCHANGED <<file, jrnl, ltx, pos, pageN, dirty, sums, pc, cl>>
      /\ \/ role = "primary" /\ role' = "leaving"
         \/ role = "replica" /\ pc = "idle" /\ role' = "primary"
  BY DEF Demote, Promote, files, memory
<1>2. Chained' /\ New' = New
  BY <1>1, ChainedSame
<1>3. Roles'
  BY <1>1 DEF Inv, Roles, IsValid
<1>4. Position'
  BY <1>1, <1>2 DEF Inv, Position, Running, Based
<1>5. JournalUndoes'
  BY <1>1 DEF Inv, JournalUndoes, Running, IsValid
<1>6. Memory'
  BY <1>1, <1>2 DEF Inv, Memory, Running
<1>7. Transaction' /\ Applying'
  BY <1>1, <1>2 DEF Inv, Transaction, Applying
<1>8. QED
  BY <1>2, <1>3, <1>4, <1>5, <1>6, <1>7 DEF Rest

\* A journal is begun: it holds the file, which has the database at the position.
LEMMA RestCreateJournal ==
  ASSUME Inv, NEW n \in Pgno, NEW w \in SUBSET Pgno, CreateJournal(n, w)
  PROVE  Rest'
<1>1. /\ UNCHANGED <<file, ltx, pos, pageN, dirty, sums, role>>
      /\ pc = "idle" /\ pc' = "tx" /\ role = "primary" /\ jrnl.hdr # "magic"
  BY DEF CreateJournal, memory
<1>2. Chained' /\ New' = New
  BY <1>1, ChainedSame
<1>3. Same(file, pos.sum, 1..pageN) /\ Size(file) = pageN /\ pageN \in Pgno
  BY <1>1, FileSize DEF Running
<1>4. /\ jrnl'.hdr = "plain" /\ jrnl'.n = pageN /\ jrnl'.orig = file
      /\ jrnl'.pages = {} /\ jrnl'.tail = {}
  BY <1>3 DEF CreateJournal, WriteJournal
<1>5. Roles'
  BY <1>1, <1>4 DEF Roles, IsValid
<1>6. Position'
  BY <1>1, <1>2 DEF Inv, Position, Running
<1>7. JournalUndoes'
  BY <1>1, <1>3, <1>4 DEF JournalUndoes, Running, Same
<1>8. Memory'
  BY <1>1 DEF Inv, Memory, Running
<1>9. Applying'
  BY <1>1 DEF Applying
<1>10. Transaction'
  <2>1. Used' = Used + 1 /\ Budget.tx - left.tx + 2 = Used' /\ Used \in Nat
    BY Spent, UsedType DEF CreateJournal, Inv
  <2>2. cl' = [w |-> w, v |-> [tx |-> Used', n |-> n]]
    BY <2>1 DEF CreateJournal
  <2>3. 1 \in w /\ w \subseteq 1..n /\ pageN + 1..n \subseteq w
    BY <1>3 DEF CreateJournal
  <2>4. cl'.w = w /\ cl'.v.n = n /\ cl'.v.tx = Used'
    BY <2>2
  <2>5. cl'.v # Absent
    BY <2>1, <2>4, PageFacts
  <2>6. ASSUME NEW p \in Pgno PROVE file'[p] # cl'.v
    <3>1. file[p] \in Known(Used)
      BY DEF Inv, Typed, Files
    <3>2. file[p].tx \in 0..Used
      BY <2>1, <3>1, PageFacts DEF Known
    <3>3. QED
      BY <1>1, <2>1, <2>4, <3>2
  <2>7. \A p \in 1..pageN : file[p] # Absent
    <3>1. Whole(pos.sum, pageN)
      BY <1>1 DEF Inv, Position, Running
    <3>2. QED
      BY <1>3, <3>1, PageFacts DEF Same, Whole, Pgno
  <2>8. QED
    BY <1>1, <2>3, <2>4, <2>5, <2>6, <2>7 DEF Transaction
<1>11. QED
  BY <1>2, <1>5, <1>6, <1>7, <1>8, <1>9, <1>10 DEF Rest

\* A page is journaled, or the journal synced.
LEMMA RestWriteJournal ==
  ASSUME Inv, SyncJournal \/ \E p \in Pgno : WriteJournalAt(p)
  PROVE  Rest'
<1>1. /\ UNCHANGED <<file, ltx, pos, pageN, dirty, sums, role, pc, cl>>
      /\ pc = "tx" /\ role = "primary"
  BY DEF WriteJournalAt, SyncJournal, memory
<1>2. Chained' /\ New' = New
  BY <1>1, ChainedSame
<1>3. /\ IsValid(jrnl) /\ jrnl.n = pageN /\ Same(jrnl.orig, pos.sum, 1..pageN)
      /\ jrnl.pages \cup jrnl.tail \subseteq 1..pageN
      /\ Same(file, pos.sum, 1..pageN \ Logged(jrnl))
  BY <1>1 DEF Inv, Roles, JournalUndoes, Running
<1> DEFINE Grown == /\ IsValid(jrnl)' /\ jrnl'.n = jrnl.n /\ jrnl'.orig = jrnl.orig
                    /\ jrnl'.pages \cup jrnl'.tail \subseteq 1..pageN
                    /\ Logged(jrnl) \subseteq Logged(jrnl')
<1>4. Grown
  <2>1. ASSUME NEW p \in Pgno, WriteJournalAt(p) PROVE Grown
    <3> DEFINE j == [jrnl EXCEPT !.tail = @ \cup {p}]
    <3>1. /\ j.hdr = jrnl.hdr /\ j.n = jrnl.n /\ j.orig = jrnl.orig /\ j.pages = jrnl.pages
          /\ j.tail = jrnl.tail \cup {p}
      BY <1>3, ValidJournal DEF Inv
    <3>2. jrnl' = j /\ p <= jrnl.n
      BY <2>1 DEF WriteJournalAt, WriteJournal
    <3> HIDE DEF j
    <3>3. QED
      BY <1>3, <3>1, <3>2 DEF IsValid, Logged, Pgno
  <2>2. CASE SyncJournal
    <3> DEFINE j == [jrnl EXCEPT !.hdr = "magic", !.pages = @ \cup jrnl.tail, !.tail = {}]
    <3>1. /\ j.hdr = "magic" /\ j.n = jrnl.n /\ j.orig = jrnl.orig
          /\ j.pages = jrnl.pages \cup jrnl.tail /\ j.tail = {}
      BY <1>3, ValidJournal DEF Inv
    <3>2. jrnl' = j
      BY <2>2 DEF SyncJournal, SyncedJournal
    <3> HIDE DEF j
    <3>3. QED
      BY <1>3, <3>1, <3>2 DEF IsValid, Logged
  <2>3. QED
    BY <2>1, <2>2
<1>5. Roles'
  BY <1>1, <1>4 DEF Inv, Roles
<1>6. Position'
  BY <1>1, <1>2 DEF Inv, Position, Running
<1>7. JournalUndoes'
  BY <1>1, <1>3, <1>4 DEF JournalUndoes, Running, Same
<1>8. Memory'
  BY <1>1 DEF Inv, Memory, Running
<1>9. Transaction' /\ Applying'
  BY <1>1 DEF Inv, Transaction, Applying
<1>10. QED
  BY <1>2, <1>5, <1>6, <1>7, <1>8, <1>9 DEF Rest

\* A page is written: it is in the journal, unless it is past the end.
LEMMA RestWriteDatabase ==
  ASSUME Inv, NEW p \in Pgno, WriteDatabaseAt(p)
  PROVE  Rest'
<1>1. /\ UNCHANGED <<jrnl, ltx, pos, pageN, role, pc, cl>>
      /\ pc = "tx" /\ role = "primary" /\ jrnl.hdr = "magic"
      /\ p \in cl.w /\ dirty' = dirty \cup {p}
  BY DEF WriteDatabaseAt
<1>2. Chained' /\ New' = New
  BY <1>1, ChainedSame
<1>3. \A q \in Pgno : /\ file'[q] = IF q = p THEN cl.v ELSE file[q]
                      /\ sums'[q] = IF q = p THEN cl.v ELSE sums[q]
  BY DEF WriteDatabaseAt, WritePages, Write, Overlay
<1>4. p \in 1..pageN => p \in Logged(jrnl)
  BY <1>1 DEF WriteDatabaseAt, Inv, Roles, JournalUndoes, Running, Logged, Pgno
<1>5. pageN \in Pgno /\ 1..pageN \subseteq Pgno
  BY <1>1, FileSize, PageFacts DEF Running, Pgno
<1>6. Roles'
  BY <1>1 DEF Inv, Roles, IsValid
<1>7. Position'
  BY <1>1, <1>2 DEF Inv, Position, Running
<1>8. JournalUndoes'
  <2>1. Same(file', pos.sum, 1..pageN \ Logged(jrnl))
    BY <1>1, <1>3, <1>4, <1>5 DEF Inv, JournalUndoes, Running, Same
  <2>2. QED
    BY <1>1, <2>1 DEF Inv, JournalUndoes, Running, IsValid
<1>9. Memory'
  <2>1. Same(sums', file', 1..pageN)
    BY <1>1, <1>3, <1>5 DEF Inv, Memory, Running, Same
  <2>2. Same(file', pos.sum, 1..pageN \ dirty')
    BY <1>1, <1>3, <1>5 DEF Inv, Memory, Running, Same
  <2>3. QED
    BY <1>1, <2>1, <2>2 DEF Memory
<1>10. Transaction'
  BY <1>1, <1>3, <1>5 DEF Inv, Transaction
<1>11. Applying'
  BY <1>1 DEF Applying
<1>12. QED
  BY <1>2, <1>6, <1>7, <1>8, <1>9, <1>10, <1>11 DEF Rest

\* A rollback of the client restores the database at the position.
LEMMA RestClientRollback ==
  ASSUME Inv, ClientRollback
  PROVE  Rest'
<1>1. /\ UNCHANGED <<jrnl, ltx, pos, pageN, role>>
      /\ pc \in {"tx", "idle"} /\ role = "primary" /\ jrnl.hdr = "magic" /\ pc' = "undone"
  BY DEF ClientRollback
<1>2. Chained' /\ New' = New
  BY <1>1, ChainedSame
<1>3. PICK played : /\ Sync(Overlay(Trim(file, pageN), played, jrnl.orig))
                    /\ sums' = Overlay(sums, played, jrnl.orig)
                    /\ jrnl.pages \subseteq played /\ played \subseteq jrnl.pages \cup jrnl.tail
  BY DEF ClientRollback
<1>4. /\ IsValid(jrnl) /\ jrnl.n = pageN /\ Same(jrnl.orig, pos.sum, 1..pageN)
      /\ jrnl.pages \cup jrnl.tail \subseteq 1..pageN
      /\ Same(file, pos.sum, 1..pageN \ jrnl.pages)
  BY <1>1 DEF Inv, JournalUndoes, Running, IsValid, Logged
<1>5. pageN \in Pgno /\ 1..pageN \subseteq Pgno
  BY <1>1, FileSize, PageFacts DEF Running, Pgno
<1>6. \A q \in 1..pageN : /\ file'[q] = IF q \in played THEN jrnl.orig[q] ELSE file[q]
                          /\ sums'[q] = IF q \in played THEN jrnl.orig[q] ELSE sums[q]
  BY <1>3, <1>5 DEF Sync, Overlay, Trim
<1>7. Same(file', pos.sum, 1..pageN)
  BY <1>3, <1>4, <1>6 DEF Same
<1>8. Same(sums', file', 1..pageN)
  BY <1>1, <1>6 DEF Inv, Memory, Running, Same
<1>9. Roles'
  BY <1>1 DEF Roles, IsValid
<1>10. Position'
  BY <1>1, <1>2 DEF Inv, Position, Running
<1>11. JournalUndoes'
  BY <1>1, <1>4, <1>7 DEF JournalUndoes
<1>12. Memory'
  BY <1>1, <1>7, <1>8 DEF Memory, Same
<1>13. Transaction' /\ Applying'
  BY <1>1 DEF Transaction, Applying
<1>14. QED
  BY <1>2, <1>9, <1>10, <1>11, <1>12, <1>13 DEF Rest

\* The file is cut to the size of the committed database.
LEMMA RestTruncate ==
  ASSUME Inv, TruncateDatabase
  PROVE  Rest'
<1>1. /\ UNCHANGED <<jrnl, ltx, pos, pageN, dirty, sums, role>>
      /\ pc = "done" /\ pc' = "idle" /\ Sync(Trim(file, pageN))
  BY DEF TruncateDatabase, memory
<1>2. Chained' /\ New' = New
  BY <1>1, ChainedSame
<1>3. Running /\ ~IsValid(jrnl)
  BY <1>1 DEF Inv, Typed, Roles, Running
<1>4. pageN \in Pgno /\ 1..pageN \subseteq Pgno
  BY <1>3, FileSize, PageFacts DEF Pgno
<1>5. Same(file', file, 1..pageN)
  BY <1>1, <1>4 DEF Sync, Trim, Same
<1>6. Same(file', pos.sum, 1..pageN)
  BY <1>1, <1>3, <1>5 DEF Inv, JournalUndoes, Same
<1>7. Same(sums, file', 1..pageN)
  BY <1>1, <1>3, <1>5 DEF Inv, Memory, Same
<1>8. Roles'
  BY <1>1 DEF Inv, Roles, IsValid
<1>9. Position'
  BY <1>1, <1>2 DEF Inv, Position, Running
<1>10. JournalUndoes'
  BY <1>1, <1>3, <1>6 DEF JournalUndoes, Same, IsValid
<1>11. Memory'
  BY <1>1, <1>6, <1>7 DEF Memory, Same
<1>12. Transaction' /\ Applying'
  BY <1>1 DEF Transaction, Applying
<1>13. QED
  BY <1>2, <1>8, <1>9, <1>10, <1>11, <1>12 DEF Rest

\* A journal without the magic is discarded: no page has been written.
LEMMA RestDiscard ==
  ASSUME Inv, DiscardJournal
  PROVE  Rest'
<1>1. /\ UNCHANGED <<file, ltx, pos, pageN, sums, role>>
      /\ pc = "tx" /\ pc' = "idle" /\ role = "primary" /\ jrnl.hdr = "plain" /\ InvalidateJournal
  BY DEF DiscardJournal
<1>2. Chained' /\ New' = New
  BY <1>1, ChainedSame
<1>3. ~IsValid(jrnl)' /\ Logged(jrnl') = {}
  BY <1>1, InvalidateTyped DEF Inv, IsValid
<1>4. Same(file, pos.sum, 1..pageN)
  BY <1>1, FileSize DEF Running
<1>5. Roles'
  BY <1>1 DEF Roles
<1>6. Position'
  BY <1>1, <1>2 DEF Inv, Position, Running
<1>7. JournalUndoes'
  BY <1>1, <1>3, <1>4 DEF JournalUndoes, Same
<1>8. Memory'
  BY <1>1, <1>4 DEF Inv, Memory, Running, Same
<1>9. Transaction' /\ Applying'
  BY <1>1 DEF Transaction, Applying
<1>10. QED
  BY <1>2, <1>5, <1>6, <1>7, <1>8, <1>9 DEF Rest

\* What CommitJournal finds: the checksums are those of the pages, and every page
\* that differs from the position is dirty.
LEMMA CommitFinds ==
  ASSUME Inv, role = "primary",
         pc = "undone" \/ (pc = "tx" /\ \A p \in cl.w : file[p] = cl.v)
  PROVE  /\ Size(file) \in Pgno
         /\ Same(sums, file, 1..Size(file))
         /\ Same(file, pos.sum, 1..Size(file) \ dirty)
         /\ \A p \in 1..Size(file) : file[p] # Absent
         /\ 1..Size(file) \ dirty \subseteq 1..pageN
<1>0. Running /\ pageN \in Pgno /\ Whole(pos.sum, pageN) /\ 1..pageN \subseteq Pgno
  BY FileSize, PageFacts DEF Running, Inv, Position, Pgno
<1>1. CASE pc = "undone"
  <2>1. Size(file) = pageN /\ Same(file, pos.sum, 1..pageN)
    BY <1>0, <1>1, FileSize DEF Inv, JournalUndoes
  <2>2. Same(sums, file, 1..pageN)
    BY <1>0, <1>1 DEF Inv, Memory
  <2>3. QED
    BY <1>0, <2>1, <2>2 DEF Same, Whole, Pgno
<1>2. CASE pc = "tx" /\ \A p \in cl.w : file[p] = cl.v
  <2>1. Size(file) = cl.v.n /\ cl.v.n \in Pgno
    BY <1>0, <1>2, FileSize
  <2>2. /\ pageN + 1..cl.v.n \subseteq cl.w /\ cl.v # Absent
        /\ \A p \in Pgno : file[p] = cl.v => p \in dirty /\ sums[p] = cl.v
    BY <1>2 DEF Inv, Transaction
  <2>3. Same(sums, file, 1..pageN) /\ Same(file, pos.sum, 1..pageN \ dirty)
    BY <1>0, <1>2 DEF Inv, Memory
  <2>4. ASSUME NEW p \in 1..cl.v.n
        PROVE  /\ sums[p] = file[p] /\ file[p] # Absent
               /\ p \notin dirty => file[p] = pos.sum[p] /\ p \in 1..pageN
    <3>1. p \in Pgno
      BY <2>1, PageFacts DEF Pgno
    <3>2. CASE p \in cl.w
      BY <1>2, <2>2, <3>1, <3>2
    <3>3. CASE p \notin cl.w
      <4>1. p \in 1..pageN
        BY <1>0, <2>1, <2>2, <3>3, PageFacts
      <4>2. file[p] # Absent
        BY <1>2, <4>1 DEF Inv, Transaction
      <4>3. QED
        BY <2>3, <4>1, <4>2 DEF Same
    <3>4. QED
      BY <3>2, <3>3
  <2>5. QED
    BY <2>1, <2>4 DEF Same
<1>3. QED
  BY <1>1, <1>2

\* The LTX file of a commit takes the database at the position to the new one.
LEMMA CommitChains ==
  ASSUME Inv, CommitLTX
  PROVE  /\ CommitFile.post = Content(file)
         /\ CommitFile.post = ApplyTo(pos.sum, CommitFile)
         /\ Whole(CommitFile.post, CommitFile.n)
         /\ Same(file, CommitFile.post, 1..CommitFile.n)
<1>1. PICK n : n = Size(file)
  OBVIOUS
<1>2. /\ n \in Pgno /\ Same(sums, file, 1..n) /\ Same(file, pos.sum, 1..n \ dirty)
      /\ \A p \in 1..n : file[p] # Absent
  BY <1>1, CommitFinds DEF CommitLTX
<1>3. PICK g : g = Trim(sums, n)
  OBVIOUS
<1>4. /\ CommitFile.n = n /\ CommitFile.pages = TxPages(n) /\ CommitFile.data = file
      /\ CommitFile.post = g
  BY <1>1, <1>3 DEF CommitFile
<1>5. \A p \in Pgno : p <= n <=> p \in 1..n
  BY <1>2, PageFacts DEF Pgno
<1>6. \A p \in Pgno : g[p] = IF p <= n THEN file[p] ELSE Absent
  BY <1>2, <1>3, <1>5 DEF Trim, Same
<1>7. g = Content(file)
  BY <1>1, <1>2, <1>3, <1>5 DEF Trim, Same, Content
<1>8. g = ApplyTo(pos.sum, CommitFile)
  <2>1. \A p \in Pgno : p <= n /\ p \notin TxPages(n) => pos.sum[p] = file[p]
    BY <1>2, <1>5 DEF TxPages, Same
  <2>2. ASSUME NEW p \in Pgno
        PROVE  (IF p <= n THEN sums[p] ELSE Absent)
                 = IF p <= n THEN (IF p \in TxPages(n) THEN file[p] ELSE pos.sum[p]) ELSE Absent
    BY <1>2, <1>5, <2>1 DEF Same
  <2>3. ApplyTo(pos.sum, CommitFile)
          = [p \in Pgno |-> IF p <= n THEN (IF p \in TxPages(n) THEN file[p] ELSE pos.sum[p])
                            ELSE Absent]
    BY <1>4 DEF ApplyTo, Trim, Overlay
  <2>4. QED
    BY <1>3, <2>2, <2>3 DEF Trim
<1>9. Whole(g, n)
  BY <1>1, <1>2, <1>5, <1>6, PageFacts DEF Whole, Size
<1>10. Same(file, g, 1..n)
  BY <1>2, <1>6, PageFacts DEF Same, Pgno
<1>11. QED
  BY <1>4, <1>7, <1>8, <1>9, <1>10

\* The pages that a commit leaves alone are those of the position.
LEMMA CommitBased ==
  ASSUME Inv, CommitLTX
  PROVE  /\ Same(CommitFile.post, pos.sum, 1..CommitFile.n \ CommitFile.pages)
         /\ 1..CommitFile.n \ CommitFile.pages \subseteq 1..pageN
<1>1. PICK n : n = Size(file)
  OBVIOUS
<1>2. /\ n \in Nat /\ Same(file, pos.sum, 1..n \ dirty) /\ 1..n \ dirty \subseteq 1..pageN
  BY <1>1, CommitFinds, PageFacts DEF CommitLTX
<1>3. CommitFile.n = n /\ CommitFile.pages = TxPages(n)
  BY <1>1 DEF CommitFile
<1>4. Same(file, CommitFile.post, 1..n)
  BY <1>3, CommitChains
<1>5. 1..n \ TxPages(n) \subseteq 1..n \ dirty
  BY <1>2 DEF TxPages
<1>6. QED
  BY <1>2, <1>3, <1>4, <1>5 DEF Same

\* A file appended to the LTX files keeps their chain.
LEMMA ChainedAppend ==
  ASSUME Inv, Len(ltx') = Len(ltx) + 1, \A k \in 1..Len(ltx) : ltx'[k] = ltx[k],
         New'.post = Content(New'.data), New'.post = ApplyTo(New.post, New'),
         New'.n = Size(New'.data), Whole(New'.post, New'.n)
  PROVE  Chained'
<1>1. Len(ltx) \in Nat /\ Len(ltx) >= 1
  BY NewFacts DEF Inv
<1>2. New' = ltx'[Len(ltx) + 1]
  BY DEF New
<1>3. ASSUME NEW k \in 1..Len(ltx) + 1
      PROVE  /\ ltx'[k].post = Content(ltx'[k].data)
             /\ k > 1 => ltx'[k].post = ApplyTo(ltx'[k - 1].post, ltx'[k])
             /\ ltx'[k].n = Size(ltx'[k].data) /\ Whole(ltx'[k].post, ltx'[k].n)
  <2>1. CASE k = Len(ltx) + 1
    <3>1. k - 1 = Len(ltx) /\ ltx'[k - 1] = New /\ ltx'[k] = New'
      BY <1>1, <1>2, <2>1 DEF New
    <3>2. QED
      BY <3>1
  <2>2. CASE k \in 1..Len(ltx)
    <3>1. ltx'[k] = ltx[k] /\ (k > 1 => ltx'[k - 1] = ltx[k - 1])
      BY <1>1, <2>2
    <3>2. QED
      BY <2>2, <3>1 DEF Inv, Chained, LTXChain
  <2>3. QED
    BY <1>1, <2>1, <2>2
<1>4. QED
  BY <1>3 DEF Chained, LTXChain

\* The LTX file is written before the journal is invalidated: the journal still
\* restores the position.
LEMMA RestCommitLTX ==
  ASSUME Inv, CommitLTX
  PROVE  Rest'
<1>1. /\ UNCHANGED <<file, jrnl, pos, pageN, dirty, role>>
      /\ pc \in {"tx", "undone"} /\ pc' = "ltx" /\ role = "primary" /\ jrnl.hdr = "magic"
      /\ sums' = Trim(sums, Size(file))
  BY DEF CommitLTX
<1>2. /\ New' = CommitFile /\ Len(ltx') = Len(ltx) + 1
      /\ \A k \in 1..Len(ltx) : ltx'[k] = ltx[k]
  BY CommitFileTyped
<1>3. /\ CommitFile.n = Size(file) /\ CommitFile.data = file
      /\ CommitFile.post = Trim(sums, Size(file))
  BY DEF CommitFile
<1>4. pos.sum = New.post
  BY <1>1 DEF Inv, Position, Running
<1>5. Chained'
  BY <1>2, <1>3, <1>4, CommitChains, ChainedAppend
<1>6. Roles'
  BY <1>1 DEF Roles
<1>7. Position'
  <2>1. Based'
    BY <1>1, <1>2, CommitBased DEF Based
  <2>2. QED
    BY <1>1, <2>1 DEF Inv, Position, Running
<1>8. JournalUndoes'
  BY <1>1 DEF Inv, JournalUndoes, Running, IsValid, Same
<1>9. Memory'
  BY <1>1, <1>2, <1>3, CommitChains DEF Memory, Same
<1>10. Transaction' /\ Applying'
  BY <1>1 DEF Transaction, Applying
<1>11. QED
  BY <1>5, <1>6, <1>7, <1>8, <1>9, <1>10 DEF Rest

\* The file is synced, then the journal invalidated.
LEMMA RestCommit ==
  ASSUME Inv, CommitSync \/ CommitInvalidate
  PROVE  Rest'
<1>1. /\ UNCHANGED <<file, ltx, pos, pageN, sums, role>>
      /\ \/ pc = "ltx" /\ pc' = "synced" /\ jrnl' = jrnl
         \/ pc = "synced" /\ pc' = "final" /\ InvalidateJournal
  BY DEF CommitSync, CommitInvalidate, Sync, memory
<1>2. Chained' /\ New' = New
  BY <1>1, ChainedSame
<1>3. pc = "synced" => ~IsValid(jrnl)'
  BY <1>1, InvalidateTyped DEF Inv, Roles, IsValid
<1>4. Roles'
  BY <1>1, <1>3 DEF Inv, Roles
<1>5. Position'
  BY <1>1, <1>2 DEF Inv, Position, Running, Based
<1>6. JournalUndoes'
  BY <1>1 DEF Inv, JournalUndoes, Running, IsValid
<1>7. Memory'
  BY <1>1, <1>2 DEF Inv, Memory, Running
<1>8. Transaction' /\ Applying'
  BY <1>1 DEF Transaction, Applying
<1>9. QED
  BY <1>2, <1>4, <1>5, <1>6, <1>7, <1>8 DEF Rest

\* The position becomes that of the committed file, which the database has.
LEMMA RestCommitPos ==
  ASSUME Inv, CommitPos
  PROVE  Rest'
<1>1. /\ UNCHANGED <<file, jrnl, ltx, dirty, sums, role>>
      /\ pc = "final" /\ pc' = "done"
      /\ pageN' = New.n /\ pos'.sum = New.post
  BY NewFacts DEF CommitPos, files, Inv
<1>2. Chained' /\ New' = New
  BY <1>1, ChainedSame
<1>3. Running /\ ~IsValid(jrnl) /\ Whole(New.post, New.n)
  BY <1>1, NewFacts DEF Inv, Typed, Roles, Running
<1>4. Same(file, New.post, 1..New.n) /\ Same(sums, New.post, 1..New.n)
  BY <1>1, <1>3 DEF Inv, Memory
<1>5. Roles'
  BY <1>1 DEF Inv, Roles, IsValid
<1>6. Position'
  BY <1>1, <1>2, <1>3 DEF Position
<1>7. JournalUndoes'
  BY <1>1, <1>4 DEF JournalUndoes, Same
<1>8. Memory'
  BY <1>1, <1>4 DEF Memory, Same
<1>9. Transaction' /\ Applying'
  BY <1>1 DEF Transaction, Applying
<1>10. QED
  BY <1>2, <1>5, <1>6, <1>7, <1>8, <1>9 DEF Rest

\* rollbackJournal restores the database at the position on a node that runs.
LEMMA RestRollbackPages ==
  ASSUME Inv, RollbackPages
  PROVE  Rest'
<1>1. /\ UNCHANGED <<jrnl, ltx, pos, pageN, dirty, role>>
      /\ pc = "idle" /\ pc' = "roll" /\ role \in {"leaving", "opening"}
      /\ WritePages(Frames(jrnl), jrnl.orig)
  BY DEF RollbackPages
<1>2. Chained' /\ New' = New
  BY <1>1, ChainedSame
<1>3. Roles'
  BY <1>1 DEF Roles
<1>4. Position'
  BY <1>1, <1>2 DEF Inv, Position, Running
<1>5. Transaction' /\ Applying'
  BY <1>1 DEF Transaction, Applying
<1>6. ASSUME Running
      PROVE  Same(file', pos.sum, 1..pageN) /\ Same(sums', file', 1..pageN)
  <2>1. pageN \in Pgno /\ 1..pageN \subseteq Pgno
    BY <1>6, FileSize, PageFacts DEF Pgno
  <2>2. \A q \in 1..pageN :
          /\ file'[q] = IF q \in Frames(jrnl) THEN jrnl.orig[q] ELSE file[q]
          /\ sums'[q] = IF q \in Frames(jrnl) THEN jrnl.orig[q] ELSE sums[q]
    BY <1>1, <2>1 DEF WritePages, Write, Overlay
  <2>3. \A q \in 1..pageN : q \in Frames(jrnl) => jrnl.orig[q] = pos.sum[q]
    BY <1>1, <1>6 DEF Inv, JournalUndoes, Frames, IsValid, Same
  <2>4. \A q \in 1..pageN : q \notin Frames(jrnl) => file[q] = pos.sum[q]
    BY <1>1, <1>6 DEF Inv, JournalUndoes, Frames, Logged, Same
  <2>5. Same(sums, file, 1..pageN)
    BY <1>1, <1>6 DEF Inv, Memory
  <2>6. QED
    BY <2>2, <2>3, <2>4, <2>5 DEF Same
<1>7. JournalUndoes'
  BY <1>1, <1>6 DEF Inv, JournalUndoes, Running, IsValid
<1>8. Memory'
  BY <1>1, <1>6 DEF Memory, Running
<1>9. QED
  BY <1>2, <1>3, <1>4, <1>5, <1>7, <1>8 DEF Rest

\* The size in the journal is that of the position on a node that runs.
LEMMA RestRollbackTruncate ==
  ASSUME Inv, RollbackTruncate
  PROVE  Rest'
<1>1. /\ UNCHANGED <<jrnl, ltx, pos, dirty, role>>
      /\ pc = "roll" /\ pc' = "rolled"
      /\ IF IsValid(jrnl)
         THEN /\ Sync(Trim(file, jrnl.n)) /\ sums' = Resized(sums, jrnl.n, pageN)
              /\ pageN' = jrnl.n
         ELSE Sync(file) /\ UNCHANGED <<sums, pageN>>
  BY DEF RollbackTruncate
<1>2. Chained' /\ New' = New
  BY <1>1, ChainedSame
<1>3. Roles'
  BY <1>1 DEF Inv, Roles
<1>4. Transaction' /\ Applying'
  BY <1>1 DEF Transaction, Applying
<1>5. ASSUME Running
      PROVE  pageN' = pageN /\ Same(file', file, 1..pageN) /\ Same(sums', sums, 1..pageN)
  <2>1. pageN \in Pgno /\ 1..pageN \subseteq Pgno
    BY <1>5, FileSize, PageFacts DEF Pgno
  <2>2. IsValid(jrnl) => jrnl.n = pageN
    BY <1>1, <1>5 DEF Inv, JournalUndoes
  <2>3. CASE IsValid(jrnl)
    <3>1. /\ pageN' = pageN /\ file' = Trim(file, pageN)
          /\ sums' = Resized(sums, pageN, pageN) /\ pageN \in Nat
      BY <1>1, <2>1, <2>2, <2>3, PageFacts DEF Sync
    <3>2. \A q \in 1..pageN : q <= pageN /\ q \notin pageN + 1..pageN
      BY <3>1
    <3>3. QED
      BY <2>1, <3>1, <3>2 DEF Trim, Resized, Same
  <2>4. CASE ~IsValid(jrnl)
    BY <1>1, <2>4 DEF Sync, Same
  <2>5. QED
    BY <2>3, <2>4
<1>6. Position'
  BY <1>1, <1>2, <1>5 DEF Inv, Position, Running
<1>7. JournalUndoes'
  BY <1>1, <1>5 DEF Inv, JournalUndoes, Running, IsValid, Same
<1>8. Memory'
  BY <1>1, <1>5 DEF Inv, Memory, Running, Same
<1>9. QED
  BY <1>2, <1>3, <1>4, <1>6, <1>7, <1>8 DEF Rest

\* The journal is removed, or there is none.
LEMMA RestRecovered ==
  ASSUME Inv, RollbackRemove \/ RollbackNothing
  PROVE  Rest'
<1>1. /\ UNCHANGED <<file, ltx, pos, pageN, dirty, sums>> /\ jrnl' = NoJournal
      /\ role' = IF role = "leaving" THEN "replica" ELSE role
      /\ pc' = IF role = "leaving" THEN "idle" ELSE "init"
      /\ pc = "rolled" \/ (pc = "idle" /\ jrnl = NoJournal)
      /\ role \in {"leaving", "opening"}
  BY DEF RollbackRemove, RollbackNothing, Recovered, WriteJournal, files, memory, Inv, Roles, Typed
<1>2. Chained' /\ New' = New
  BY <1>1, ChainedSame
<1>3. ~IsValid(NoJournal) /\ Logged(NoJournal) = {}
  BY DEF IsValid, NoJournal, Logged
<1>4. Roles'
  BY <1>1, <1>3 DEF Roles
<1>5. Position'
  BY <1>1, <1>2 DEF Inv, Position, Running
<1>6. role = "leaving" => Same(file, pos.sum, 1..pageN)
  BY <1>1, <1>3 DEF Inv, JournalUndoes, Running, Same
<1>7. JournalUndoes'
  BY <1>1, <1>3, <1>6 DEF JournalUndoes, Running, Same
<1>8. Memory'
  BY <1>1, <1>6 DEF Inv, Memory, Running, Same
<1>9. Transaction' /\ Applying'
  BY <1>1 DEF Transaction, Applying
<1>10. QED
  BY <1>2, <1>4, <1>5, <1>7, <1>8, <1>9 DEF Rest

\* A node that is not up keeps nothing but the LTX files.
LEMMA RestOpen ==
  ASSUME Inv, Open \/ InitDatabaseFile \/ PowerLoss
  PROVE  Rest'
<1>1. /\ ltx' = ltx /\ role' \in {"opening", "down"}
      /\ \/ pc' = "idle"
         \/ pc' = "apply" /\ role' = "opening" /\ jrnl' = NoJournal /\ jrnl = NoJournal
            /\ file' = file /\ sums' = Content(file)
  BY DEF Open, InitDatabaseFile, PowerLoss, Inv, Roles, Typed, files
<1>2. Chained' /\ New' = New
  BY <1>1, ChainedSame
<1>3. Roles'
  BY <1>1 DEF Roles
<1>4. Position' /\ JournalUndoes' /\ Memory'
  BY <1>1 DEF Position, JournalUndoes, Memory, Running
<1>5. Transaction'
  BY <1>1 DEF Transaction
<1>6. Applying'
  <2>1. \A p \in Pgno : Content(file)[p] \in {file[p], Absent}
    BY DEF Content, Trim
  <2>2. 1..New.n \subseteq Pgno
    BY NewFacts, PageFacts DEF Inv, Pgno
  <2>3. QED
    BY <1>1, <1>2, <2>1, <2>2 DEF Applying
<1>7. QED
  BY <1>2, <1>3, <1>4, <1>5, <1>6 DEF Rest

\* A received file takes the position to a database ...
LEMMA ReceivedChains ==
  ASSUME Inv, NEW n \in Pgno, NEW w \in SUBSET Pgno, ReceiveLTX(n, w)
  PROVE  /\ New'.n = n /\ New'.pages = w
         /\ New'.post = Content(New'.data) /\ New'.n = Size(New'.data)
         /\ New'.post = ApplyTo(pos.sum, New') /\ Whole(New'.post, n)
         /\ Same(New'.post, pos.sum, 1..n \ w) /\ 1..n \ w \subseteq 1..pageN
<1>1. Used' = Used + 1 /\ Used \in Nat
  BY ReceivedTyped, UsedType DEF Inv
<1>2. PICK v : v = [tx |-> Used', n |-> n]
  OBVIOUS
<1>3. PICK f : /\ f = Trim(Overlay(pos.sum, w, [q \in Pgno |-> v]), n)
               /\ New' = ReceivedFile(n, w, f)
  BY <1>2, ReceivedTyped
<1>4. New'.n = n /\ New'.pages = w /\ New'.data = f /\ New'.post = f
  BY <1>3 DEF ReceivedFile
<1>5. 1 \in w /\ w \subseteq 1..n /\ pageN + 1..n \subseteq w /\ role = "replica"
  BY DEF ReceiveLTX
<1>6. Whole(pos.sum, pageN) /\ pageN \in Pgno
  BY <1>5 DEF Inv, Position, Running, Whole
<1>7. v.n = n /\ v # Absent
  BY <1>1, <1>2, PageFacts
<1>8. \A p \in Pgno : f[p] = IF p <= n THEN (IF p \in w THEN v ELSE pos.sum[p]) ELSE Absent
  BY <1>3 DEF Trim, Overlay
<1>9. n \in Nat /\ pageN \in Nat /\ 1..n \subseteq Pgno /\ 1..n \ w \subseteq 1..pageN
  BY <1>5, <1>6, PageFacts DEF Pgno
<1>10. Size(f) = n
  BY <1>5, <1>7, <1>8, <1>9 DEF Size
<1>11. Same(f, pos.sum, 1..n \ w)
  BY <1>8, <1>9 DEF Same
<1>12. f = Trim(f, n)
  BY <1>3 DEF Trim
<1>13. Trim(Overlay(pos.sum, w, f), n) = f
  <2>1. \A p \in Pgno :
          (IF p <= n THEN (IF p \in w THEN f[p] ELSE pos.sum[p]) ELSE Absent)
            = IF p <= n THEN (IF p \in w THEN v ELSE pos.sum[p]) ELSE Absent
    BY <1>8
  <2>2. Trim(Overlay(pos.sum, w, f), n)
          = [p \in Pgno |-> IF p <= n THEN (IF p \in w THEN f[p] ELSE pos.sum[p]) ELSE Absent]
    BY DEF Trim, Overlay
  <2>3. f = [p \in Pgno |-> IF p <= n THEN (IF p \in w THEN v ELSE pos.sum[p]) ELSE Absent]
    BY <1>3 DEF Trim, Overlay
  <2>4. QED
    BY <2>1, <2>2, <2>3
<1>14. Whole(f, n)
  <2>1. f[1].n = n
    BY <1>10 DEF Size
  <2>2. ASSUME NEW p \in Pgno PROVE p <= n <=> f[p] # Absent
    <3>1. p \in Nat /\ p >= 1
      BY PageFacts DEF Pgno
    <3>2. CASE p <= n /\ p \notin w
      <4>1. p <= pageN
        BY <1>9, <3>1, <3>2
      <4>2. QED
        BY <1>6, <1>8, <3>2, <4>1 DEF Whole
    <3>3. CASE p > n \/ p \in w
      BY <1>5, <1>7, <1>8, <1>9, <3>1, <3>3
    <3>4. QED
      BY <1>9, <3>1, <3>2, <3>3
  <2>3. QED
    BY <2>1, <2>2 DEF Whole
<1>15. QED
  BY <1>4, <1>9, <1>10, <1>11, <1>12, <1>13, <1>14 DEF Content, ApplyTo

\* ... made from the database a replica has ...
LEMMA RestReceive ==
  ASSUME Inv, NEW n \in Pgno, NEW w \in SUBSET Pgno, ReceiveLTX(n, w)
  PROVE  Rest'
<1>1. /\ UNCHANGED <<file, jrnl, pos, pageN, dirty, sums, role>>
      /\ pc = "idle" /\ pc' = "apply" /\ role = "replica"
  BY DEF ReceiveLTX, memory
<1>2. Len(ltx') = Len(ltx) + 1 /\ \A k \in 1..Len(ltx) : ltx'[k] = ltx[k]
  BY ReceivedTyped
<1>3. pos.sum = New.post /\ jrnl = NoJournal /\ Logged(jrnl) = {}
  BY <1>1 DEF Inv, Position, Running, Roles, Logged, NoJournal
<1>4. Chained'
  BY <1>2, <1>3, ReceivedChains, ChainedAppend
<1>5. Roles'
  BY <1>1, <1>3 DEF Roles
<1>6. Position'
  BY <1>1, ReceivedChains DEF Inv, Position, Running, Based
<1>7. JournalUndoes'
  BY <1>1, <1>3 DEF Inv, JournalUndoes, Running, Same
<1>8. Memory'
  BY <1>1 DEF Inv, Memory, Running
<1>9. Transaction'
  BY <1>1 DEF Transaction
<1>10. Applying'
  <2>1. Same(sums, file, 1..pageN)
    BY <1>1 DEF Inv, Memory, Running
  <2>2. QED
    BY <1>1, <2>1, ReceivedChains DEF Applying, Same
<1>11. QED
  BY <1>4, <1>5, <1>6, <1>7, <1>8, <1>9, <1>10 DEF Rest

\* ... which ApplyLTXNoLock writes ...
LEMMA RestApplyPages ==
  ASSUME Inv, ApplyPages
  PROVE  Rest'
<1>1. /\ UNCHANGED <<jrnl, ltx, pos, pageN, dirty, role>>
      /\ pc = "apply" /\ pc' = "verify" /\ WritePages(New.pages, New.data)
  BY NewFacts DEF ApplyPages, Inv
<1>2. Chained' /\ New' = New
  BY <1>1, ChainedSame
<1>3. Roles'
  BY <1>1 DEF Inv, Roles
<1>4. Position'
  BY <1>1 DEF Inv, Position, Running
<1>5. JournalUndoes' /\ Memory' /\ Transaction'
  BY <1>1 DEF JournalUndoes, Memory, Transaction
<1>6. Applying'
  <2>1. 1..New.n \subseteq Pgno
    BY NewFacts, PageFacts DEF Inv, Pgno
  <2>2. \A p \in 1..New.n : /\ file'[p] = IF p \in New.pages THEN New.data[p] ELSE file[p]
                            /\ sums'[p] = IF p \in New.pages THEN New.data[p] ELSE sums[p]
    BY <1>1, <2>1 DEF WritePages, Write, Overlay
  <2>3. QED
    BY <1>1, <1>2, <2>2 DEF Inv, Applying
<1>7. QED
  BY <1>2, <1>3, <1>4, <1>5, <1>6 DEF Rest

\* ... and takes for applied only if the database is the one the file is of.
LEMMA RestApplyVerify ==
  ASSUME Inv, ApplyVerify
  PROVE  Rest'
<1>1. /\ UNCHANGED <<jrnl, ltx, dirty>> /\ pc = "verify" /\ pc' = "idle"
      /\ Sync(Trim(file, New.n)) /\ pageN' = New.n
      /\ sums' = Resized(sums, New.n, pageN)
      /\ \/ /\ Trim(sums', New.n) = New.post
            /\ pos' = [txid |-> Len(ltx), sum |-> New.post] /\ role' = "replica"
         \/ role' = "failed"
  BY NewFacts DEF ApplyVerify, Inv
<1>2. Chained' /\ New' = New
  BY <1>1, ChainedSame
<1>3. Roles'
  BY <1>1 DEF Inv, Roles, IsValid, NoJournal
<1>4. Transaction' /\ Applying'
  BY <1>1 DEF Transaction, Applying
<1>5. CASE role' = "failed"
  BY <1>2, <1>3, <1>4, <1>5 DEF Rest, Position, JournalUndoes, Memory, Running
<1>6. CASE Trim(sums', New.n) = New.post /\ role' = "replica" /\ pos'.sum = New.post
  <2>1. /\ New.n \in Pgno /\ New.n \in Nat /\ 1..New.n \subseteq Pgno
        /\ Whole(New.post, New.n) /\ pageN \in Nat
    BY NewFacts, PageFacts DEF Inv, Typed, Pgno
  <2>2. \A p \in 1..New.n : p <= New.n /\ p \notin New.n + 1..pageN
    BY <2>1
  <2>3. \A p \in 1..New.n : sums'[p] = sums[p] /\ New.post[p] = sums'[p] /\ file'[p] = file[p]
    BY <1>1, <1>6, <2>1, <2>2 DEF Sync, Trim, Resized
  <2>4. \A p \in 1..New.n : New.post[p] # Absent
    BY <2>1, <2>2 DEF Whole
  <2>5. \A p \in 1..New.n : sums[p] \in {file[p], Absent}
    BY <1>1 DEF Inv, Applying
  <2>6. Same(file', New.post, 1..New.n) /\ Same(sums', New.post, 1..New.n)
    BY <2>3, <2>4, <2>5 DEF Same
  <2>7. jrnl' = NoJournal /\ ~IsValid(NoJournal)
    BY <1>1 DEF Inv, Roles, IsValid, NoJournal
  <2>8. Position'
    BY <1>1, <1>2, <1>6, <2>1 DEF Position
  <2>9. JournalUndoes'
    BY <1>1, <1>6, <2>6, <2>7 DEF JournalUndoes, Same
  <2>10. Memory'
    BY <1>1, <1>6, <2>6 DEF Memory, Same
  <2>11. QED
    BY <1>2, <1>3, <1>4, <2>8, <2>9, <2>10 DEF Rest
<1>7. QED
  BY <1>1, <1>5, <1>6

-----------------------------------------------------------------------------
(* The invariant holds. *)

\* The first transaction is committed.
LEMMA InitInv == Init => Inv
<1>1. SUFFICES ASSUME Init PROVE Inv
  OBVIOUS
<1>2. PICK n \in Pgno :
        LET f == [p \in Pgno |-> IF p <= n THEN [tx |-> 1, n |-> n] ELSE Absent]
        IN  /\ file = f /\ disk = [p \in Pgno |-> {f[p]}]
            /\ jrnl = NoJournal /\ jdisk = {NoJournal}
            /\ ltx = <<[n |-> n, pages |-> 1 .. n, data |-> f, post |-> f]>>
            /\ pos = [txid |-> 1, sum |-> f] /\ pageN = n
            /\ dirty = {} /\ sums = f
            /\ role = "primary" /\ pc = "idle" /\ cl = NoTx /\ left = Budget
  BY <1>1 DEF Init
<1>3. \A p \in Pgno : file[p] = IF p <= n THEN [tx |-> 1, n |-> n] ELSE Absent
  BY <1>2
<1>4. /\ disk = [p \in Pgno |-> {file[p]}] /\ jrnl = NoJournal /\ jdisk = {NoJournal}
      /\ ltx = <<[n |-> n, pages |-> 1..n, data |-> file, post |-> file]>>
      /\ pos = [txid |-> 1, sum |-> file] /\ pageN = n /\ dirty = {} /\ sums = file
      /\ role = "primary" /\ pc = "idle" /\ cl = NoTx /\ left = Budget
  BY <1>2
<1>5. Used = 1 /\ left \in [tx : 0..Budget.tx, demote : Nat, crash : Nat]
  BY <1>4, BudgetAssumption DEF Used
<1>6. file \in Files(1) /\ Absent \in Known(1) /\ n \in Nat /\ n >= 1
  <2>1. [tx |-> 1, n |-> n] \in Known(1) /\ Absent \in Known(1)
    BY PageFacts DEF Known
  <2>2. QED
    BY <1>2, <2>1, PageFacts DEF Files, Pgno
<1>7. New = [n |-> n, pages |-> 1..n, data |-> file, post |-> file] /\ Len(ltx) = 1
  BY <1>4 DEF New
<1>8. Whole(file, n) /\ Size(file) = n
  <2>1. [tx |-> 1, n |-> n] # Absent /\ [tx |-> 1, n |-> n].n = n
    BY PageFacts
  <2>2. \A p \in Pgno : p <= n <=> file[p] # Absent
    BY <1>3, <2>1
  <2>3. file[1].n = n
    BY <1>3, <1>6, <2>1, PageFacts
  <2>4. QED
    BY <2>2, <2>3 DEF Whole, Size
<1>9. file = Content(file)
  BY <1>2, <1>8 DEF Content, Trim
<1>10. Typed
  <2>1. ltx \in Seq(LTXs(1)) /\ ltx # <<>>
    <3>1. [n |-> n, pages |-> 1..n, data |-> file, post |-> file] \in LTXs(1)
      BY <1>6, PageFacts DEF LTXs, Pgno
    <3>2. QED
      BY <1>4, <3>1
  <2>2. disk \in [Pgno -> SUBSET Known(1)]
    BY <1>4, <1>6 DEF Files
  <2>3. jrnl \in Journals(1) /\ jdisk \subseteq Journals(1)
    BY <1>4 DEF Journals
  <2>4. pos \in [txid : Nat, sum : Files(1)] /\ pageN \in 0..MaxPage /\ sums \in Files(1)
    BY <1>4, <1>6, PageFacts
  <2>5. cl \in [w : SUBSET Pgno, v : Known(1)]
    BY <1>4, <1>6 DEF NoTx
  <2>6. QED
    BY <1>4, <1>5, <1>6, <2>1, <2>2, <2>3, <2>4, <2>5 DEF Typed
<1>11. Chained
  BY <1>7, <1>8, <1>9 DEF Chained, LTXChain, New
<1>12. Roles
  BY <1>4 DEF Roles
<1>13. Position
  BY <1>4, <1>7, <1>8 DEF Position
<1>14. JournalUndoes /\ Memory
  BY <1>4 DEF JournalUndoes, Memory, IsValid, NoJournal, Same
<1>15. Transaction /\ Applying
  BY <1>4 DEF Transaction, Applying
<1>16. QED
  BY <1>10, <1>11, <1>12, <1>13, <1>14, <1>15 DEF Inv

\* Every step keeps the invariant.
LEMMA NextInv == Inv /\ [Next]_vars => Inv'
<1>1. SUFFICES ASSUME Inv, [Next]_vars PROVE Inv'
  OBVIOUS
<1>2. CASE ClientStep
  <2>1. Rest'
    BY <1>1, <1>2, RestCreateJournal, RestWriteJournal, RestWriteDatabase, RestClientRollback,
       RestClientEnds, RestTruncate, RestDiscard DEF ClientStep
  <2>2. QED
    BY <1>1, <1>2, <2>1, TypedClient DEF Inv, Rest
<1>3. CASE CommitStep
  <2>1. Rest'
    BY <1>1, <1>3, RestCommitLTX, RestCommit, RestCommitPos DEF CommitStep
  <2>2. QED
    BY <1>1, <1>3, <2>1, TypedCommit DEF Inv, Rest
<1>4. CASE RecoverStep
  <2>1. Rest'
    BY <1>1, <1>4, RestRollbackPages, RestRollbackTruncate, RestRecovered, RestOpen
       DEF RecoverStep
  <2>2. QED
    BY <1>1, <1>4, <2>1, TypedRecover DEF Inv, Rest
<1>5. CASE ReplicaStep \/ Demote \/ Promote \/ PowerLoss
  <2>1. Rest'
    BY <1>1, <1>5, RestReceive, RestApplyPages, RestApplyVerify, RestRole, RestOpen
       DEF ReplicaStep
  <2>2. QED
    BY <1>1, <1>5, <2>1, TypedReplica DEF Inv, Rest
<1>6. CASE UNCHANGED vars
  <2>1. /\ UNCHANGED <<file, disk, jrnl, jdisk, ltx, pos, pageN, dirty, sums, role, pc, cl, left>>
    BY <1>6 DEF vars, files, memory
  <2>2. Typed' /\ Roles' /\ Transaction'
    BY <1>1, <2>1 DEF Inv, Typed, Used, Roles, Transaction, IsValid
  <2>3. Chained' /\ New' = New
    BY <1>1, <2>1, ChainedSame
  <2>4. Position' /\ JournalUndoes' /\ Memory' /\ Applying'
    BY <1>1, <2>1, <2>3 DEF Inv, Position, Based, JournalUndoes, Memory, Applying, Running, IsValid
  <2>5. QED
    BY <2>2, <2>3, <2>4 DEF Inv
<1>7. QED
  BY <1>1, <1>2, <1>3, <1>4, <1>5, <1>6 DEF Next

\* The invariant holds in every state.
LEMMA InvHolds == Spec => []Inv
BY InitInv, NextInv, PTL DEF Spec

\* What a reader sees is the database at the position.
LEMMA InvReaders == Inv => ReadersSeePos
<1>1. SUFFICES ASSUME Inv, Running, pc \in {"idle", "tx", "undone", "ltx", "synced", "done"}
               PROVE  /\ Content(Overlay(file, Frames(jrnl), IF jrnl = NoJournal THEN file
                                                             ELSE jrnl.orig)) = pos.sum
                      /\ pageN = Size(pos.sum)
  BY DEF ReadersSeePos
<1>2. PICK g : g = Overlay(file, Frames(jrnl), IF jrnl = NoJournal THEN file ELSE jrnl.orig)
  OBVIOUS
<1>3. /\ Whole(pos.sum, pageN) /\ pageN \in Pgno /\ pageN \in Nat /\ 1..pageN \subseteq Pgno
      /\ pos.sum \in Files(Used)
  BY <1>1, FileSize, PageFacts DEF Inv, Position, Pgno, Typed
<1>4. ASSUME NEW p \in 1..pageN PROVE g[p] = pos.sum[p]
  <2>1. g[p] = IF p \in Frames(jrnl)
               THEN (IF jrnl = NoJournal THEN file ELSE jrnl.orig)[p] ELSE file[p]
    BY <1>2, <1>3, <1>4 DEF Overlay
  <2>2. CASE p \in Frames(jrnl)
    <3>1. IsValid(jrnl) /\ jrnl # NoJournal
      BY <2>2 DEF Frames, IsValid, NoJournal
    <3>2. Same(jrnl.orig, pos.sum, 1..pageN)
      BY <1>1, <3>1 DEF Inv, JournalUndoes, Roles
    <3>3. QED
      BY <1>4, <2>1, <2>2, <3>1, <3>2 DEF Same
  <2>3. CASE p \notin Frames(jrnl)
    <3>1. file[p] = pos.sum[p]
      BY <1>1, <1>4, <2>3 DEF Inv, JournalUndoes, Same, Frames, Logged
    <3>2. QED
      BY <2>1, <2>3, <3>1
  <2>4. QED
    BY <2>2, <2>3
<1>5. Size(g) = pageN
  BY <1>3, <1>4, SameSize DEF Same
<1>6. Content(g) = pos.sum
  <2>1. \A p \in Pgno : (IF p <= pageN THEN g[p] ELSE Absent) = pos.sum[p]
    BY <1>3, <1>4 DEF Whole, Pgno
  <2>2. pos.sum = [p \in Pgno |-> pos.sum[p]]
    BY <1>3 DEF Files
  <2>3. QED
    BY <1>5, <2>1, <2>2 DEF Content, Trim
<1>7. QED
  BY <1>2, <1>3, <1>6 DEF Whole, Size

\* CommitJournal finds no checksum that is missing or differs.
LEMMA InvCommit == Inv => CommitNeverRefused
<1>1. SUFFICES ASSUME Inv, role = "primary",
                      pc = "undone" \/ (pc = "tx" /\ \A p \in cl.w : file[p] = cl.v)
               PROVE  PagesVerified(Size(file))
  BY DEF CommitNeverRefused
<1>2. /\ Size(file) \in Nat /\ Same(sums, file, 1..Size(file))
      /\ \A p \in 1..Size(file) : file[p] # Absent
  BY <1>1, CommitFinds, PageFacts
<1>3. TxPages(Size(file)) \subseteq 1..Size(file)
  <2>1. dirty \subseteq Pgno /\ \A p \in Pgno : p \in Nat /\ p >= 1
    BY <1>1, PageFacts DEF Inv, Typed, Pgno
  <2>2. QED
    BY <1>2, <2>1 DEF TxPages
<1>4. QED
  BY <1>2, <1>3 DEF PagesVerified, Same

-----------------------------------------------------------------------------
(* Theorems, whatever the disk does with directories. *)

\* Every field of the DB, every file of the node and every state of them that a
\* loss of power may leave is of its type.
THEOREM JournalTypeCorrect == Spec => []TypeOK
BY InvHolds, TypedIs, PTL DEF Inv

\* Every LTX file that CommitJournal writes or a replica receives is exactly the
\* change from the file before it to the checksum it carries.
THEOREM JournalLTXChain == Spec => []LTXChain
<1>1. Inv => LTXChain
  BY DEF Inv, Chained
<1>2. QED
  BY <1>1, InvHolds, PTL

\* From the first write of a transaction to the end of CommitJournal, and after a
\* rollback, an abort or a client that died, a reader that rolls back the hot
\* journal sees the database at DB.pos.
THEOREM JournalReadersSeePos == Spec => []ReadersSeePos
BY InvHolds, InvReaders, PTL

\* CommitJournal never refuses a transaction for a checksum in memory that is
\* missing or is not that of its page.
THEOREM JournalCommitNeverRefused == Spec => []CommitNeverRefused
BY InvHolds, InvCommit, PTL

-----------------------------------------------------------------------------
(* What a loss of power may leave, if directory changes stay in order.     *)

\* Page p once journal j is played back on the disk d.
After(j, d, p) == IF p \in Frames(j) THEN {j.orig[p]} ELSE d[p]

\* From journal j and disk d, DB.Open comes to the database of LTX file l: what
\* l does not write is there once j is played back.
Leads(j, d, l) ==
  \A p \in 1..l.n \ l.pages :
    /\ \A v \in After(j, d, p) : v = l.post[p]
    /\ \A u \in After(j, d, 1) : p <= u.n
    /\ IsValid(j) => p <= j.n

OnDisk        == \A p \in Pgno : disk[p] = {file[p]}
SameFrames(j) == j.hdr = "magic" /\ j.pages = jrnl.pages /\ j.n = jrnl.n /\ j.orig = jrnl.orig

\* The files the process sees are among those that may be left.
Visible == jrnl \in jdisk /\ \A p \in Pgno : file[p] \in disk[p]

\* Pages that a journal does not hold are on the disk ...
Durable ==
  Running /\ pc \in {"idle", "tx", "undone", "ltx", "synced", "done", "apply"} =>
    \A p \in 1..pageN \ Logged(jrnl) : disk[p] = {file[p]}

\* ... and the journal is there before a page it holds is overwritten.
Journaled ==
  Running /\ pc \in {"idle", "tx", "undone", "ltx", "synced"} /\ jrnl.hdr = "magic" =>
    \A j \in jdisk : SameFrames(j)

Opening ==
  /\ pc \in {"synced", "final", "rolled", "init"} \/ role = "down"
       \/ (role = "opening" /\ pc = "idle") => OnDisk
  /\ ~Running /\ pc \in {"idle", "roll", "rolled"} => jdisk = {jrnl}
  /\ role = "opening" /\ pc = "roll" => \A p \in Pgno : file[p] \in After(jrnl, disk, p)
  /\ role = "opening" /\ pc = "rolled" => Leads(NoJournal, disk, New)

\* The checksums that an LTX file does not set are those it was made with.
Checked ==
  /\ pc = "apply" => Same(sums, New.post, 1..New.n \ New.pages)
  /\ pc = "verify" => Same(sums, New.post, 1..New.n)

AllLead == \A j \in jdisk : Leads(j, disk, New)

DiskInv ==
  /\ role # "failed" /\ Visible /\ AllLead
  /\ Durable /\ Journaled /\ Opening /\ Checked

\* A journal leads to l where it restores the database that l was made from.
LEMMA Restores ==
  ASSUME NEW j, NEW d, NEW l, NEW g, NEW n, Whole(g, n),
         \A p \in 1..l.n \ l.pages : p \in 1..n /\ l.post[p] = g[p],
         \A p \in 1..n : \A v \in After(j, d, p) : v = g[p],
         IsValid(j) => j.n = n
  PROVE  Leads(j, d, l)
<1>1. n \in Nat /\ 1 \in 1..n /\ g[1].n = n
  BY PageFacts DEF Whole, Pgno
<1>2. \A u \in After(j, d, 1) : u.n = n
  BY <1>1
<1>3. ASSUME NEW p \in 1..l.n \ l.pages
      PROVE  /\ \A v \in After(j, d, p) : v = l.post[p]
             /\ \A u \in After(j, d, 1) : p <= u.n
             /\ IsValid(j) => p <= j.n
  <2>1. p \in 1..n /\ l.post[p] = g[p] /\ p <= n
    BY <1>1
  <2>2. QED
    BY <1>2, <2>1
<1>4. QED
  BY <1>3 DEF Leads

\* A write of pages of the database of l, or a sync, keeps a journal leading to it.
LEMMA LeadsWrite ==
  ASSUME NEW j, NEW d, NEW e, NEW l, NEW f, Leads(j, d, l), l.n \in Pgno,
         \A p \in 1..l.n : e[p] \subseteq d[p] \cup {f[p]},
         \A p \in 1..l.n : f[p] \in d[p] \/ f[p] = l.post[p],
         Whole(l.post, l.n)
  PROVE  Leads(j, e, l)
<1>1. l.n \in Nat /\ 1 \in 1..l.n /\ l.post[1].n = l.n
  BY PageFacts DEF Whole, Pgno
<1>2. \A p \in 1..l.n : e[p] \subseteq d[p] \cup {l.post[p]}
  OBVIOUS
<1>3. \A p \in 1..l.n : After(j, e, p) \subseteq After(j, d, p) \cup {l.post[p]}
  BY <1>2 DEF After
<1>4. ASSUME NEW p \in 1..l.n \ l.pages
      PROVE  /\ \A v \in After(j, e, p) : v = l.post[p]
             /\ \A u \in After(j, e, 1) : p <= u.n
             /\ IsValid(j) => p <= j.n
  <2>1. /\ \A v \in After(j, d, p) : v = l.post[p]
        /\ \A u \in After(j, d, 1) : p <= u.n
        /\ IsValid(j) => p <= j.n
    BY DEF Leads
  <2>2. p <= l.n
    BY <1>1
  <2>3. QED
    BY <1>1, <1>3, <2>1, <2>2
<1>5. QED
  BY <1>4 DEF Leads

\* The newest LTX file was made from the position.
LEMMA NewBased ==
  Inv /\ Running /\ pc \notin {"final", "verify"} =>
    /\ Based /\ Whole(pos.sum, pageN) /\ pageN \in Pgno
    /\ pc \in {"idle", "tx", "undone", "done", "roll", "rolled"} =>
         pos.sum = New.post /\ New.n = pageN
<1>1. SUFFICES ASSUME Inv, Running, pc \notin {"final", "verify"}
               PROVE  /\ Based /\ Whole(pos.sum, pageN) /\ pageN \in Pgno
                      /\ pc \in {"idle", "tx", "undone", "done", "roll", "rolled"} =>
                           pos.sum = New.post /\ New.n = pageN
  OBVIOUS
<1>2. Whole(pos.sum, pageN) /\ pageN \in Pgno
  BY <1>1 DEF Inv, Position, Whole
<1>3. CASE pc \in {"ltx", "synced", "apply"}
  BY <1>1, <1>2, <1>3 DEF Inv, Position
<1>4. CASE pc \in {"idle", "tx", "undone", "done", "roll", "rolled"}
  <2>1. pos.sum = New.post
    BY <1>1, <1>4 DEF Inv, Position
  <2>2. New.n = pageN
    BY <1>1, <1>2, <2>1, NewFacts DEF Inv, Whole
  <2>3. QED
    BY <1>2, <2>1, <2>2 DEF Based, Same
<1>5. QED
  BY <1>1, <1>3, <1>4 DEF Inv, Typed, Roles, Running

\* A journal with the pages of the visible one leads to the newest LTX file.
LEMMA UndoLeads ==
  ASSUME Inv, Durable, Running, pc \in {"idle", "tx", "undone", "ltx", "synced", "done", "apply"},
         NEW j, j = jrnl \/ (jrnl.hdr = "magic" /\ SameFrames(j))
  PROVE  Leads(j, disk, New)
<1>1. Based /\ Whole(pos.sum, pageN)
  BY NewBased
<1>2. /\ Frames(j) = Frames(jrnl) /\ (Frames(j) # {} => j.orig = jrnl.orig)
      /\ (IsValid(j) => IsValid(jrnl) /\ j.n = jrnl.n)
  BY DEF SameFrames, Frames, IsValid
<1>3. IsValid(jrnl) => jrnl.n = pageN /\ Same(jrnl.orig, pos.sum, 1..pageN)
  BY DEF Inv, JournalUndoes, Roles, IsValid, NoJournal
<1>4. ASSUME NEW p \in 1..pageN, NEW v \in After(j, disk, p) PROVE v = pos.sum[p]
  <2>1. CASE p \in Frames(j)
    <3>1. IsValid(jrnl) /\ v = jrnl.orig[p]
      BY <1>2, <1>4, <2>1 DEF After, Frames, IsValid
    <3>2. QED
      BY <1>3, <3>1 DEF Same
  <2>2. CASE p \notin Frames(j)
    <3>1. p \notin Logged(jrnl)
      BY <1>2, <2>2 DEF Frames, Logged
    <3>2. v = file[p]
      BY <1>4, <2>2, <3>1 DEF After, Durable
    <3>3. file[p] = pos.sum[p]
      BY <3>1 DEF Inv, JournalUndoes, Same
    <3>4. QED
      BY <3>2, <3>3
  <2>3. QED
    BY <2>1, <2>2
<1>5. \A p \in 1..New.n \ New.pages : p \in 1..pageN /\ New.post[p] = pos.sum[p]
  BY <1>1 DEF Based, Same
<1>6. QED
  BY <1>1, <1>2, <1>3, <1>4, <1>5, Restores

\* The visible journal leads to it ...
LEMMA VisibleLeads ==
  Inv /\ Durable /\ Running /\ pc \in {"idle", "tx", "undone", "ltx", "synced", "done", "apply"}
    => Leads(jrnl, disk, New)
BY UndoLeads

\* ... and so does every journal that may be left while pages are overwritten.
LEMMA JournaledLead ==
  Inv /\ Durable /\ Journaled /\ Running /\ jrnl.hdr = "magic"
      /\ pc \in {"idle", "tx", "undone", "ltx", "synced"} => AllLead
<1>1. SUFFICES ASSUME Inv, Durable, Journaled, Running, jrnl.hdr = "magic",
                      pc \in {"idle", "tx", "undone", "ltx", "synced"}, NEW j \in jdisk
               PROVE  Leads(j, disk, New)
  BY DEF AllLead
<1>2. SameFrames(j)
  BY <1>1 DEF Journaled
<1>3. QED
  BY <1>1, <1>2, UndoLeads

\* The same after a step, of the visible journal ...
LEMMA VisibleLeadsNext ==
  (Inv /\ Durable /\ Running /\ pc \in {"idle", "tx", "undone", "ltx", "synced", "done", "apply"}
    => Leads(jrnl, disk, New))'
BY VisibleLeads, PTL

\* ... and of all journals ...
LEMMA JournaledLeadNext ==
  (Inv /\ Durable /\ Journaled /\ Running /\ jrnl.hdr = "magic"
      /\ pc \in {"idle", "tx", "undone", "ltx", "synced"} => AllLead)'
BY JournaledLead, PTL

\* ... and of the position.
LEMMA NewBasedNext ==
  (Inv /\ Running /\ pc \notin {"final", "verify"} =>
    /\ Based /\ Whole(pos.sum, pageN) /\ pageN \in Pgno
    /\ pc \in {"idle", "tx", "undone", "done", "roll", "rolled"} =>
         pos.sum = New.post /\ New.n = pageN)'
BY NewBased, PTL

\* An fsync keeps the visible journal and adds none.
LEMMA SettledKeeps ==
  ASSUME Visible
  PROVE  Settled \subseteq jdisk /\ jrnl \in Settled
BY DEF Visible, Settled

-----------------------------------------------------------------------------
(* What each step leaves of it: the client ... *)

\* A journal that is being written restores the position, whatever part is left.
LEMMA DiskWriteJournal ==
  ASSUME OrderedMetadata, Inv, Inv', DiskInv,
         \/ SyncJournal \/ \E p \in Pgno : WriteJournalAt(p)
         \/ \E n \in Pgno : \E w \in SUBSET Pgno : CreateJournal(n, w)
  PROVE  DiskInv'
<1>1. /\ UNCHANGED <<file, disk, ltx, pos, pageN, sums, role>> /\ New' = New
      /\ pc' = "tx" /\ role = "primary" /\ pc \in {"idle", "tx"}
      /\ jrnl' \in jdisk' /\ jdisk' \subseteq jdisk \cup {jrnl'}
  BY DEF WriteJournalAt, SyncJournal, CreateJournal, WriteJournal, SyncedJournal, memory, New
<1>2. Running /\ Running'
  BY <1>1 DEF Running
<1>3. Logged(jrnl) \subseteq Logged(jrnl') /\ (jrnl'.hdr = "magic" => \A j \in jdisk' : SameFrames(j)')
  <2>1. ASSUME NEW n \in Pgno, NEW w \in SUBSET Pgno, CreateJournal(n, w)
        PROVE  Logged(jrnl) = {} /\ jrnl'.hdr # "magic"
    BY <2>1 DEF CreateJournal, WriteJournal, Logged
  <2>2. ASSUME NEW p \in Pgno, WriteJournalAt(p)
        PROVE  /\ Logged(jrnl) = Logged(jrnl')
               /\ jrnl'.hdr = "magic" => \A j \in jdisk' : SameFrames(j)'
    <3> DEFINE j == [jrnl EXCEPT !.tail = @ \cup {p}]
    <3>1. IsValid(jrnl) /\ pc = "tx"
      BY <2>2 DEF WriteJournalAt, Inv, Roles
    <3>2. j.hdr = jrnl.hdr /\ j.n = jrnl.n /\ j.orig = jrnl.orig /\ j.pages = jrnl.pages
      BY <3>1, ValidJournal DEF Inv
    <3>3. jrnl' = j
      BY <2>2 DEF WriteJournalAt, WriteJournal
    <3> HIDE DEF j
    <3>4. jrnl.hdr = "magic" => \A i \in jdisk : SameFrames(i)
      BY <1>2, <3>1 DEF DiskInv, Journaled
    <3>5. QED
      BY <1>1, <3>2, <3>3, <3>4 DEF Logged, SameFrames
  <2>3. ASSUME SyncJournal
        PROVE  /\ Logged(jrnl) \subseteq Logged(jrnl')
               /\ jrnl'.hdr = "magic" => \A j \in jdisk' : SameFrames(j)'
    <3> DEFINE j == [jrnl EXCEPT !.hdr = "magic", !.pages = @ \cup jrnl.tail, !.tail = {}]
    <3>1. IsValid(jrnl)
      BY <2>3 DEF SyncJournal, Inv, Roles
    <3>2. j.hdr = "magic" /\ j.pages = jrnl.pages \cup jrnl.tail
      BY <3>1, ValidJournal DEF Inv
    <3>3. jrnl' = j /\ jdisk' = {j}
      BY <2>3 DEF SyncJournal, SyncedJournal
    <3> HIDE DEF j
    <3>4. QED
      BY <3>2, <3>3 DEF Logged, SameFrames
  <2>4. QED
    BY <2>1, <2>2, <2>3
<1>4. Durable'
  BY <1>1, <1>2, <1>3 DEF DiskInv, Durable
<1>5. Journaled'
  BY <1>3 DEF Journaled
<1>6. Leads(jrnl', disk', New')
  BY <1>1, <1>2, <1>4, VisibleLeadsNext
<1>7. AllLead'
  BY <1>1, <1>6 DEF DiskInv, AllLead
<1>8. Visible'
  BY <1>1 DEF DiskInv, Visible
<1>9. Opening' /\ Checked'
  BY <1>1, <1>2 DEF Opening, Checked
<1>10. QED
  BY <1>1, <1>4, <1>5, <1>7, <1>8, <1>9 DEF DiskInv

\* A page is overwritten only when every journal that may be left holds it.
LEMMA DiskWriteDatabase ==
  ASSUME OrderedMetadata, Inv, Inv', DiskInv, NEW p \in Pgno, WriteDatabaseAt(p)
  PROVE  DiskInv'
<1>1. /\ UNCHANGED <<jrnl, jdisk, pageN, role, pc>>
      /\ pc = "tx" /\ role = "primary" /\ jrnl.hdr = "magic"
  BY DEF WriteDatabaseAt
<1>2. Running /\ Running'
  BY <1>1 DEF Running
<1>3. \A q \in Pgno : /\ file'[q] \in disk'[q]
                      /\ q # p => file'[q] = file[q] /\ disk'[q] = disk[q] \cup {file[q]}
  BY DEF WriteDatabaseAt, WritePages, Write, Overlay
<1>4. p \in 1..pageN => p \in Logged(jrnl)
  BY <1>1 DEF WriteDatabaseAt, Inv, Roles, JournalUndoes, Running, Logged, Pgno
<1>5. 1..pageN \subseteq Pgno
  BY <1>2, FileSize, PageFacts DEF Pgno
<1>6. Durable'
  <2>1. ASSUME NEW q \in 1..pageN \ Logged(jrnl) PROVE disk'[q] = {file'[q]}
    <3>1. disk[q] = {file[q]}
      BY <1>1, <1>2 DEF DiskInv, Durable
    <3>2. QED
      BY <1>3, <1>4, <1>5, <3>1
  <2>2. QED
    BY <1>1, <2>1 DEF Durable
<1>7. Journaled'
  BY <1>1, <1>2 DEF DiskInv, Journaled, SameFrames
<1>8. AllLead'
  BY <1>1, <1>2, <1>6, <1>7, JournaledLeadNext
<1>9. Visible'
  BY <1>1, <1>3 DEF DiskInv, Visible
<1>10. Opening' /\ Checked'
  BY <1>1, <1>2 DEF Opening, Checked
<1>11. QED
  BY <1>1, <1>6, <1>7, <1>8, <1>9, <1>10 DEF DiskInv

\* A rollback of the client ends with a sync.
LEMMA DiskClientRollback ==
  ASSUME OrderedMetadata, Inv, Inv', DiskInv, ClientRollback
  PROVE  DiskInv'
<1>1. /\ UNCHANGED <<jrnl, role>> /\ role = "primary" /\ jdisk' = Settled
      /\ pc \in {"tx", "idle"} /\ pc' = "undone" /\ jrnl.hdr = "magic"
      /\ \A p \in Pgno : disk'[p] = {file'[p]}
  BY DEF ClientRollback, Sync
<1>2. Running /\ Running' /\ pageN' \in Pgno
  BY <1>1, FileSize DEF Running, ClientRollback
<1>3. jdisk' \subseteq jdisk /\ jrnl \in jdisk'
  BY <1>1, SettledKeeps DEF DiskInv
<1>4. 1..pageN' \subseteq Pgno
  BY <1>2, PageFacts DEF Pgno
<1>5. Durable'
  BY <1>1, <1>4 DEF Durable
<1>6. Journaled'
  BY <1>1, <1>2, <1>3 DEF DiskInv, Journaled, SameFrames
<1>7. AllLead'
  BY <1>1, <1>2, <1>5, <1>6, JournaledLeadNext
<1>8. Visible'
  BY <1>1, <1>3 DEF Visible
<1>9. Opening' /\ Checked'
  BY <1>1, <1>2 DEF Opening, Checked
<1>10. QED
  BY <1>1, <1>5, <1>6, <1>7, <1>8, <1>9 DEF DiskInv

\* The steps that leave the files alone.
LEMMA DiskUnchanged ==
  ASSUME OrderedMetadata, Inv, Inv', DiskInv, ClientEnds \/ Demote \/ Promote \/ RollbackNothing \/ Open
  PROVE  DiskInv'
<1>1. /\ UNCHANGED <<file, disk, jrnl, jdisk, ltx, sums>> /\ New' = New
      /\ \/ ClientEnds \/ Demote \/ Promote
         \/ role \in {"leaving", "opening"} /\ pc = "idle" /\ Recovered /\ pageN' = pageN
         \/ role = "down" /\ role' = "opening" /\ pc' = pc
  BY DEF ClientEnds, Demote, Promote, RollbackNothing, Open, files, memory, New
<1>2. role' # "failed" /\ Visible' /\ AllLead'
  BY <1>1 DEF DiskInv, Visible, AllLead, ClientEnds, Demote, Promote, Recovered
<1>3. Running' => /\ Running /\ pageN' = pageN
                  /\ pc' = pc \/ (pc' = "idle" /\ pc \in {"tx", "undone", "done"})
  BY <1>1 DEF ClientEnds, Demote, Promote, Recovered, Running, Inv, Typed, Roles, memory
<1>4. Durable'
  BY <1>1, <1>3 DEF DiskInv, Durable
<1>5. Journaled'
  <2>1. pc = "done" => jrnl.hdr # "magic"
    BY DEF Inv, Roles, IsValid
  <2>2. QED
    BY <1>1, <1>3, <2>1 DEF DiskInv, Journaled, SameFrames
<1>6. Opening'
  <2>1. pc' \in {"synced", "final", "rolled", "init"} \/ role' = "down"
          \/ (role' = "opening" /\ pc' = "idle") => OnDisk
    BY <1>1 DEF ClientEnds, Demote, Promote, Recovered, DiskInv, Opening, Inv, Roles
  <2>2. ~Running' /\ pc' \in {"idle", "roll", "rolled"} => jdisk = {jrnl}
    <3>1. ~Running' /\ pc' \in {"idle", "roll", "rolled"} => ~Running /\ pc' = pc
      BY <1>1 DEF ClientEnds, Demote, Promote, Recovered, Inv, Typed, Roles, Running
    <3>2. QED
      BY <3>1 DEF DiskInv, Opening
  <2>3. ~(role' = "opening" /\ pc' \in {"roll", "rolled"})
    BY <1>1 DEF ClientEnds, Demote, Promote, Recovered, Inv, Roles
  <2>4. QED
    BY <1>1, <2>1, <2>2, <2>3 DEF Opening, OnDisk
<1>7. Checked'
  BY <1>1 DEF ClientEnds, Demote, Promote, Recovered, DiskInv, Checked
<1>8. QED
  BY <1>2, <1>4, <1>5, <1>6, <1>7 DEF DiskInv

\* The pages cut off are past the end of the newest database.
LEMMA DiskTruncate ==
  ASSUME OrderedMetadata, Inv, Inv', DiskInv, TruncateDatabase
  PROVE  DiskInv'
<1>1. /\ UNCHANGED <<jrnl, ltx, pos, pageN, sums, role>> /\ New' = New /\ jdisk' = Settled
      /\ pc = "done" /\ pc' = "idle" /\ file' = Trim(file, pageN)
      /\ \A p \in Pgno : disk'[p] = {file'[p]}
  BY DEF TruncateDatabase, Sync, memory, New
<1>2. Running /\ Running' /\ ~IsValid(jrnl)
  BY <1>1 DEF Inv, Typed, Roles, Running
<1>3. New.n = pageN /\ pageN \in Pgno /\ Whole(New.post, New.n) /\ 1..pageN \subseteq Pgno
  BY <1>1, <1>2, NewBased, PageFacts DEF Pgno
<1>4. jdisk' \subseteq jdisk /\ jrnl \in jdisk'
  BY <1>1, SettledKeeps DEF DiskInv
<1>5. \A p \in 1..pageN : file'[p] = file[p] /\ file[p] \in disk[p]
  BY <1>1, <1>3 DEF Trim, DiskInv, Visible
<1>6. AllLead'
  <2>1. ASSUME NEW j \in jdisk' PROVE Leads(j, disk', New)
    <3>1. Leads(j, disk, New)
      BY <1>4 DEF DiskInv, AllLead
    <3>2. \A p \in 1..New.n : disk'[p] \subseteq disk[p] \cup {file[p]} /\ file[p] \in disk[p]
      BY <1>1, <1>3, <1>5
    <3>3. QED
      BY <1>3, <3>1, <3>2, LeadsWrite
  <2>2. QED
    BY <1>1, <2>1 DEF AllLead
<1>7. Durable'
  BY <1>1, <1>3 DEF Durable
<1>8. Journaled'
  BY <1>1, <1>2 DEF Journaled, IsValid
<1>9. Visible'
  BY <1>1, <1>4 DEF Visible
<1>10. Opening' /\ Checked'
  BY <1>1, <1>2 DEF Opening, Checked, Running
<1>11. QED
  BY <1>1, <1>6, <1>7, <1>8, <1>9, <1>10 DEF DiskInv

\* No page was overwritten under a journal without the magic.
LEMMA DiskDiscard ==
  ASSUME OrderedMetadata, Inv, Inv', DiskInv, DiscardJournal
  PROVE  DiskInv'
<1>1. /\ UNCHANGED <<file, disk, pageN, role>>
      /\ pc = "tx" /\ pc' = "idle" /\ role = "primary" /\ jrnl.hdr = "plain" /\ InvalidateJournal
  BY DEF DiscardJournal
<1>2. Running /\ Running'
  BY <1>1 DEF Running
<1>3. jrnl'.hdr # "magic" /\ jdisk' = {jrnl'} /\ Logged(jrnl) = {}
  BY <1>1, InvalidateTyped DEF Inv, IsValid, Logged
<1>4. Durable'
  BY <1>1, <1>2, <1>3 DEF DiskInv, Durable
<1>5. Leads(jrnl', disk', New')
  BY <1>1, <1>2, <1>4, VisibleLeadsNext
<1>6. AllLead' /\ Journaled'
  BY <1>3, <1>5 DEF AllLead, Journaled
<1>7. Visible'
  BY <1>1, <1>3 DEF DiskInv, Visible
<1>8. Opening' /\ Checked'
  BY <1>1, <1>2 DEF Opening, Checked
<1>9. QED
  BY <1>1, <1>4, <1>6, <1>7, <1>8 DEF DiskInv

-----------------------------------------------------------------------------
(* ... CommitJournal ... *)

\* The LTX file and the database are synced while the journal is there.
LEMMA DiskCommitFile ==
  ASSUME OrderedMetadata, Inv, Inv', DiskInv, CommitLTX \/ CommitSync
  PROVE  DiskInv'
<1>1. /\ UNCHANGED <<file, jrnl, pageN, role>> /\ jdisk' = Settled
      /\ \/ pc \in {"tx", "undone"} /\ pc' = "ltx" /\ role = "primary" /\ disk' = disk
         \/ pc = "ltx" /\ pc' = "synced" /\ \A p \in Pgno : disk'[p] = {file[p]}
  BY DEF CommitLTX, CommitSync, Sync, memory
<1>2. Running /\ Running' /\ jrnl.hdr = "magic"
  BY <1>1 DEF Running, Inv, Typed, Roles, CommitLTX
<1>3. jdisk' \subseteq jdisk /\ jrnl \in jdisk'
  BY <1>1, SettledKeeps DEF DiskInv
<1>4. 1..pageN \subseteq Pgno
  BY <1>2, FileSize, PageFacts DEF Pgno
<1>5. Durable'
  BY <1>1, <1>2, <1>4 DEF DiskInv, Durable
<1>6. Journaled'
  BY <1>1, <1>2, <1>3 DEF DiskInv, Journaled, SameFrames
<1>7. AllLead'
  BY <1>1, <1>2, <1>5, <1>6, JournaledLeadNext
<1>8. Visible'
  BY <1>1, <1>3 DEF DiskInv, Visible
<1>9. Opening'
  BY <1>1, <1>2 DEF Opening, OnDisk, Running
<1>10. Checked'
  BY <1>1 DEF Checked
<1>11. QED
  BY <1>1, <1>2, <1>5, <1>6, <1>7, <1>8, <1>9, <1>10 DEF DiskInv, Running

\* The journal goes only when the database of the LTX file is on the disk.
LEMMA DiskCommitInvalidate ==
  ASSUME OrderedMetadata, Inv, Inv', DiskInv, CommitInvalidate
  PROVE  DiskInv'
<1>1. /\ UNCHANGED <<file, disk, ltx, role>> /\ New' = New
      /\ pc = "synced" /\ pc' = "final" /\ InvalidateJournal
  BY DEF CommitInvalidate, New
<1>2. Running /\ Running' /\ jrnl.hdr = "magic"
  BY <1>1 DEF Running, Inv, Typed, Roles
<1>3. ~IsValid(jrnl)' /\ Frames(jrnl') = {} /\ jdisk' = {jrnl'}
  BY <1>1, <1>2, InvalidateTyped DEF Inv, IsValid
<1>4. OnDisk /\ OnDisk'
  BY <1>1 DEF DiskInv, Opening, OnDisk
<1>5. Leads(jrnl', disk, New)
  <2>1. New.n \in Pgno /\ Whole(New.post, New.n) /\ 1..New.n \subseteq Pgno
    BY NewFacts, PageFacts DEF Inv, Pgno
  <2>2. Same(file, New.post, 1..New.n)
    BY <1>1, <1>2 DEF Inv, Memory
  <2>3. \A p \in 1..New.n : \A v \in After(jrnl', disk, p) : v = New.post[p]
    BY <1>3, <1>4, <2>1, <2>2 DEF After, OnDisk, Same
  <2>4. QED
    BY <1>3, <2>1, <2>3, Restores
<1>6. AllLead'
  BY <1>1, <1>3, <1>5 DEF AllLead
<1>7. Visible'
  BY <1>1, <1>3 DEF DiskInv, Visible
<1>8. Durable' /\ Journaled' /\ Checked'
  BY <1>1 DEF Durable, Journaled, Checked
<1>9. Opening'
  BY <1>1, <1>2, <1>4 DEF Opening, Running
<1>10. QED
  BY <1>1, <1>2, <1>6, <1>7, <1>8, <1>9 DEF DiskInv, Running

\* The position is in memory only.
LEMMA DiskCommitPos ==
  ASSUME OrderedMetadata, Inv, Inv', DiskInv, CommitPos
  PROVE  DiskInv'
<1>1. /\ UNCHANGED <<file, disk, jrnl, jdisk, ltx, role>> /\ New' = New
      /\ pc = "final" /\ pc' = "done"
  BY DEF CommitPos, files, New
<1>2. Running /\ Running'
  BY <1>1 DEF Running, Inv, Typed, Roles
<1>3. 1..pageN' \subseteq Pgno
  BY NewFacts, PageFacts DEF CommitPos, Inv, Pgno
<1>4. Durable'
  BY <1>1, <1>3 DEF Durable, DiskInv, Opening, OnDisk
<1>5. AllLead' /\ Visible'
  BY <1>1 DEF DiskInv, AllLead, Visible
<1>6. Journaled' /\ Checked'
  BY <1>1 DEF Journaled, Checked
<1>7. Opening'
  BY <1>1, <1>2 DEF Opening, Running
<1>8. QED
  BY <1>1, <1>2, <1>4, <1>5, <1>6, <1>7 DEF DiskInv, Running

-----------------------------------------------------------------------------
(* ... the recovery ... *)

\* A rollback that is cut short can be played back again.
LEMMA DiskRollbackPages ==
  ASSUME OrderedMetadata, Inv, Inv', DiskInv, RollbackPages
  PROVE  DiskInv'
<1>1. /\ UNCHANGED <<jrnl, jdisk, ltx, pos, pageN, role>> /\ New' = New
      /\ pc = "idle" /\ pc' = "roll" /\ role \in {"leaving", "opening"}
      /\ file' = Overlay(file, Frames(jrnl), jrnl.orig)
      /\ \A p \in Pgno : disk'[p] = disk[p] \cup {file'[p]}
  BY DEF RollbackPages, WritePages, Write, New
<1>2. \A p \in Pgno : file[p] \in disk[p]
  BY DEF DiskInv, Visible
<1>3. Visible'
  BY <1>1 DEF DiskInv, Visible
<1>4. /\ New.n \in Pgno /\ Whole(New.post, New.n) /\ 1..New.n \subseteq Pgno
      /\ 1 \in Pgno
  BY NewFacts, PageFacts DEF Inv, Pgno
<1>5. CASE role = "leaving"
  <2>1. Running /\ Running'
    BY <1>1, <1>5 DEF Running
  <2>2. Same(file', New.post, 1..New.n)
    <3>1. pos.sum = New.post /\ New.n = pageN
      BY <1>1, <2>1, NewBased
    <3>2. Same(file', pos.sum, 1..pageN)
      BY <1>1, <2>1 DEF Inv, JournalUndoes
    <3>3. QED
      BY <3>1, <3>2
  <2>3. AllLead'
    <3>1. ASSUME NEW j \in jdisk PROVE Leads(j, disk', New)
      <4>1. Leads(j, disk, New)
        BY DEF DiskInv, AllLead
      <4>2. \A p \in 1..New.n : disk'[p] \subseteq disk[p] \cup {file'[p]} /\ file'[p] = New.post[p]
        BY <1>1, <1>4, <2>2 DEF Same
      <4>3. QED
        BY <1>4, <4>1, <4>2, LeadsWrite
    <3>2. QED
      BY <1>1, <3>1 DEF AllLead
  <2>4. Durable' /\ Journaled' /\ Checked'
    BY <1>1 DEF Durable, Journaled, Checked
  <2>5. Opening'
    BY <1>1, <1>5, <2>1 DEF Opening
  <2>6. QED
    BY <1>1, <1>3, <2>3, <2>4, <2>5 DEF DiskInv
<1>6. CASE role = "opening"
  <2>1. ~Running /\ ~Running' /\ jdisk = {jrnl}
    BY <1>1, <1>6 DEF Running, DiskInv, Opening
  <2>2. ASSUME NEW p \in Pgno
        PROVE  After(jrnl, disk', p) = After(jrnl, disk, p) /\ file'[p] \in After(jrnl, disk', p)
    <3>1. file'[p] = IF p \in Frames(jrnl) THEN jrnl.orig[p] ELSE file[p]
      BY <1>1 DEF Overlay
    <3>2. p \notin Frames(jrnl) => disk'[p] = disk[p] /\ file'[p] \in disk'[p]
      BY <1>1, <1>2, <3>1
    <3>3. QED
      BY <3>1, <3>2 DEF After
  <2>3. Leads(jrnl, disk, New)
    BY <2>1 DEF DiskInv, AllLead
  <2>4. Leads(jrnl, disk', New)
    BY <1>4, <2>2, <2>3 DEF Leads
  <2>5. AllLead'
    BY <1>1, <2>1, <2>4 DEF AllLead
  <2>6. Durable' /\ Journaled' /\ Checked'
    BY <1>1 DEF Durable, Journaled, Checked
  <2>7. Opening'
    BY <1>1, <1>6, <2>1, <2>2 DEF Opening
  <2>8. QED
    BY <1>1, <1>3, <2>5, <2>6, <2>7 DEF DiskInv
<1>7. QED
  BY <1>1, <1>5, <1>6

\* The rolled back file is on the disk before the journal goes.
LEMMA DiskRollbackTruncate ==
  ASSUME OrderedMetadata, Inv, Inv', DiskInv, RollbackTruncate
  PROVE  DiskInv'
<1>1. /\ UNCHANGED <<jrnl, ltx, pos, role>> /\ New' = New /\ jdisk' = Settled
      /\ pc = "roll" /\ pc' = "rolled"
      /\ IF IsValid(jrnl) THEN file' = Trim(file, jrnl.n) ELSE file' = file
      /\ \A p \in Pgno : disk'[p] = {file'[p]}
  BY DEF RollbackTruncate, Sync, New
<1>2. jdisk' \subseteq jdisk /\ jrnl \in jdisk'
  BY <1>1, SettledKeeps DEF DiskInv
<1>3. Visible' /\ OnDisk'
  BY <1>1, <1>2 DEF Visible, OnDisk
<1>4. Durable' /\ Journaled' /\ Checked'
  BY <1>1 DEF Durable, Journaled, Checked
<1>5. /\ New.n \in Pgno /\ Whole(New.post, New.n) /\ 1..New.n \subseteq Pgno
      /\ 1 \in Pgno /\ role \in {"leaving", "opening"}
  BY <1>1, NewFacts, PageFacts DEF Inv, Typed, Roles, Pgno
<1>6. CASE role = "leaving"
  <2>1. Running /\ Running'
    BY <1>1, <1>6 DEF Running
  <2>2. Same(file', New.post, 1..New.n)
    <3>1. pos'.sum = New'.post /\ New'.n = pageN'
      BY <1>1, <2>1, NewBasedNext
    <3>2. Same(file', pos'.sum, 1..pageN')
      BY <1>1, <2>1 DEF Inv, JournalUndoes
    <3>3. QED
      BY <1>1, <3>1, <3>2
  <2>3. AllLead'
    <3>1. ASSUME NEW j \in jdisk' PROVE Leads(j, disk', New)
      <4>1. Leads(j, disk, New)
        BY <1>2 DEF DiskInv, AllLead
      <4>2. \A p \in 1..New.n : disk'[p] \subseteq disk[p] \cup {file'[p]} /\ file'[p] = New.post[p]
        BY <1>1, <1>5, <2>2 DEF Same
      <4>3. QED
        BY <1>5, <4>1, <4>2, LeadsWrite
    <3>2. QED
      BY <1>1, <3>1 DEF AllLead
  <2>4. Opening'
    BY <1>1, <1>3, <1>6, <2>1 DEF Opening
  <2>5. QED
    BY <1>1, <1>3, <1>4, <1>6, <2>3, <2>4 DEF DiskInv
<1>7. CASE role = "opening"
  <2>1. ~Running /\ ~Running' /\ jdisk = {jrnl} /\ jdisk' = {jrnl}
    BY <1>1, <1>2, <1>7 DEF Running, DiskInv, Opening
  <2>2. Leads(jrnl, disk, New) /\ \A p \in Pgno : file[p] \in After(jrnl, disk, p)
    BY <1>1, <1>7, <2>1 DEF DiskInv, AllLead, Opening
  <2>3. IsValid(jrnl) => jrnl.n \in Nat /\ jrnl.n >= 1
    BY ValidJournal, PageFacts DEF Inv, Pgno
  <2>4. file'[1] = file[1]
    BY <1>1, <1>5, <2>3 DEF Trim
  <2>5. ASSUME NEW p \in 1..New.n \ New.pages
        PROVE  /\ p \in Pgno /\ file'[p] = file[p] /\ file[p] = New.post[p] /\ p <= file'[1].n
               /\ IsValid(jrnl) => p <= jrnl.n
               /\ \A v \in After(jrnl, disk', p) : v = New.post[p]
               /\ \A u \in After(jrnl, disk', 1) : p <= u.n
    <3>1. p \in Pgno /\ file[p] = New.post[p] /\ p <= file[1].n /\ (IsValid(jrnl) => p <= jrnl.n)
      BY <1>5, <2>2 DEF Leads
    <3>2. file'[p] = file[p]
      BY <1>1, <3>1 DEF Trim
    <3>3. \A v \in After(jrnl, disk', p) : v = New.post[p]
      BY <1>1, <2>2, <3>1, <3>2 DEF Leads, After
    <3>4. \A u \in After(jrnl, disk', 1) : p <= u.n
      BY <1>1, <1>5, <2>2, <2>4, <3>1 DEF Leads, After
    <3>5. QED
      BY <2>4, <3>1, <3>2, <3>3, <3>4
  <2>6. Leads(jrnl, disk', New)
    BY <2>5 DEF Leads
  <2>7. Leads(NoJournal, disk', New)
    <3>1. ~IsValid(NoJournal) /\ \A p : After(NoJournal, disk', p) = disk'[p]
      BY DEF IsValid, NoJournal, After, Frames
    <3>2. QED
      BY <1>1, <1>5, <2>5, <3>1 DEF Leads
  <2>8. AllLead'
    BY <1>1, <2>1, <2>6 DEF AllLead
  <2>9. Opening'
    BY <1>1, <1>3, <2>1, <2>7 DEF Opening
  <2>10. QED
    BY <1>1, <1>3, <1>4, <1>7, <2>8, <2>9 DEF DiskInv
<1>8. QED
  BY <1>5, <1>6, <1>7

\* The directory is not synced: the journal that was removed may come back, and
\* leads to the same database.
LEMMA DiskRollbackRemove ==
  ASSUME OrderedMetadata, Inv, Inv', DiskInv, RollbackRemove
  PROVE  DiskInv'
<1>1. /\ UNCHANGED <<file, disk, ltx, pos, pageN>> /\ New' = New /\ pc = "rolled"
      /\ jrnl' = NoJournal /\ jdisk' = jdisk \cup {NoJournal} /\ Recovered
      /\ role \in {"leaving", "opening"}
  BY DEF RollbackRemove, WriteJournal, memory, New, Inv, Typed, Roles
<1>2. OnDisk /\ OnDisk' /\ Visible'
  BY <1>1 DEF DiskInv, Opening, OnDisk, Visible
<1>3. Leads(NoJournal, disk, New)
  <2>1. CASE role = "opening"
    BY <1>1, <2>1 DEF DiskInv, Opening
  <2>2. CASE role = "leaving"
    <3>1. Running /\ Whole(New.post, New.n) /\ New.n = pageN /\ pos.sum = New.post
      BY <1>1, <2>2, NewBased DEF Running
    <3>2. Same(file, New.post, 1..New.n) /\ 1..New.n \subseteq Pgno
      BY <1>1, <3>1, PageFacts DEF Inv, JournalUndoes, Whole, Pgno
    <3>3. ~IsValid(NoJournal) /\ \A p : After(NoJournal, disk, p) = disk[p]
      BY DEF IsValid, NoJournal, After, Frames
    <3>4. \A p \in 1..New.n : \A v \in After(NoJournal, disk, p) : v = New.post[p]
      BY <1>2, <3>2, <3>3 DEF OnDisk, Same
    <3>5. QED
      BY <3>1, <3>3, <3>4, Restores
  <2>3. QED
    BY <1>1, <2>1, <2>2
<1>4. AllLead'
  BY <1>1, <1>3 DEF DiskInv, AllLead
<1>5. Durable'
  <2>1. 1..pageN' \subseteq Pgno
    BY <1>1, PageFacts DEF Inv, Typed, Pgno
  <2>2. QED
    BY <1>2, <2>1 DEF Durable, OnDisk
<1>6. Journaled'
  BY <1>1 DEF Journaled, NoJournal
<1>7. Opening' /\ Checked'
  BY <1>1, <1>2 DEF Opening, Checked, Recovered, Running
<1>8. QED
  BY <1>1, <1>2, <1>4, <1>5, <1>6, <1>7 DEF DiskInv, Recovered

\* The checksums read are those of pages the newest LTX file was made from.
LEMMA DiskInit ==
  ASSUME OrderedMetadata, Inv, Inv', DiskInv, InitDatabaseFile
  PROVE  DiskInv'
<1>1. /\ UNCHANGED <<file, disk, jrnl, jdisk, ltx, role>> /\ New' = New
      /\ pc = "init" /\ pc' = "apply" /\ sums' = Content(file)
  BY DEF InitDatabaseFile, files, New
<1>2. role = "opening" /\ jrnl = NoJournal /\ ~Running'
  BY <1>1 DEF Inv, Typed, Roles, Running
<1>3. Visible' /\ AllLead'
  BY <1>1 DEF DiskInv, Visible, AllLead
<1>4. Durable' /\ Journaled' /\ Opening'
  BY <1>1, <1>2 DEF Durable, Journaled, Opening
<1>5. Checked'
  <2>1. Leads(NoJournal, disk, New) /\ OnDisk
    BY <1>1, <1>2 DEF DiskInv, AllLead, Visible, Opening
  <2>2. \A p : After(NoJournal, disk, p) = disk[p]
    BY DEF NoJournal, After, Frames
  <2>3. 1..New.n \subseteq Pgno /\ 1 \in Pgno
    BY NewFacts, PageFacts DEF Inv, Pgno
  <2>4. ASSUME NEW p \in 1..New.n \ New.pages PROVE sums'[p] = New.post[p]
    <3>1. file[p] = New.post[p] /\ p <= file[1].n
      BY <2>1, <2>2, <2>3, <2>4 DEF Leads, OnDisk
    <3>2. QED
      BY <1>1, <2>3, <3>1 DEF Content, Trim, Size
  <2>5. QED
    BY <1>1, <2>4 DEF Checked, Same
<1>6. QED
  BY <1>1, <1>2, <1>3, <1>4, <1>5 DEF DiskInv

-----------------------------------------------------------------------------
(* ... a replica, and the loss of power. *)

\* That a journal of the time before is gone needs the order of the directory.
LEMMA DiskReceive ==
  ASSUME OrderedMetadata, Inv, Inv', DiskInv, NEW n \in Pgno, NEW w \in SUBSET Pgno, ReceiveLTX(n, w)
  PROVE  DiskInv'
<1>1. /\ UNCHANGED <<file, disk, jrnl, pos, pageN, sums, role>> /\ jdisk' = Settled
      /\ pc = "idle" /\ pc' = "apply" /\ role = "replica"
  BY DEF ReceiveLTX, memory
<1>2. Running /\ Running' /\ jrnl = NoJournal /\ jdisk' = {NoJournal}
  BY <1>1 DEF Running, Inv, Roles, Settled
<1>3. Durable'
  BY <1>1, <1>2 DEF DiskInv, Durable
<1>4. AllLead'
  BY <1>1, <1>2, <1>3, VisibleLeadsNext DEF AllLead
<1>5. Journaled' /\ Opening'
  BY <1>1, <1>2 DEF Journaled, Opening
<1>6. Visible'
  BY <1>1, <1>2 DEF DiskInv, Visible
<1>7. Checked'
  <2>1. Same(sums, file, 1..pageN)
    BY <1>1, <1>2 DEF Inv, Memory
  <2>2. Same(file, pos.sum, 1..pageN)
    BY <1>1, <1>2 DEF Inv, JournalUndoes
  <2>3. Based'
    BY <1>1, <1>2, NewBasedNext
  <2>4. QED
    BY <1>1, <2>1, <2>2, <2>3 DEF Checked, Based, Same
<1>8. QED
  BY <1>1, <1>3, <1>4, <1>5, <1>6, <1>7 DEF DiskInv

\* An LTX file that was written in part can be applied again.
LEMMA DiskApplyPages ==
  ASSUME OrderedMetadata, Inv, Inv', DiskInv, ApplyPages
  PROVE  DiskInv'
<1>1. /\ UNCHANGED <<jrnl, jdisk, ltx, role>> /\ New' = New /\ pc = "apply" /\ pc' = "verify"
      /\ file' = Overlay(file, New.pages, New.data) /\ sums' = Overlay(sums, New.pages, New.data)
      /\ \A p \in Pgno : disk'[p] = disk[p] \cup {file'[p]}
  BY NewFacts DEF ApplyPages, WritePages, Write, New, Inv
<1>2. \A p \in Pgno : file[p] \in disk[p]
  BY DEF DiskInv, Visible
<1>3. /\ New.n \in Pgno /\ Whole(New.post, New.n) /\ 1..New.n \subseteq Pgno
      /\ Same(New.data, New.post, 1..New.n)
  BY NewFacts, PageFacts DEF Inv, Pgno
<1>4. Visible'
  BY <1>1 DEF DiskInv, Visible
<1>5. ASSUME NEW p \in 1..New.n
      PROVE  /\ file'[p] = IF p \in New.pages THEN New.post[p] ELSE file[p]
             /\ sums'[p] = IF p \in New.pages THEN New.post[p] ELSE sums[p]
  BY <1>1, <1>3 DEF Overlay, Same
<1>6. AllLead'
  <2>1. ASSUME NEW j \in jdisk PROVE Leads(j, disk', New)
    <3>1. Leads(j, disk, New)
      BY DEF DiskInv, AllLead
    <3>2. \A p \in 1..New.n : /\ disk'[p] \subseteq disk[p] \cup {file'[p]}
                              /\ file'[p] \in disk[p] \/ file'[p] = New.post[p]
      BY <1>1, <1>2, <1>3, <1>5
    <3>3. QED
      BY <1>3, <3>1, <3>2, LeadsWrite
  <2>2. QED
    BY <1>1, <2>1 DEF AllLead
<1>7. Durable' /\ Journaled'
  BY <1>1 DEF Durable, Journaled
<1>8. Opening'
  BY <1>1 DEF Opening, Inv, Roles
<1>9. Checked'
  <2>1. Same(sums, New.post, 1..New.n \ New.pages)
    BY <1>1 DEF DiskInv, Checked
  <2>2. QED
    BY <1>1, <1>5, <2>1 DEF Checked, Same
<1>10. QED
  BY <1>1, <1>4, <1>6, <1>7, <1>8, <1>9 DEF DiskInv

\* The checksum matches.
LEMMA DiskApplyVerify ==
  ASSUME OrderedMetadata, Inv, Inv', DiskInv, ApplyVerify
  PROVE  DiskInv'
<1>1. /\ UNCHANGED <<jrnl, ltx>> /\ New' = New /\ pc = "verify" /\ pc' = "idle"
      /\ file' = Trim(file, New.n) /\ \A p \in Pgno : disk'[p] = {file'[p]}
      /\ pageN' = New.n /\ jdisk' = Settled
      /\ Trim(Resized(sums, New.n, pageN), New.n) = New.post => role' = "replica"
  BY NewFacts DEF ApplyVerify, Sync, New, Inv
<1>2. /\ New.n \in Pgno /\ New.n \in Nat /\ Whole(New.post, New.n) /\ 1..New.n \subseteq Pgno
      /\ New.post \in Files(Used) /\ pageN \in Nat
  BY NewFacts, PageFacts DEF Inv, Typed, Pgno
<1>3. Same(sums, New.post, 1..New.n)
  BY <1>1 DEF DiskInv, Checked
<1>4. \A p \in Pgno : p <= New.n <=> p \in 1..New.n
  BY <1>2, PageFacts DEF Pgno
<1>5. role' = "replica"
  <2>1. \A p \in Pgno : (IF p <= New.n THEN Resized(sums, New.n, pageN)[p] ELSE Absent) = New.post[p]
    <3>1. \A p \in 1..New.n : p \notin New.n + 1..pageN
      BY <1>2
    <3>2. QED
      BY <1>2, <1>3, <1>4, <3>1 DEF Resized, Same, Whole
  <2>2. New.post = [p \in Pgno |-> New.post[p]]
    BY <1>2 DEF Files
  <2>3. Trim(Resized(sums, New.n, pageN), New.n) = New.post
    BY <2>1, <2>2 DEF Trim
  <2>4. QED
    BY <1>1, <2>3
<1>6. Same(file', New.post, 1..New.n)
  <2>1. \A p \in 1..New.n : sums[p] \in {file[p], Absent} /\ New.post[p] # Absent
    BY <1>1, <1>2, <1>4 DEF Inv, Applying, Whole
  <2>2. \A p \in 1..New.n : file'[p] = file[p]
    BY <1>1, <1>2, <1>4 DEF Trim
  <2>3. QED
    BY <1>3, <2>1, <2>2 DEF Same
<1>7. jdisk' \subseteq jdisk /\ jrnl \in jdisk'
  BY <1>1, SettledKeeps DEF DiskInv
<1>8. AllLead'
  <2>1. ASSUME NEW j \in jdisk' PROVE Leads(j, disk', New)
    <3>1. Leads(j, disk, New)
      BY <1>7 DEF DiskInv, AllLead
    <3>2. \A p \in 1..New.n : disk'[p] \subseteq disk[p] \cup {file'[p]} /\ file'[p] = New.post[p]
      BY <1>1, <1>2, <1>6 DEF Same
    <3>3. QED
      BY <1>2, <3>1, <3>2, LeadsWrite
  <2>2. QED
    BY <1>1, <2>1 DEF AllLead
<1>9. Visible'
  BY <1>1, <1>7 DEF Visible
<1>10. Durable'
  BY <1>1, <1>2 DEF Durable
<1>11. Journaled'
  BY <1>1 DEF Journaled, Inv, Roles, NoJournal
<1>12. Opening' /\ Checked'
  BY <1>1, <1>5 DEF Opening, Checked, Running
<1>13. QED
  BY <1>5, <1>8, <1>9, <1>10, <1>11, <1>12 DEF DiskInv

\* What is left leads to the newest LTX file, as everything that could be did.
LEMMA DiskPowerLoss ==
  ASSUME OrderedMetadata, Inv, Inv', DiskInv, PowerLoss
  PROVE  DiskInv'
<1>1. /\ ltx' = ltx /\ New' = New /\ role' = "down" /\ pc' = "idle"
      /\ \A p \in Pgno : file'[p] \in disk[p] /\ disk'[p] = {file'[p]}
      /\ jrnl' \in jdisk /\ jdisk' = {jrnl'}
  BY DEF PowerLoss, Sync, New
<1>2. New.n \in Pgno /\ Whole(New.post, New.n) /\ 1..New.n \subseteq Pgno
  BY NewFacts, PageFacts DEF Inv, Pgno
<1>3. AllLead'
  <2>1. Leads(jrnl', disk, New)
    BY <1>1 DEF DiskInv, AllLead
  <2>2. \A p \in 1..New.n : disk'[p] \subseteq disk[p] \cup {file'[p]} /\ file'[p] \in disk[p]
    BY <1>1, <1>2
  <2>3. Leads(jrnl', disk', New)
    BY <1>2, <2>1, <2>2, LeadsWrite
  <2>4. QED
    BY <1>1, <2>3 DEF AllLead
<1>4. Visible' /\ OnDisk'
  BY <1>1 DEF Visible, OnDisk
<1>5. Durable' /\ Journaled'
  BY <1>1 DEF Durable, Journaled, Running
<1>6. Opening' /\ Checked'
  BY <1>1, <1>4 DEF Opening, Checked
<1>7. QED
  BY <1>1, <1>3, <1>4, <1>5, <1>6 DEF DiskInv

-----------------------------------------------------------------------------
(* DB.Open succeeds. *)

\* The first transaction is on the disk.
LEMMA InitDisk == Init => DiskInv
<1>1. SUFFICES ASSUME Init PROVE DiskInv
  OBVIOUS
<1>2. PICK n \in Pgno : /\ jrnl = NoJournal /\ jdisk = {NoJournal}
                        /\ New.n = n /\ New.pages = 1..n
                        /\ role = "primary" /\ pc = "idle" /\ pageN = n
                        /\ \A p \in Pgno : disk[p] = {file[p]}
  BY <1>1 DEF Init, New
<1>3. AllLead
  BY <1>2 DEF AllLead, Leads
<1>4. 1..pageN \subseteq Pgno
  BY <1>2, PageFacts DEF Pgno
<1>5. Durable /\ Visible
  BY <1>2, <1>4 DEF Durable, Visible
<1>6. Journaled /\ Opening /\ Checked
  BY <1>2 DEF Journaled, Opening, Checked, Running, NoJournal
<1>7. QED
  BY <1>2, <1>3, <1>5, <1>6 DEF DiskInv

\* Unless the order of the directory changes is kept, nothing is said.
Ordered == OrderedMetadata => DiskInv

\* Every step keeps what the disk may hold.
LEMMA NextDisk == Inv /\ Inv' /\ Ordered /\ [Next]_vars => Ordered'
<1>1. SUFFICES ASSUME OrderedMetadata, Inv, Inv', DiskInv, [Next]_vars PROVE DiskInv'
  BY DEF Ordered
<1>2. CASE ClientStep
  BY <1>1, <1>2, DiskWriteJournal, DiskWriteDatabase, DiskClientRollback, DiskUnchanged,
     DiskTruncate, DiskDiscard DEF ClientStep
<1>3. CASE CommitStep
  BY <1>1, <1>3, DiskCommitFile, DiskCommitInvalidate, DiskCommitPos DEF CommitStep
<1>4. CASE RecoverStep
  BY <1>1, <1>4, DiskRollbackPages, DiskRollbackTruncate, DiskRollbackRemove, DiskUnchanged,
     DiskInit DEF RecoverStep
<1>5. CASE ReplicaStep
  BY <1>1, <1>5, DiskReceive, DiskApplyPages, DiskApplyVerify DEF ReplicaStep
<1>6. CASE Demote \/ Promote \/ PowerLoss
  BY <1>1, <1>6, DiskUnchanged, DiskPowerLoss
<1>7. CASE UNCHANGED vars
  <2>1. UNCHANGED <<file, disk, jrnl, jdisk, ltx, pageN, sums, role, pc>> /\ New' = New
    BY <1>7 DEF vars, files, memory, New
  <2>2. Visible' /\ AllLead' /\ Durable'
    BY <1>1, <2>1 DEF DiskInv, Visible, AllLead, Durable, Running
  <2>3. Journaled' /\ Opening' /\ Checked'
    BY <1>1, <2>1 DEF DiskInv, Journaled, SameFrames, Opening, OnDisk, Checked, Running
  <2>4. QED
    BY <1>1, <2>1, <2>2, <2>3 DEF DiskInv
<1>8. QED
  BY <1>1, <1>2, <1>3, <1>4, <1>5, <1>6, <1>7 DEF Next

\* On a disk that keeps directory changes in order (ext4, xfs), DB.Open never
\* fails and ApplyLTXNoLock never finds another checksum: wherever the power was
\* lost, in a transaction, in CommitJournal or in a recovery, the journal and the
\* newest LTX file lead back to a database whose checksum matches.
THEOREM JournalOpenSucceeds == Spec => [](OrderedMetadata => OpenSucceeds)
<1>1. Init => Ordered
  BY InitDisk DEF Ordered
<1>2. Ordered => (OrderedMetadata => OpenSucceeds)
  BY DEF Ordered, DiskInv, OpenSucceeds
<1>3. QED
  BY <1>1, <1>2, NextDisk, InvHolds, PTL DEF Spec
=============================================================================
