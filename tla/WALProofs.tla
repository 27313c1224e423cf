----------------------------- MODULE WALProofs ------------------------------
(***************************************************************************)
(* WAL for databases of any size and any number of transactions,           *)
(* demotions and power losses.                                             *)
(*                                                                         *)
(* Five properties hold of regular clients, those that do no more than to  *)
(* checkpoint beside a writer and to keep the salts of the wal-index: Inv. *)
(* That DB.Open succeeds after a power loss needs clients that work one by *)
(* one, and what a loss may leave then: DiskInv.                           *)
(***************************************************************************)
EXTENDS WAL, SequenceTheorems, WellFoundedInduction, TLAPS

-----------------------------------------------------------------------------
(* Searching the log. *)

\* A set of numbers up to k has a least and a greatest one.
LEMMA Extremes ==
  ASSUME NEW k \in Nat, NEW I \in SUBSET (1..k), I # {}
  PROVE  /\ Max(I) \in I /\ \A i \in I : i <= Max(I)
         /\ Min(I) \in I /\ \A i \in I : Min(I) <= i
<1>1. IsWellFoundedOn(OpToRel(<, Nat), Nat)
  BY NatLessThanWellFounded
<1>2. ASSUME NEW T \in SUBSET Nat, T # {} PROVE \E x \in T : \A y \in T : x <= y
  <2>1. PICK x \in T : \A y \in T : <<y, x>> \notin OpToRel(<, Nat)
    BY <1>1, <1>2, WFMin
  <2>2. \A y \in T : ~(y < x)
    BY <1>2, <2>1 DEF OpToRel
  <2>3. QED
    BY <1>2, <2>2
<1>3. \E x \in I : \A y \in I : x <= y
  BY <1>2
<1>4. \E x \in I : \A y \in I : x >= y
  <2> DEFINE T == {k - i : i \in I}
  <2>0. T \in SUBSET Nat /\ T # {}
    <3>1. \A i \in I : i \in Int /\ k - i \in Nat
      OBVIOUS
    <3>2. PICK i : i \in I
      OBVIOUS
    <3>3. k - i \in T
      BY <3>2
    <3>4. QED
      BY <3>1, <3>3
  <2>1. PICK x \in T : \A y \in T : x <= y
    BY <1>2, <2>0
  <2>2. PICK j \in I : x = k - j
    BY <2>1
  <2>3. \A y \in I : k - j <= k - y
    BY <2>1, <2>2
  <2>4. QED
    BY <2>3
<1>5. Max(I) \in I /\ \A i \in I : Max(I) >= i
  BY <1>4 DEF Max
<1>6. Min(I) \in I /\ \A i \in I : Min(I) <= i
  BY <1>3 DEF Min
<1>7. QED
  BY <1>5, <1>6

\* The last frame of page p among the first k, 0 if there is none.
At(fr, k, p) == SelectLastInSubSeq(fr, 1, k, LAMBDA e : e.p = p)

\* What the search for it finds.
LEMMA AtIs ==
  ASSUME NEW fr, NEW k \in Nat, NEW p
  PROVE  /\ At(fr, k, p) \in 0..k
         /\ At(fr, k, p) = 0 <=> p \notin PagesIn(fr, 1, k)
         /\ At(fr, k, p) # 0 => /\ fr[At(fr, k, p)].p = p
                                /\ \A j \in At(fr, k, p) + 1..k : fr[j].p # p
<1> DEFINE I == {i \in 1..k : fr[i].p = p}
<1>1. At(fr, k, p) = IF I # {} THEN Max(I) ELSE 0
  BY DEF At, SelectLastInSubSeq
<1>2. p \in PagesIn(fr, 1, k) <=> I # {}
  BY DEF PagesIn
<1>3. CASE I = {}
  BY <1>1, <1>2, <1>3
<1>4. CASE I # {}
  <2>1. Max(I) \in I /\ \A i \in I : i <= Max(I)
    BY <1>4, Extremes
  <2>2. Max(I) \in 1..k /\ fr[Max(I)].p = p
    BY <2>1
  <2>3. \A j \in Max(I) + 1..k : fr[j].p # p
    BY <2>1, <2>2
  <2>4. QED
    BY <1>1, <1>2, <1>4, <2>2, <2>3
<1>5. QED
  BY <1>3, <1>4

\* The last frame of a page is the only one without a later one.
LEMMA AtUnique ==
  ASSUME NEW fr, NEW k \in Nat, NEW p, NEW i \in 1..k,
         fr[i].p = p, \A j \in i + 1..k : fr[j].p # p
  PROVE  At(fr, k, p) = i
<1>1. p \in PagesIn(fr, 1, k)
  BY DEF PagesIn
<1>2. PICK a : a = At(fr, k, p)
  OBVIOUS
<1>3. a \in 1..k /\ fr[a].p = p /\ \A j \in a + 1..k : fr[j].p # p
  BY <1>1, <1>2, AtIs
<1>4. ~(a < i) /\ ~(i < a)
  BY <1>3
<1>5. QED
  BY <1>2, <1>3, <1>4

\* The first k frames alone decide, and later frames of other pages do not count.
LEMMA AtSame ==
  ASSUME NEW fr, NEW gr, NEW k \in Nat, NEW m \in Nat, k <= m, NEW p,
         \A i \in 1..k : gr[i] = fr[i], p \notin PagesIn(gr, k + 1, m)
  PROVE  /\ At(gr, m, p) = At(fr, k, p)
         /\ p \in PagesIn(gr, 1, m) <=> p \in PagesIn(fr, 1, k)
<1>1. \A j \in k + 1..m : gr[j].p # p
  BY DEF PagesIn
<1>2. PICK a : a = At(fr, k, p)
  OBVIOUS
<1>3. CASE a = 0
  <2>1. p \notin PagesIn(fr, 1, k)
    BY <1>2, <1>3, AtIs
  <2>2. \A j \in 1..k : gr[j].p # p
    BY <2>1 DEF PagesIn
  <2>3. \A j \in 1..m : gr[j].p # p
    BY <1>1, <2>2
  <2>4. p \notin PagesIn(gr, 1, m)
    BY <2>3 DEF PagesIn
  <2>5. QED
    BY <1>2, <1>3, <2>1, <2>4, AtIs
<1>4. CASE a # 0
  <2>0. p \in PagesIn(fr, 1, k)
    BY <1>2, <1>4, AtIs
  <2>1. a \in 1..k /\ fr[a].p = p /\ \A j \in a + 1..k : fr[j].p # p
    BY <1>2, <2>0, AtIs
  <2>2. a \in 1..m /\ gr[a].p = p
    BY <2>1
  <2>3. \A j \in a + 1..k : gr[j].p # p
    BY <2>1
  <2>4. \A j \in a + 1..m : gr[j].p # p
    BY <1>1, <2>1, <2>3
  <2>5. At(gr, m, p) = a
    BY <2>2, <2>4, AtUnique
  <2>6. p \in PagesIn(gr, 1, m) /\ p \in PagesIn(fr, 1, k)
    BY <2>1, <2>2 DEF PagesIn
  <2>7. QED
    BY <1>2, <2>5, <2>6
<1>5. QED
  BY <1>3, <1>4

\* Later frames of other pages do not count.
LEMMA AtLater ==
  \A fr, p : \A k, m \in Nat :
    k <= m /\ p \notin PagesIn(fr, k + 1, m) => At(fr, m, p) = At(fr, k, p)
BY AtSame

\* Page p once the first k frames are copied to file f.
LEMMA VersionIs ==
  ASSUME NEW f, NEW fr, NEW k, NEW p \in Pgno
  PROVE  Version(f, fr, k)[p] = IF p \in PagesIn(fr, 1, k) THEN fr[At(fr, k, p)].v ELSE f[p]
BY DEF Version, At

\* The pages of two runs of frames, one after the other.
LEMMA PagesInSplit ==
  \A fr : \A i, k, m \in Nat :
    i <= k + 1 /\ k <= m => PagesIn(fr, i, m) = PagesIn(fr, i, k) \cup PagesIn(fr, k + 1, m)
<1>1. SUFFICES ASSUME NEW fr, NEW i \in Nat, NEW k \in Nat, NEW m \in Nat, i <= k + 1, k <= m
               PROVE  PagesIn(fr, i, m) = PagesIn(fr, i, k) \cup PagesIn(fr, k + 1, m)
  OBVIOUS
<1>2. i..m = i..k \cup k + 1..m
  BY <1>1
<1>3. QED
  BY <1>2 DEF PagesIn

\* The same after the first i frames.
LEMMA PagesInAfter ==
  \A fr : \A i, k, m \in Nat :
    i <= k /\ k <= m => PagesIn(fr, i + 1, m) = PagesIn(fr, i + 1, k) \cup PagesIn(fr, k + 1, m)
<1>1. SUFFICES ASSUME NEW fr, NEW i \in Nat, NEW k \in Nat, NEW m \in Nat, i <= k, k <= m
               PROVE  PagesIn(fr, i + 1, m) = PagesIn(fr, i + 1, k) \cup PagesIn(fr, k + 1, m)
  OBVIOUS
<1>2. i + 1..m = i + 1..k \cup k + 1..m
  BY <1>1
<1>3. QED
  BY <1>2 DEF PagesIn

\* No frames, no pages ...
LEMMA PagesInNone == \A fr : \A k \in Nat : PagesIn(fr, k + 1, k) = {}
<1>1. \A k \in Nat : k + 1..k = {}
  OBVIOUS
<1>2. QED
  BY <1>1 DEF PagesIn

\* ... and equal frames have equal pages.
LEMMA PagesInSame ==
  ASSUME NEW fr, NEW gr, NEW i, NEW k, \A j \in i..k : gr[j] = fr[j]
  PROVE  PagesIn(gr, i, k) = PagesIn(fr, i, k)
BY DEF PagesIn

\* The end of the first transaction after frame k.
LEMMA NextCommitIs ==
  ASSUME NEW fr, Len(fr) \in Nat, NEW k \in Nat
  PROVE  /\ (\A i \in k + 1..Len(fr) : fr[i].commit = 0) => NextCommit(fr, k) = 0
         /\ \A e \in k + 1..Len(fr) :
              fr[e].commit # 0 /\ (\A i \in k + 1..e - 1 : fr[i].commit = 0) => NextCommit(fr, k) = e
<1> DEFINE I == {i \in k + 1..Len(fr) : fr[i].commit # 0}
<1>1. NextCommit(fr, k) = IF I # {} THEN Min(I) ELSE 0
  BY DEF NextCommit, SelectInSubSeq
<1>2. ASSUME NEW e \in k + 1..Len(fr), fr[e].commit # 0, \A i \in k + 1..e - 1 : fr[i].commit = 0
      PROVE  NextCommit(fr, k) = e
  <2>1. e \in I /\ I \in SUBSET (1..Len(fr)) /\ I # {}
    BY <1>2
  <2>2. Min(I) \in I /\ \A i \in I : Min(I) <= i
    BY <2>1, Extremes
  <2>3. Min(I) <= e /\ ~(Min(I) < e) /\ Min(I) \in Nat
    BY <1>2, <2>1, <2>2
  <2>4. QED
    BY <1>1, <2>1, <2>3
<1>3. (\A i \in k + 1..Len(fr) : fr[i].commit = 0) => I = {}
  OBVIOUS
<1>4. QED
  BY <1>1, <1>2, <1>3

\* The end of the last transaction in the log.
LEMMA LastCommitIs ==
  ASSUME NEW fr, Len(fr) \in Nat, NEW e \in 0..Len(fr), e # 0 => fr[e].commit # 0,
         \A i \in e + 1..Len(fr) : fr[i].commit = 0
  PROVE  LastCommit(fr) = e
<1> DEFINE I == {i \in 1..Len(fr) : fr[i].commit # 0}
<1>1. LastCommit(fr) = IF I # {} THEN Max(I) ELSE 0
  BY DEF LastCommit, SelectLastInSeq
<1>2. CASE e = 0
  BY <1>1, <1>2
<1>3. CASE e # 0
  <2>1. e \in I /\ I \in SUBSET (1..Len(fr)) /\ I # {}
    BY <1>3
  <2>2. Max(I) \in I /\ \A i \in I : i <= Max(I)
    BY <2>1, Extremes
  <2>3. Max(I) >= e /\ ~(Max(I) > e) /\ Max(I) \in Nat
    BY <2>1, <2>2
  <2>4. QED
    BY <1>1, <2>1, <2>3
<1>4. QED
  BY <1>2, <1>3

\* Whatever is in the log, its last transaction ends within it.
LEMMA LastCommitIn ==
  ASSUME NEW fr, Len(fr) \in Nat
  PROVE  /\ LastCommit(fr) \in 0..Len(fr)
         /\ LastCommit(fr) # 0 => fr[LastCommit(fr)].commit # 0
<1> DEFINE I == {i \in 1..Len(fr) : fr[i].commit # 0}
<1>1. LastCommit(fr) = IF I # {} THEN Max(I) ELSE 0
  BY DEF LastCommit, SelectLastInSeq
<1>2. I # {} => Max(I) \in I
  BY Extremes
<1>3. QED
  BY <1>1, <1>2

-----------------------------------------------------------------------------
(* The inductive invariant of what clients see and what is committed. *)

\* What connections may do in it: checkpoint beside a writer, and keep the salts
\* of the wal-index.
Regular == Clients \subseteq {"passive", "salts"}

New           == ltx[Len(ltx)]
Same(f, g, S) == \A p \in S : f[p] = g[p]

\* f is a database of n pages and nothing else.
Whole(f, n) == n \in Pgno /\ f[1].n = n /\ \A p \in Pgno : p <= n <=> f[p] # Absent

\* Where LiteFS has read the log to, and the steps that may be taken with a log.
End     == IF wal.salt = 0 THEN 0 ELSE dbw.offset
Logging == {"idle", "begin", "tx", "framed", "unlock", "synced"}
Active  == Running /\ pc \in Logging

Typed ==
  /\ TypeOK /\ left.tx <= Budget.tx /\ ltx # <<>>
  /\ \A w \in wdisk : w.salt = 0 => w.fr = <<>>

\* No salt is newer than the newest transaction, and those of its header are new.
Used == Budget.tx - left.tx + 1
Seen == IF pc = "begin" THEN Used - 1 ELSE Used

SaltsSeen ==
  /\ pc = "begin" => cl.v.tx = Used
  /\ \A w \in wdisk : w.salt <= Seen
  /\ index.salt <= Seen /\ dbw.salt <= Seen
  /\ \A k \in 1..Len(ltx) : ltx[k].salt <= Seen

Chained ==
  /\ LTXChain
  /\ \A k \in 1..Len(ltx) :
       /\ ltx[k].pages \subseteq 1..ltx[k].n
       /\ Same(ltx[k].post, ltx[k].data, ltx[k].pages)
       /\ Whole(ltx[k].post, ltx[k].n)

\* Who holds the locks where, and whether there is a log then.
Roles ==
  /\ role = "primary" => pc \notin {"recover", "resize", "reset", "init"}
  /\ role = "leaving" => pc \notin {"recover", "init"}
  /\ role = "replica" => pc \in {"idle", "apply", "verify"} /\ wal.salt = 0
  /\ role = "opening" => pc \in {"recover", "resize", "reset", "init", "apply", "verify"}
  /\ role \in {"down", "failed"} => pc = "idle"
  /\ role \notin {"primary", "leaving"} => index.mx = 0 /\ ck = NoCkpt
  /\ pc \notin Logging => ck = NoCkpt
  /\ pc \in {"import", "init", "apply", "verify"} => wal.salt = 0
  /\ pc \in {"resize", "reset"} => wal.salt # 0
  /\ wal.salt = 0 \/ role = "down" => /\ dbw.frameOffsets = NewDBWAL.frameOffsets
                                      /\ dbw.chksums = NewDBWAL.chksums

\* The pages that the newest LTX file leaves alone are those of the position.
Based == Same(New.post, pos.sum, 1..New.n \ New.pages) /\ 1..New.n \ New.pages \subseteq 1..pageN

\* The position is a database, that of the newest LTX file unless it is applied.
Position ==
  Running =>
    /\ pc # "verify" => Whole(pos.sum, pageN)
    /\ pc \notin {"apply", "verify"} => pos.sum = New.post
    /\ pc = "apply" => Based

\* SQLite and LiteFS agree on the end of the log; no transaction ends after it but
\* the one that is about to be published.
Unpublished ==
  /\ index.mx = End /\ index.n = pageN
  /\ End <= Len(wal.fr)
  /\ End > 0 => wal.fr[End].commit = pageN
  /\ \A i \in End + 1..Len(wal.fr) : wal.fr[i].commit # 0 => pc = "framed" /\ i = Len(wal.fr)

\* A transaction that writes the pages S of a database of m pages and leaves n.
Writes(S, m, n) == S \subseteq 1..n /\ m + 1..n \subseteq S /\ (n # m => 1 \in S)

\* Or SQLite has published one transaction that CommitWAL has yet to read.
Published ==
  /\ pc \in {"unlock", "synced"} /\ wal.salt # 0
  /\ index.mx = Len(wal.fr) /\ End < index.mx
  /\ wal.fr[index.mx].commit = index.n /\ index.n \in Pgno
  /\ \A i \in End + 1..index.mx - 1 : wal.fr[i].commit = 0
  /\ \A i \in End + 1..index.mx : wal.fr[i].v.n = index.n
  /\ Writes(PagesIn(wal.fr, End + 1, index.mx), pageN, index.n)

Ends ==
  /\ Active => Unpublished \/ Published
  /\ role = "leaving" /\ pc = "resize" => Unpublished

\* The client that writes: the frames since the end of the log are its own.
Transaction ==
  pc \in {"begin", "tx", "framed"} =>
    /\ cl.at \in index.mx..Len(wal.fr) /\ cl.v \in Value
    /\ pc = "begin" => cl.at = index.mx
    /\ pc # "begin" => wal.salt # 0
    /\ pc # "framed" => cl.w # {}
    /\ pc = "framed" => /\ cl.w = {} /\ cl.at = Len(wal.fr) /\ cl.at > index.mx
                        /\ wal.fr[cl.at].commit = cl.v.n
    /\ \A i \in index.mx + 1..cl.at : wal.fr[i].v = cl.v
    /\ Writes(cl.w \cup PagesIn(wal.fr, index.mx + 1, cl.at), index.n, cl.v.n)

\* The client that checkpoints: the log is not restarted under it.
Checkpoint ==
  /\ ck # NoCkpt => ck.st # "idle" /\ index.bf < index.mx
  /\ ck.st = "copy" =>
       /\ ck.mx \in index.bf + 1..index.mx
       /\ ck.mx = index.mx => ck.n = index.n
       /\ ck.todo \subseteq PagesIn(wal.fr, index.bf + 1, ck.mx)

\* The pages whose last version may be in the log only.
Behind ==
  IF ck.st = "copy" THEN ck.todo \cup PagesIn(wal.fr, ck.mx + 1, index.mx)
  ELSE PagesIn(wal.fr, index.bf + 1, index.mx)

\* The database at the position is in the log that LiteFS has read ...
InLog ==
  \A p \in 1..pageN \cap PagesIn(wal.fr, 1, End) : wal.fr[At(wal.fr, End, p)].v = pos.sum[p]

\* ... and for the other pages in the file.
Untouched ==
  \A p \in 1..pageN \ PagesIn(wal.fr, 1, index.mx) : file[p] = pos.sum[p] /\ sums[p] = pos.sum[p]

\* The file has the last version of every page that is not behind, and its checksum.
Copied ==
  \A p \in 1..index.n \ Behind :
    /\ sums[p] = file[p]
    /\ p \in PagesIn(wal.fr, 1, index.mx) => file[p] = wal.fr[At(wal.fr, index.mx, p)].v

\* DB.wal: the last frame of each page, and the checksums of those in the log.
Offsets == \A p \in Pgno : dbw.frameOffsets[p] = At(wal.fr, End, p)

LogSums ==
  \A p \in 1..pageN :
    /\ dbw.chksums[p] = NoSum <=> p \notin PagesIn(wal.fr, 1, End)
    /\ dbw.chksums[p] # NoSum => dbw.chksums[p] = pos.sum[p]

Held == InLog /\ Untouched /\ Copied /\ Offsets /\ LogSums

Contents ==
  /\ Active => Held
  /\ role = "leaving" /\ pc \in {"resize", "reset"} =>
       Same(file, pos.sum, 1..pageN) /\ Same(sums, pos.sum, 1..pageN)

\* A checksum is that of the file, or missing, where an LTX file does not set it; an
\* import sets them all.
Applying ==
  /\ pc = "apply" => \A p \in 1..New.n \ New.pages : sums[p] \in {file[p], Absent}
  /\ pc = "verify" => \A p \in 1..New.n : sums[p] \in {file[p], Absent}
  /\ pc = "apply" /\ role = "replica" =>
       Same(file, pos.sum, 1..pageN) /\ Same(sums, pos.sum, 1..pageN)
  /\ pc = "apply" /\ role \in {"primary", "leaving"} => New.pages = 1..New.n
  /\ pc = "verify" /\ role \in {"primary", "leaving"} => Same(sums, New.post, 1..New.n)

Inv ==
  /\ Typed /\ SaltsSeen /\ Chained /\ Roles /\ Position
  /\ Ends /\ Transaction /\ Checkpoint /\ Contents /\ Applying

-----------------------------------------------------------------------------
(* Files, frames and types. *)

\* Page 1 is a page, and a page that is absent counts none.
LEMMA PageFacts ==
  /\ MaxPage \in Nat /\ MaxPage >= 1 /\ 1 \in Pgno
  /\ Pgno \subseteq Nat /\ Pgno \subseteq 0..MaxPage
  /\ Absent.n = 0 /\ Absent.tx = 0 /\ Absent \notin Value /\ Absent # NoSum
  /\ NoSum \notin Value
<1>1. MaxPage \in Nat /\ MaxPage >= 1 /\ 1 \in Pgno /\ Pgno \subseteq Nat /\ Pgno \subseteq 0..MaxPage
  BY PageAssumption DEF Pgno
<1>2. Absent.n = 0 /\ Absent.tx = 0 /\ NoSum.tx = -1 /\ 0 # -1
  BY DEF Absent, NoSum
<1>3. \A v \in Value : v.tx \in 1..Budget.tx + 1
  BY DEF Value
<1>4. 0 \notin 1..Budget.tx + 1 /\ -1 \notin 1..Budget.tx + 1
  BY BudgetAssumption
<1>5. QED
  BY <1>1, <1>2, <1>3, <1>4

\* A value counts pages.
LEMMA ValueIs ==
  ASSUME NEW v \in Value
  PROVE  v.n \in Pgno /\ v.tx \in 1..Budget.tx + 1 /\ v # Absent /\ v # NoSum
BY PageFacts DEF Value

\* The number of transactions begun.
LEMMA UsedType ==
  Typed => Used \in Nat /\ Used >= 1 /\ Used <= Budget.tx + 1 /\ left.tx \in 0..Budget.tx
<1>1. Budget.tx \in Nat
  BY BudgetAssumption
<1>2. Typed => left.tx \in Nat /\ left.tx <= Budget.tx
  BY DEF Typed, TypeOK
<1>3. QED
  BY <1>1, <1>2 DEF Used

\* What is made of files is a file.
LEMMA FileOps ==
  ASSUME NEW f \in File, NEW g \in File, NEW S, NEW n, NEW m
  PROVE  /\ Trim(f, n) \in File /\ Content(f) \in File
         /\ Overlay(f, S, g) \in File /\ Resized(f, n, m) \in File
BY PageFacts DEF Trim, Content, Overlay, Resized, File

\* The header of a file counts pages.
LEMMA SizeType == \A f \in File : Size(f) \in 0..MaxPage
<1>1. SUFFICES ASSUME NEW f \in File PROVE f[1].n \in 0..MaxPage
  BY DEF Size
<1>2. f[1] \in Value \/ f[1] = Absent
  BY PageFacts DEF File
<1>3. f[1] \in Value => f[1].n \in Pgno
  BY ValueIs
<1>4. Pgno \subseteq 0..MaxPage /\ 0 \in 0..MaxPage /\ Absent.n = 0
  BY PageFacts
<1>5. QED
  BY <1>2, <1>3, <1>4

\* Files and logs that TypeOK speaks of.
LEMMA LogFacts ==
  ASSUME Typed
  PROVE  /\ wal \in Log /\ wal.fr \in Seq(Frame) /\ wal.salt \in Nat /\ wal.gen \in Nat
         /\ wal.size \in Nat /\ Len(wal.fr) \in Nat
         /\ \A i \in 1..Len(wal.fr) : /\ wal.fr[i] \in Frame /\ wal.fr[i].p \in Pgno
                                      /\ wal.fr[i].v \in Value /\ wal.fr[i].commit \in 0..MaxPage
         /\ wal.salt = 0 => wal.fr = <<>> /\ Len(wal.fr) = 0
         /\ dbw.offset \in Nat /\ End \in Nat /\ index.mx \in Nat /\ index.bf \in Nat
<1>1. wal \in Log /\ wal \in wdisk
  BY DEF Typed, TypeOK
<1>2. wal.fr \in Seq(Frame) /\ wal.salt \in Nat /\ wal.gen \in Nat /\ wal.size \in Nat
  BY <1>1 DEF Log
<1>3. Len(wal.fr) \in Nat /\ \A i \in 1..Len(wal.fr) : wal.fr[i] \in Frame
  BY <1>2, LenProperties, ElementOfSeq
<1>4. \A e \in Frame : e.p \in Pgno /\ e.v \in Value /\ e.commit \in 0..MaxPage
  BY DEF Frame
<1>5. wal.salt = 0 => wal.fr = <<>> /\ Len(wal.fr) = 0
  BY <1>1, EmptySeq DEF Typed
<1>6. dbw.offset \in Nat /\ index.mx \in Nat /\ index.bf \in Nat
  BY DEF Typed, TypeOK
<1>7. End \in Nat
  BY <1>6 DEF End
<1>8. QED
  BY <1>1, <1>2, <1>3, <1>4, <1>5, <1>6, <1>7

\* Pages of frames are pages.
LEMMA PagesInType ==
  ASSUME NEW fr \in Seq(Frame), NEW i \in Nat \ {0}, NEW k \in 0..Len(fr)
  PROVE  PagesIn(fr, i, k) \subseteq Pgno
<1>1. Len(fr) \in Nat
  BY LenProperties
<1>2. \A j \in i..k : j \in 1..Len(fr)
  BY <1>1
<1>3. \A j \in i..k : fr[j] \in Frame
  BY <1>2, ElementOfSeq
<1>4. QED
  BY <1>3 DEF PagesIn, Frame

\* A file with pages of the log is a file.
LEMMA VersionType ==
  ASSUME NEW fr \in Seq(Frame), NEW k \in 0..Len(fr), NEW f \in File
  PROVE  Version(f, fr, k) \in File
<1>1. Len(fr) \in Nat /\ k \in Nat
  BY LenProperties
<1>2. ASSUME NEW p \in Pgno PROVE Version(f, fr, k)[p] \in Value \cup {Absent}
  <2>1. CASE p \in PagesIn(fr, 1, k)
    <3>1. At(fr, k, p) \in 1..k
      BY <1>1, <2>1, AtIs
    <3>2. At(fr, k, p) \in 1..Len(fr)
      BY <1>1, <3>1
    <3>3. fr[At(fr, k, p)] \in Frame
      BY <3>2, ElementOfSeq
    <3>4. QED
      BY <2>1, <3>3, VersionIs DEF Frame
  <2>2. CASE p \notin PagesIn(fr, 1, k)
    BY <2>2, VersionIs DEF File
  <2>3. QED
    BY <2>1, <2>2
<1>3. Version(f, fr, k) = [p \in Pgno |-> Version(f, fr, k)[p]]
  BY DEF Version
<1>4. QED
  BY <1>2, <1>3 DEF File

\* The newest LTX file and its database.
LEMMA NewFacts ==
  ASSUME Typed
  PROVE  /\ Len(ltx) \in Nat /\ Len(ltx) >= 1 /\ Last(ltx) = New /\ New \in LTX
         /\ New.n \in Pgno /\ New.pages \subseteq Pgno /\ New.data \in File /\ New.post \in File
         /\ New.salt \in Nat /\ New.off \in Nat /\ New.size \in Nat
         /\ Chained => /\ New.pages \subseteq 1..New.n /\ Whole(New.post, New.n)
                       /\ Same(New.post, New.data, New.pages)
<1>1. Len(ltx) \in Nat /\ Len(ltx) >= 1 /\ ltx \in Seq(LTX)
  BY LenProperties, EmptySeq DEF Typed, TypeOK
<1>2. New \in LTX
  BY <1>1, ElementOfSeq DEF New
<1>3. Last(ltx) = New
  BY DEF Last, New
<1>4. ASSUME Chained
      PROVE  /\ New.pages \subseteq 1..New.n /\ Whole(New.post, New.n)
             /\ Same(New.post, New.data, New.pages)
  BY <1>1, <1>4 DEF Chained, New
<1>5. QED
  BY <1>1, <1>2, <1>3, <1>4 DEF LTX

\* A transaction that begins has a new number.
LEMMA Spent ==
  ASSUME Typed, Spend("tx")
  PROVE  /\ left' \in [tx : Nat, demote : Nat, crash : Nat] /\ left'.tx <= Budget.tx
         /\ Used \in Nat /\ Used' = Used + 1 /\ NextTx = Used' /\ NextTx \in 1..Budget.tx + 1
<1>1. left \in [tx : Nat, demote : Nat, crash : Nat] /\ left.tx <= Budget.tx
  BY DEF Typed, TypeOK
<1>2. left.tx > 0 /\ left' = [left EXCEPT !.tx = left.tx - 1]
  BY <1>1 DEF Spend
<1>3. left'.tx = left.tx - 1 /\ left.tx - 1 \in Nat
  BY <1>1, <1>2
<1>4. left' \in [tx : Nat, demote : Nat, crash : Nat]
  BY <1>1, <1>2, <1>3
<1>5. Budget.tx \in Nat /\ left.tx \in Nat
  BY <1>1, BudgetAssumption
<1>6. QED
  BY <1>1, <1>2, <1>3, <1>4, <1>5 DEF Used, NextTx

\* A demotion or a power loss is counted as well.
LEMMA SpentOther ==
  ASSUME Typed, NEW e \in {"demote", "crash"}, Spend(e)
  PROVE  left' \in [tx : Nat, demote : Nat, crash : Nat] /\ left'.tx = left.tx /\ Used' = Used
<1>1. left \in [tx : Nat, demote : Nat, crash : Nat]
  BY DEF Typed, TypeOK
<1>2. left[e] \in Nat /\ left[e] > 0 /\ left' = [left EXCEPT ![e] = left[e] - 1]
  BY <1>1 DEF Spend
<1>3. left[e] - 1 \in Nat
  BY <1>2
<1>4. left' \in [tx : Nat, demote : Nat, crash : Nat] /\ left'.tx = left.tx
  BY <1>1, <1>2, <1>3
<1>5. QED
  BY <1>4 DEF Used

\* The log after a write ...
LEMMA WriteLogTyped ==
  ASSUME Typed, NEW w \in Log, w.salt = 0 => w.fr = <<>>, WriteLog(w)
  PROVE  /\ wal' = w /\ wal' \in Log /\ wdisk' \subseteq Log /\ wal' \in wdisk'
         /\ wdisk' = wdisk \cup {w} /\ \A x \in wdisk' : x.salt = 0 => x.fr = <<>>
BY DEF Typed, TypeOK, WriteLog

\* ... after a sync ...
LEMMA SyncLogTyped ==
  ASSUME NEW w \in Log, w.salt = 0 => w.fr = <<>>, SyncLog(w)
  PROVE  /\ wal' \in Log /\ wdisk' \subseteq Log /\ wal' \in wdisk' /\ wdisk' = {wal'}
         /\ \A x \in wdisk' : x.salt = 0 => x.fr = <<>>
         /\ wal'.salt = w.salt /\ wal'.fr = w.fr /\ wal'.size = w.size
<1> DEFINE x == [w EXCEPT !.gen = 0]
<1>1. x \in Log /\ x.salt = w.salt /\ x.fr = w.fr /\ x.size = w.size
  BY DEF Log
<1>2. wal' = x /\ wdisk' = {x}
  BY DEF SyncLog
<1> HIDE DEF x
<1>3. QED
  BY <1>1, <1>2

\* ... and when it is truncated or removed.
LEMMA ClearLogTyped ==
  ASSUME Typed, ClearLog
  PROVE  /\ wal' \in Log /\ wdisk' \subseteq Log /\ wal' \in wdisk' /\ wdisk' = wdisk \cup {wal'}
         /\ \A x \in wdisk' : x.salt = 0 => x.fr = <<>>
         /\ wal'.salt = 0 /\ wal'.fr = <<>> /\ Len(wal'.fr) = 0 /\ wal'.size = 0
<1> DEFINE x == [NoLog EXCEPT !.gen = wal.gen + 1]
<1>1. wal.gen + 1 \in Nat
  BY LogFacts
<1>2. x = [gen |-> wal.gen + 1, salt |-> 0, fr |-> <<>>, size |-> 0]
  BY DEF NoLog
<1>3. WriteLog(x)
  BY DEF ClearLog
<1> HIDE DEF x
<1>4. x \in Log /\ x.salt = 0 /\ x.fr = <<>> /\ x.size = 0
  BY <1>1, <1>2, EmptySeq DEF Log
<1>5. QED
  BY <1>3, <1>4, WriteLogTyped, EmptySeq

\* An fsync of another file leaves the visible log and adds none.
LEMMA SettledTyped ==
  ASSUME Typed
  PROVE  Settled \subseteq wdisk /\ wal \in Settled /\ Settled \subseteq Log
BY DEF Typed, TypeOK, Settled

\* The database after a write or a sync.
LEMMA WriteTyped ==
  ASSUME Typed, NEW f \in File, Write(f) \/ Sync(f)
  PROVE  file' \in File /\ disk' \in [Pgno -> SUBSET (Value \cup {Absent})]
<1>1. disk \in [Pgno -> SUBSET (Value \cup {Absent})]
  BY DEF Typed, TypeOK
<1>2. QED
  BY <1>1 DEF Write, Sync, File

\* DB.wal when the log is gone.
LEMMA ClearedTyped ==
  ASSUME Typed
  PROVE  /\ ClearedDBWAL \in [offset : Nat, salt : Nat, frameOffsets : [Pgno -> Nat],
                              chksums : [Pgno -> Value \cup {Absent, NoSum}]]
         /\ ClearedDBWAL.salt = dbw.salt /\ ClearedDBWAL.offset = dbw.offset
         /\ ClearedDBWAL.frameOffsets = NewDBWAL.frameOffsets
         /\ ClearedDBWAL.chksums = NewDBWAL.chksums
<1>1. /\ NewDBWAL.frameOffsets \in [Pgno -> Nat]
      /\ NewDBWAL.chksums \in [Pgno -> Value \cup {Absent, NoSum}]
  BY DEF NewDBWAL
<1>2. dbw \in [offset : Nat, salt : Nat, frameOffsets : [Pgno -> Nat],
               chksums : [Pgno -> Value \cup {Absent, NoSum}]]
  BY DEF Typed, TypeOK
<1>3. QED
  BY <1>1, <1>2 DEF ClearedDBWAL

\* What is in the log and the file stays so while nobody touches them; the pages
\* that are behind may grow.
LEMMA HeldKept ==
  ASSUME Held, UNCHANGED <<file, sums, pos, pageN, dbw, index>>,
         wal'.fr = wal.fr, wal'.salt = wal.salt, Behind \cap 1..index.n \subseteq Behind'
  PROVE  Held'
<1>1. End' = End
  BY DEF End
<1>2. InLog' /\ Untouched'
  BY <1>1 DEF Held, InLog, Untouched
<1>3. Copied'
  BY DEF Held, Copied
<1>4. Offsets' /\ LogSums'
  BY <1>1 DEF Held, Offsets, LogSums
<1>5. QED
  BY <1>2, <1>3, <1>4 DEF Held

\* A step of a client or of CommitWAL is taken on a node that runs.
LEMMA WriterRuns ==
  ASSUME Typed, Roles, pc \in {"begin", "tx", "framed", "unlock", "synced", "import"}
  PROVE  role \in {"primary", "leaving"} /\ Running
BY DEF Typed, TypeOK, Roles, Running

\* No salt is newer than the newest transaction.
LEMMA SaltsUsed ==
  ASSUME Typed, SaltsSeen
  PROVE  /\ Used \in Nat /\ Used >= 1 /\ \A w \in wdisk : w.salt \in Nat /\ w.salt <= Used
         /\ wal.salt <= Used /\ index.salt \in Nat /\ index.salt <= Used
         /\ dbw.salt \in Nat /\ dbw.salt <= Used
         /\ \A k \in 1..Len(ltx) : ltx[k].salt \in Nat /\ ltx[k].salt <= Used
<1>1. Used \in Nat /\ Used >= 1 /\ Seen \in {Used - 1, Used} /\ Seen <= Used
  BY UsedType DEF Seen
<1>2. \A w \in wdisk : w.salt \in Nat /\ w.salt <= Seen
  BY DEF SaltsSeen, Typed, TypeOK, Log
<1>3. index.salt \in Nat /\ index.salt <= Seen /\ dbw.salt \in Nat /\ dbw.salt <= Seen /\ wal \in wdisk
  BY DEF SaltsSeen, Typed, TypeOK
<1>4. \A k \in 1..Len(ltx) : ltx[k].salt \in Nat /\ ltx[k].salt <= Seen
  <2>1. \A k \in 1..Len(ltx) : ltx[k] \in LTX
    BY ElementOfSeq DEF Typed, TypeOK
  <2>2. QED
    BY <2>1 DEF SaltsSeen, LTX
<1>5. QED
  BY <1>1, <1>2, <1>3, <1>4

-----------------------------------------------------------------------------
(* A client that writes keeps the invariant. *)

\* The transaction begins.
LEMMA InvBeginWrite ==
  ASSUME Inv, NEW n \in Pgno, NEW w \in SUBSET Pgno, BeginWrite(n, w)
  PROVE  Inv'
<1>0. /\ Typed /\ pc = "idle" /\ pc' = "begin" /\ role = "primary" /\ Spend("tx")
      /\ UNCHANGED <<dbfile, log, ltx, index, memory, role, ck>>
      /\ cl' = [w |-> w, v |-> [tx |-> NextTx, n |-> n], at |-> index.mx]
      /\ w # {} /\ Writes(w, index.n, n)
  BY DEF Inv, BeginWrite, Writes
<1>1. /\ left' \in [tx : Nat, demote : Nat, crash : Nat] /\ left'.tx <= Budget.tx
      /\ Used \in Nat /\ Used' = Used + 1 /\ NextTx = Used' /\ NextTx \in 1..Budget.tx + 1
  BY <1>0, Spent
<1>2. [tx |-> NextTx, n |-> n] \in Value
  BY <1>1 DEF Value
<1>3. /\ cl'.w = w /\ cl'.v = [tx |-> NextTx, n |-> n] /\ cl'.at = index.mx
      /\ cl'.v \in Value /\ cl'.v.tx = NextTx /\ cl'.v.n = n
  BY <1>0, <1>2
<1>4. cl' \in [w : SUBSET Pgno, v : Value \cup {Absent}, at : Nat]
  BY <1>0, <1>2, LogFacts
<1>5. Typed'
  BY <1>0, <1>1, <1>4 DEF Typed, TypeOK, dbfile, log, memory
<1>6. SaltsSeen'
  <2>1. Seen' = Seen
    BY <1>0, <1>1 DEF Seen
  <2>2. QED
    BY <1>0, <1>1, <1>3, <2>1 DEF Inv, SaltsSeen, log, memory
<1>7. Chained' /\ Roles' /\ Position'
  BY <1>0 DEF Inv, Chained, LTXChain, Roles, Position, Running, New, log, memory, Logging
<1>8. Active /\ Active' /\ Unpublished
  BY <1>0 DEF Inv, Ends, Active, Running, Logging, Published
<1>9. Unpublished' /\ Ends'
  <2>1. End' = End
    BY <1>0 DEF End, log, memory
  <2>2. Unpublished'
    BY <1>0, <1>8, <2>1 DEF Unpublished, log, memory
  <2>3. QED
    BY <1>0, <2>2 DEF Ends
<1>10. Transaction'
  <2>1. index.mx \in index.mx..Len(wal.fr)
    BY <1>0, <1>8, LogFacts DEF Unpublished
  <2>2. PagesIn(wal.fr, index.mx + 1, index.mx) = {}
    BY <1>0, PagesInNone, LogFacts
  <2>3. index.mx + 1..index.mx = {}
    BY <1>0, LogFacts
  <2>4. wal' = wal /\ index' = index
    BY <1>0 DEF log
  <2>5. QED
    BY <1>0, <1>3, <2>1, <2>2, <2>3, <2>4 DEF Transaction
<1>11. Checkpoint'
  BY <1>0 DEF Inv, Checkpoint, log
<1>12. Held'
  BY <1>0, <1>8, HeldKept DEF Inv, Contents, Behind, log, memory, dbfile
<1>13. Contents' /\ Applying'
  BY <1>0, <1>12 DEF Contents, Applying
<1>14. QED
  BY <1>5, <1>6, <1>7, <1>9, <1>10, <1>11, <1>13 DEF Inv

\* Between transactions, once all of the log is in the file, it is the database.
LEMMA AllCopied ==
  ASSUME Inv, Active, Unpublished, index.bf = index.mx
  PROVE  ck = NoCkpt /\ Same(file, pos.sum, 1..pageN) /\ Same(sums, pos.sum, 1..pageN)
<1>0. Typed /\ Held /\ Checkpoint
  BY DEF Inv, Contents
<1>1. ck = NoCkpt
  BY <1>0, LogFacts DEF Checkpoint
<1>2. Behind = {}
  <2>1. ck.st # "copy"
    BY <1>1 DEF NoCkpt
  <2>2. PagesIn(wal.fr, index.bf + 1, index.mx) = {}
    BY <1>0, PagesInNone, LogFacts
  <2>3. QED
    BY <2>1, <2>2 DEF Behind
<1>3. ASSUME NEW p \in 1..pageN PROVE file[p] = pos.sum[p] /\ sums[p] = pos.sum[p]
  <2>1. CASE p \in PagesIn(wal.fr, 1, index.mx)
    BY <1>0, <1>2, <2>1 DEF Held, Copied, InLog, Unpublished
  <2>2. CASE p \notin PagesIn(wal.fr, 1, index.mx)
    BY <1>0, <2>2 DEF Held, Untouched
  <2>3. QED
    BY <2>1, <2>2
<1>4. QED
  BY <1>1, <1>3 DEF Same

\* With no frames in use the database is in the file.
Bare ==
  /\ Typed /\ End = 0 /\ index.mx = 0 /\ index.n = pageN /\ pageN \in Pgno /\ ck = NoCkpt
  /\ dbw.frameOffsets = NewDBWAL.frameOffsets /\ dbw.chksums = NewDBWAL.chksums
  /\ Same(file, pos.sum, 1..pageN) /\ Same(sums, pos.sum, 1..pageN)

\* It is then where the invariant says.
LEMMA BareHeld == Bare => Held
<1>1. SUFFICES ASSUME Bare PROVE Held
  OBVIOUS
<1>2. /\ index.bf = 0 /\ \A p \in Pgno : NewDBWAL.frameOffsets[p] = 0 /\ NewDBWAL.chksums[p] = NoSum
  <2>1. index.bf \in Nat /\ index.bf <= index.mx
    BY <1>1 DEF Bare, Typed, TypeOK
  <2>2. QED
    BY <1>1, <2>1 DEF Bare, NewDBWAL
<1>3. PagesIn(wal.fr, 1, 0) = {}
  BY PagesInNone
<1>4. 1..pageN \subseteq Pgno
  BY <1>1, PageFacts DEF Bare, Pgno
<1>5. InLog /\ Untouched /\ Copied
  BY <1>1, <1>3 DEF Bare, InLog, Untouched, Copied, Same
<1>6. Offsets
  <2>1. \A p \in Pgno : At(wal.fr, 0, p) = 0
    BY <1>3, AtIs
  <2>2. QED
    BY <1>1, <1>2, <2>1 DEF Bare, Offsets
<1>7. LogSums
  BY <1>1, <1>2, <1>3, <1>4 DEF Bare, LogSums
<1>8. QED
  BY <1>5, <1>6, <1>7 DEF Held

\* The same after a step.
LEMMA BareHeldNext == (Bare => Held)'
BY BareHeld, PTL

\* SQLite writes a header: the log starts again, and no frame that is still valid
\* behind it ends a transaction.
LEMMA InvWriteWALHeader ==
  ASSUME Inv, NEW s \in Salts, WriteWALHeader(s)
  PROVE  Inv'
<1> DEFINE x == [wal EXCEPT !.salt = s, !.fr = IF s = wal.salt THEN @ ELSE <<>>]
<1>0. /\ Typed /\ pc = "begin" /\ pc' = "tx" /\ role = "primary" /\ index.bf = index.mx
      /\ UNCHANGED <<dbfile, ltx, pos, pageN, sums, role, ck, left>> /\ SyncLog(x)
      /\ dbw' = HeaderWritten(s) /\ cl' = [cl EXCEPT !.at = 0]
      /\ index' = [index EXCEPT !.mx = 0, !.bf = 0, !.salt = s]
  BY DEF Inv, WriteWALHeader
<1>1. Active /\ Active' /\ Unpublished /\ Transaction
  BY <1>0 DEF Inv, Ends, Active, Running, Logging, Published
<1>2. Same(file, pos.sum, 1..pageN) /\ Same(sums, pos.sum, 1..pageN) /\ ck = NoCkpt
  BY <1>0, <1>1, AllCopied
<1>3. /\ wal.fr \in Seq(Frame) /\ wal \in Log /\ wal.salt \in Nat /\ Len(wal.fr) \in Nat
      /\ index \in [mx : Nat, bf : Nat, n : 0..MaxPage, salt : Nat]
      /\ cl \in [w : SUBSET Pgno, v : Value \cup {Absent}, at : Nat] /\ wal \in wdisk
  BY <1>0, LogFacts DEF Typed, TypeOK
<1>4. /\ cl.v.tx = Used /\ Used \in Nat /\ Used >= 1 /\ Seen = Used - 1 /\ wal.salt <= Used - 1
      /\ index.salt <= Used - 1
  BY <1>0, <1>3, UsedType DEF Inv, SaltsSeen, Seen
<1>5. /\ s \in Nat /\ s # 0 /\ s <= Used
      /\ s = wal.salt => index.mx = 0
  BY <1>3, <1>4 DEF Salts
<1>6. x \in Log /\ x.salt = s /\ x.fr = IF s = wal.salt THEN wal.fr ELSE <<>>
  BY <1>3, <1>5, EmptySeq DEF Log
<1> HIDE DEF x
<1>7. /\ wal' \in Log /\ wdisk' \subseteq Log /\ wal' \in wdisk' /\ wdisk' = {wal'}
      /\ \A y \in wdisk' : y.salt = 0 => y.fr = <<>>
      /\ wal'.salt = s /\ wal'.fr = x.fr
  BY <1>0, <1>5, <1>6, SyncLogTyped
<1>8. /\ dbw'.offset = 0 /\ dbw'.salt = s
      /\ dbw'.frameOffsets = NewDBWAL.frameOffsets /\ dbw'.chksums = NewDBWAL.chksums
      /\ dbw' \in [offset : Nat, salt : Nat, frameOffsets : [Pgno -> Nat],
                   chksums : [Pgno -> Value \cup {Absent, NoSum}]]
  BY <1>0, <1>5 DEF HeaderWritten, NewDBWAL
<1>9. /\ index'.mx = 0 /\ index'.bf = 0 /\ index'.salt = s /\ index'.n = index.n
      /\ index' \in [mx : Nat, bf : Nat, n : 0..MaxPage, salt : Nat]
  BY <1>0, <1>3, <1>5
<1>10. /\ cl'.at = 0 /\ cl'.w = cl.w /\ cl'.v = cl.v
       /\ cl' \in [w : SUBSET Pgno, v : Value \cup {Absent}, at : Nat]
  BY <1>0, <1>3
<1>11. Len(wal'.fr) \in Nat /\ index'.bf <= index'.mx /\ index'.mx <= Len(wal'.fr)
  BY <1>3, <1>6, <1>7, <1>9, EmptySeq
<1>12. Typed'
  BY <1>0, <1>7, <1>8, <1>9, <1>10, <1>11 DEF Typed, TypeOK, dbfile
<1>13. SaltsSeen'
  <2>1. Seen' = Used /\ Used' = Used
    BY <1>0 DEF Seen, Used
  <2>2. QED
    BY <1>0, <1>5, <1>7, <1>8, <1>9, <2>1, SaltsUsed DEF Inv, SaltsSeen
<1>14. Chained' /\ Roles' /\ Position'
  BY <1>0, <1>2, <1>5, <1>7 DEF Inv, Chained, LTXChain, Roles, Position, Running, New, Logging
<1>15. End' = 0
  BY <1>8 DEF End
<1>16. Unpublished'
  <2>1. ASSUME NEW i \in 1..Len(wal'.fr) PROVE wal'.fr[i].commit = 0
    <3>1. CASE s = wal.salt
      BY <1>0, <1>1, <1>5, <1>6, <1>7, <3>1 DEF Unpublished
    <3>2. CASE s # wal.salt
      BY <1>6, <1>7, <3>2, EmptySeq
    <3>3. QED
      BY <3>1, <3>2
  <2>2. QED
    BY <1>0, <1>1, <1>9, <1>11, <1>15, <2>1 DEF Unpublished
<1>17. Ends'
  BY <1>0, <1>16 DEF Ends
<1>18. Transaction'
  <2>0. PagesIn(wal'.fr, 1, 0) = {}
    BY PagesInNone
  <2>1. PagesIn(wal.fr, index.mx + 1, index.mx) = {}
    BY <1>0, PagesInNone, LogFacts
  <2>2. cl.at = index.mx /\ cl.w # {} /\ cl.v \in Value /\ Writes(cl.w, index.n, cl.v.n)
    BY <1>0, <1>1, <2>1 DEF Transaction
  <2>3. 0 \in 0..Len(wal'.fr) /\ 0 + 1..0 = {} /\ 0 + 1 = 1
    BY <1>11
  <2>4. Writes(cl'.w \cup PagesIn(wal'.fr, index'.mx + 1, cl'.at), index'.n, cl'.v.n)
    BY <1>9, <1>10, <2>0, <2>2, <2>3
  <2>5. QED
    BY <1>0, <1>5, <1>7, <1>9, <1>10, <2>2, <2>3, <2>4 DEF Transaction
<1>19. Checkpoint'
  BY <1>0, <1>2 DEF Checkpoint, NoCkpt
<1>20. Held'
  <2>1. pageN \in Pgno /\ index'.n = pageN
    BY <1>0, <1>1, <1>9 DEF Inv, Position, Whole, Active, Unpublished
  <2>2. Bare'
    BY <1>0, <1>2, <1>8, <1>9, <1>12, <1>15, <2>1 DEF Bare, Same, dbfile
  <2>3. QED
    BY <2>2, BareHeldNext
<1>21. Contents' /\ Applying'
  BY <1>0, <1>20 DEF Contents, Applying
<1>22. QED
  BY <1>12, <1>13, <1>14, <1>17, <1>18, <1>19, <1>21 DEF Inv

\* Frames behind the end of the log change nothing of what is in it.
LEMMA LogGrows ==
  ASSUME Typed, Held, UNCHANGED <<file, sums, pos, pageN, dbw, index, ck>>,
         wal'.salt = wal.salt, \A i \in 1..index.mx : wal'.fr[i] = wal.fr[i],
         End <= index.mx, ck.st = "copy" => ck.mx \in Nat
  PROVE  Held'
<1>0. index.mx \in Nat /\ index.bf \in Nat /\ End \in Nat /\ End' = End
  BY LogFacts DEF End
<1>1. \A p : At(wal'.fr, index.mx, p) = At(wal.fr, index.mx, p)
  <2>1. \A p : p \notin PagesIn(wal'.fr, index.mx + 1, index.mx)
    BY <1>0, PagesInNone
  <2>2. QED
    BY <1>0, <2>1, AtSame
<1>2. \A p : At(wal'.fr, End, p) = At(wal.fr, End, p)
  <2>1. \A p : p \notin PagesIn(wal'.fr, End + 1, End)
    BY <1>0, PagesInNone
  <2>2. \A i \in 1..End : wal'.fr[i] = wal.fr[i]
    BY <1>0
  <2>3. QED
    BY <1>0, <2>1, <2>2, AtSame
<1>3. PagesIn(wal'.fr, 1, index.mx) = PagesIn(wal.fr, 1, index.mx)
  BY PagesInSame
<1>4. PagesIn(wal'.fr, 1, End) = PagesIn(wal.fr, 1, End)
  BY <1>0, PagesInSame
<1>5. Behind' = Behind
  <2>1. PagesIn(wal'.fr, index.bf + 1, index.mx) = PagesIn(wal.fr, index.bf + 1, index.mx)
    BY <1>0, PagesInSame
  <2>2. ck.st = "copy" =>
          PagesIn(wal'.fr, ck.mx + 1, index.mx) = PagesIn(wal.fr, ck.mx + 1, index.mx)
    BY <1>0, PagesInSame
  <2>3. QED
    BY <2>1, <2>2 DEF Behind
<1>6. Untouched'
  BY <1>3 DEF Held, Untouched
<1>7. Copied'
  <2>1. ASSUME NEW p \in 1..index.n \ Behind
        PROVE  /\ sums[p] = file[p]
               /\ p \in PagesIn(wal'.fr, 1, index.mx) => file[p] = wal'.fr[At(wal'.fr, index.mx, p)].v
    <3>1. /\ sums[p] = file[p]
          /\ p \in PagesIn(wal.fr, 1, index.mx) => file[p] = wal.fr[At(wal.fr, index.mx, p)].v
      BY DEF Held, Copied
    <3>2. p \in PagesIn(wal.fr, 1, index.mx) => At(wal.fr, index.mx, p) \in 1..index.mx
      BY <1>0, AtIs
    <3>3. QED
      BY <1>1, <1>3, <3>1, <3>2
  <2>2. QED
    BY <1>5, <2>1 DEF Copied
<1>8. InLog'
  <2>1. ASSUME NEW p \in 1..pageN, p \in PagesIn(wal.fr, 1, End)
        PROVE  wal'.fr[At(wal'.fr, End, p)].v = pos.sum[p]
    <3>1. wal.fr[At(wal.fr, End, p)].v = pos.sum[p]
      BY <2>1 DEF Held, InLog
    <3>2. At(wal.fr, End, p) \in 1..End
      BY <1>0, <2>1, AtIs
    <3>3. At(wal.fr, End, p) \in 1..index.mx
      BY <1>0, <3>2
    <3>4. QED
      BY <1>2, <3>1, <3>3
  <2>2. QED
    BY <1>0, <1>4, <2>1 DEF InLog
<1>9. Offsets' /\ LogSums'
  BY <1>0, <1>2, <1>4 DEF Held, Offsets, LogSums
<1>10. QED
  BY <1>6, <1>7, <1>8, <1>9 DEF Held

\* A frame that is written after the first k of the log.
LEMMA Appended ==
  ASSUME NEW fr \in Seq(Frame), NEW k \in 0..Len(fr), NEW e \in Frame,
         NEW g, g = Append(SubSeq(fr, 1, k), e)
  PROVE  /\ g \in Seq(Frame) /\ Len(g) = k + 1 /\ g[k + 1] = e
         /\ \A i \in 1..k : g[i] = fr[i]
<1>1. Len(fr) \in Nat /\ k \in Nat
  BY LenProperties
<1>2. PICK h : h = SubSeq(fr, 1, k)
  OBVIOUS
<1>3. h \in Seq(Frame) /\ Len(h) = k /\ \A i \in 1..k : h[i] = fr[i]
  BY <1>1, <1>2, SubSeqProperties
<1>4. g = Append(h, e)
  BY <1>2
<1>5. QED
  BY <1>1, <1>3, <1>4, AppendProperties

\* SQLite writes a frame.
LEMMA InvWriteWALFrame ==
  ASSUME Inv, WriteWALFrame
  PROVE  Inv'
<1> DEFINE p == CHOOSE q \in cl.w : \A r \in cl.w : q <= r
           last == cl.w = {p}
           e == [p |-> p, v |-> cl.v, commit |-> IF last THEN cl.v.n ELSE 0]
           g == Append(SubSeq(wal.fr, 1, cl.at), e)
           z == IF wal.size > cl.at THEN wal.size ELSE cl.at + 1
           x == [wal EXCEPT !.fr = g, !.size = z]
<1>0. /\ Typed /\ pc \in {"begin", "tx"} /\ pc' = (IF last THEN "framed" ELSE "tx")
      /\ role = "primary" /\ (pc = "begin" => index.mx > 0)
      /\ UNCHANGED <<dbfile, ltx, index, memory, role, ck, left>>
      /\ cl' = [cl EXCEPT !.w = @ \ {p}, !.at = @ + 1] /\ WriteLog(x)
  BY DEF Inv, WriteWALFrame
<1>1. Active /\ Active' /\ Unpublished /\ Transaction
  BY <1>0 DEF Inv, Ends, Active, Running, Logging, Published
<1>2. /\ wal.fr \in Seq(Frame) /\ wal \in Log /\ Len(wal.fr) \in Nat /\ wal.size \in Nat
      /\ index.mx \in Nat /\ index.bf \in Nat /\ End \in Nat /\ wal.salt \in Nat
      /\ cl \in [w : SUBSET Pgno, v : Value \cup {Absent}, at : Nat]
  BY <1>0, LogFacts DEF Typed, TypeOK
<1>3. /\ cl.at \in index.mx..Len(wal.fr) /\ cl.at \in 0..Len(wal.fr) /\ cl.at \in Nat
      /\ cl.v \in Value /\ cl.w # {} /\ cl.w \subseteq Pgno
  BY <1>0, <1>1, <1>2 DEF Transaction
<1>4. wal.salt # 0
  <2>1. pc = "tx" \/ index.mx # 0
    BY <1>0, <1>2
  <2>2. QED
    BY <1>0, <1>1, <2>1, LogFacts DEF Transaction, Unpublished, End
<1>5. p \in cl.w /\ p \in Pgno
  <2>1. cl.w \in SUBSET (1..MaxPage)
    BY <1>3 DEF Pgno
  <2>2. \E q \in cl.w : \A r \in cl.w : q <= r
    BY <1>3, <2>1, PageFacts, Extremes
  <2>3. QED
    BY <1>3, <2>2
<1> HIDE DEF p
<1>6. cl.v.n \in Pgno /\ cl.v.n # 0
  BY <1>3, ValueIs, PageFacts DEF Pgno
<1>7. e \in Frame /\ e.p = p /\ e.v = cl.v /\ (~last => e.commit = 0) /\ (last => e.commit = cl.v.n)
  <2>0. 0 \in 0..MaxPage /\ cl.v.n \in 0..MaxPage
    BY <1>6, PageFacts DEF Pgno
  <2>1. (IF last THEN cl.v.n ELSE 0) \in 0..MaxPage
    BY <2>0
  <2>2. QED
    BY <1>3, <1>5, <2>1 DEF Frame
<1> HIDE DEF e
<1>8. g \in Seq(Frame) /\ Len(g) = cl.at + 1 /\ g[cl.at + 1] = e /\ \A i \in 1..cl.at : g[i] = wal.fr[i]
  BY <1>2, <1>3, <1>7, Appended
<1>9. z \in Nat
  BY <1>2, <1>3
<1> HIDE DEF g, z
<1>10. x \in Log /\ x.salt = wal.salt /\ x.fr = g
  BY <1>2, <1>8, <1>9 DEF Log
<1> HIDE DEF x
<1>11. /\ wal' \in Log /\ wdisk' \subseteq Log /\ wal' \in wdisk' /\ wdisk' = wdisk \cup {wal'}
       /\ \A y \in wdisk' : y.salt = 0 => y.fr = <<>>
       /\ wal'.salt = wal.salt /\ wal'.fr = g
  BY <1>0, <1>4, <1>10, WriteLogTyped
<1>12. /\ cl'.w = cl.w \ {p} /\ cl'.v = cl.v /\ cl'.at = cl.at + 1
       /\ cl' \in [w : SUBSET Pgno, v : Value \cup {Absent}, at : Nat]
  <2>1. cl' = [cl EXCEPT !.w = cl.w \ {p}, !.at = cl.at + 1] /\ cl.at + 1 \in Nat
    BY <1>0, <1>3
  <2>2. QED
    BY <1>2, <2>1
<1>13. pc' \in {"tx", "framed"} /\ (last => pc' = "framed") /\ (~last => pc' = "tx")
  BY <1>0
<1> HIDE DEF last
<1>14. index'.mx <= Len(wal'.fr) /\ index'.bf <= index'.mx
  <2>1. index.bf <= index.mx
    BY <1>0 DEF Typed, TypeOK
  <2>2. index.mx <= cl.at + 1
    BY <1>2, <1>3
  <2>3. QED
    BY <1>0, <1>8, <1>11, <2>1, <2>2
<1>15. Typed'
  BY <1>0, <1>11, <1>12, <1>13, <1>14 DEF Typed, TypeOK, dbfile, memory
<1>16. SaltsSeen'
  <2>1. Used' = Used /\ Seen' = Used
    BY <1>0, <1>13 DEF Seen, Used
  <2>2. wal \in wdisk
    BY <1>0 DEF Typed, TypeOK
  <2>3. QED
    BY <1>0, <1>11, <1>13, <2>1, <2>2, SaltsUsed DEF Inv, SaltsSeen, memory
<1>17. Chained' /\ Roles' /\ Position'
  BY <1>0, <1>4, <1>11, <1>13
     DEF Inv, Chained, LTXChain, Roles, Position, Running, New, Logging, memory
<1>18. End' = End /\ End = index.mx /\ End <= cl.at
  BY <1>0, <1>1, <1>2, <1>3, <1>11 DEF End, memory, Unpublished
<1>19. Unpublished'
  <2>1. ASSUME NEW i \in End + 1..cl.at + 1, g[i].commit # 0 PROVE pc' = "framed" /\ i = cl.at + 1
    <3>1. CASE i = cl.at + 1
      BY <1>7, <1>8, <1>13, <2>1, <3>1
    <3>2. CASE i # cl.at + 1
      <4>1. i \in 1..cl.at /\ i \in End + 1..Len(wal.fr)
        BY <1>2, <1>3, <3>2
      <4>2. QED
        BY <1>0, <1>1, <1>8, <2>1, <4>1 DEF Unpublished
    <3>3. QED
      BY <3>1, <3>2
  <2>2. End > 0 => g[End].commit = pageN
    BY <1>1, <1>2, <1>8, <1>18 DEF Unpublished
  <2>3. End <= Len(g)
    BY <1>2, <1>3, <1>8, <1>18
  <2>4. index.n = pageN
    BY <1>1 DEF Unpublished
  <2>5. QED
    BY <1>0, <1>8, <1>11, <1>18, <2>1, <2>2, <2>3, <2>4 DEF Unpublished, memory
<1>20. Ends'
  BY <1>0, <1>19 DEF Ends
<1>21. Transaction'
  <2>1. \A i \in index.mx + 1..cl.at + 1 : g[i].v = cl.v
    BY <1>1, <1>2, <1>3, <1>7, <1>8, <1>0 DEF Transaction
  <2>2. PagesIn(g, index.mx + 1, cl.at + 1) = PagesIn(wal.fr, index.mx + 1, cl.at) \cup {p}
    <3>1. PagesIn(g, index.mx + 1, cl.at + 1)
            = PagesIn(g, index.mx + 1, cl.at) \cup PagesIn(g, cl.at + 1, cl.at + 1)
      <4>1. /\ index.mx + 1 \in Nat /\ cl.at + 1 \in Nat /\ index.mx + 1 <= cl.at + 1
            /\ cl.at \in Nat /\ cl.at <= cl.at + 1
        BY <1>2, <1>3
      <4>2. \A i, k, m \in Nat : i <= k + 1 /\ k <= m =>
               PagesIn(g, i, m) = PagesIn(g, i, k) \cup PagesIn(g, k + 1, m)
        BY PagesInSplit
      <4>3. QED
        BY <4>1, <4>2
    <3>2. cl.at + 1..cl.at + 1 = {cl.at + 1}
      BY <1>3
    <3>3. PagesIn(g, cl.at + 1, cl.at + 1) = {p}
      BY <1>7, <1>8, <3>2 DEF PagesIn
    <3>4. PagesIn(g, index.mx + 1, cl.at) = PagesIn(wal.fr, index.mx + 1, cl.at)
      <4>1. \A j \in index.mx + 1..cl.at : j \in 1..cl.at
        BY <1>2, <1>3
      <4>2. \A j \in index.mx + 1..cl.at : g[j] = wal.fr[j]
        BY <1>8, <4>1
      <4>3. QED
        BY <4>2, PagesInSame
    <3>5. QED
      BY <3>1, <3>3, <3>4
  <2>3. cl'.w \cup PagesIn(g, index.mx + 1, cl.at + 1)
          = cl.w \cup PagesIn(wal.fr, index.mx + 1, cl.at)
    BY <1>5, <1>12, <2>2
  <2>4. Writes(cl'.w \cup PagesIn(wal'.fr, index'.mx + 1, cl'.at), index'.n, cl'.v.n)
    BY <1>0, <1>1, <1>11, <1>12, <2>3 DEF Transaction
  <2>5. cl.at + 1 \in index.mx..Len(g) /\ cl.at + 1 > index.mx
    BY <1>2, <1>3, <1>8
  <2>6. last => cl'.w = {}
    BY <1>12 DEF last
  <2>7. ~last => cl'.w # {}
    BY <1>3, <1>5, <1>12 DEF last
  <2>8. QED
    BY <1>0, <1>3, <1>4, <1>7, <1>8, <1>11, <1>12, <1>13, <2>1, <2>4, <2>5, <2>6, <2>7
       DEF Transaction
<1>22. Checkpoint'
  <2>1. ck.st = "copy" => PagesIn(g, index.bf + 1, ck.mx) = PagesIn(wal.fr, index.bf + 1, ck.mx)
    <3>1. SUFFICES ASSUME ck.st = "copy" PROVE \A i \in index.bf + 1..ck.mx : i \in 1..cl.at
      BY <1>8, PagesInSame
    <3>2. ck.mx \in index.bf + 1..index.mx
      BY <3>1 DEF Inv, Checkpoint
    <3>3. QED
      BY <1>2, <1>3, <3>2
  <2>2. QED
    BY <1>0, <1>11, <2>1 DEF Inv, Checkpoint
<1>23. Held'
  <2>1. \A i \in 1..index.mx : wal'.fr[i] = wal.fr[i]
    BY <1>2, <1>3, <1>8, <1>11
  <2>2. ck.mx \in Nat
    BY <1>0 DEF Typed, TypeOK
  <2>3. Held /\ End <= index.mx
    BY <1>1, <1>2, <1>18 DEF Inv, Contents
  <2>4. QED
    BY <1>0, <1>11, <2>1, <2>2, <2>3, LogGrows DEF dbfile, memory
<1>24. Contents' /\ Applying'
  BY <1>0, <1>13, <1>23 DEF Contents, Applying
<1>25. QED
  BY <1>15, <1>16, <1>17, <1>20, <1>21, <1>22, <1>24 DEF Inv

\* SQLite publishes the transaction.
LEMMA InvWriteSHM ==
  ASSUME Inv, WriteSHM
  PROVE  Inv'
<1>0. /\ Typed /\ pc = "framed" /\ pc' = "unlock" /\ cl' = NoTx
      /\ UNCHANGED <<dbfile, log, ltx, memory, role, ck, left>>
      /\ index' = [index EXCEPT !.mx = cl.at, !.n = cl.v.n]
  BY DEF Inv, WriteSHM
<1>1. Active /\ Active' /\ Unpublished /\ Transaction /\ role \in {"primary", "leaving"}
  BY <1>0, WriterRuns DEF Inv, Ends, Active, Running, Logging, Published
<1>2. /\ Len(wal.fr) \in Nat /\ index.mx \in Nat /\ index.bf \in Nat /\ End \in Nat
      /\ index \in [mx : Nat, bf : Nat, n : 0..MaxPage, salt : Nat] /\ index.bf <= index.mx
  BY <1>0, LogFacts DEF Typed, TypeOK
<1>3. /\ cl.at = Len(wal.fr) /\ cl.at > index.mx /\ wal.fr[cl.at].commit = cl.v.n
      /\ cl.w = {} /\ cl.v.n \in Pgno /\ wal.salt # 0 /\ cl.at \in Nat
      /\ \A i \in index.mx + 1..cl.at : wal.fr[i].v = cl.v
      /\ Writes(PagesIn(wal.fr, index.mx + 1, cl.at), index.n, cl.v.n)
  BY <1>0, <1>1, <1>2, ValueIs DEF Transaction
<1>4. /\ index'.mx = cl.at /\ index'.n = cl.v.n /\ index'.bf = index.bf /\ index'.salt = index.salt
      /\ index' \in [mx : Nat, bf : Nat, n : 0..MaxPage, salt : Nat]
  BY <1>0, <1>2, <1>3, PageFacts
<1>5. UNCHANGED <<wal, wdisk, file, disk, sums, pos, pageN, dbw>> /\ End' = End
  BY <1>0 DEF log, dbfile, memory, End
<1>6. Typed'
  <2>1. cl' \in [w : SUBSET Pgno, v : Value \cup {Absent}, at : Nat]
    BY <1>0 DEF NoTx
  <2>2. index'.bf <= index'.mx /\ index'.mx <= Len(wal'.fr)
    BY <1>2, <1>3, <1>4, <1>5
  <2>3. QED
    BY <1>0, <1>4, <1>5, <2>1, <2>2 DEF Typed, TypeOK
<1>7. SaltsSeen'
  BY <1>0, <1>4, <1>5 DEF Inv, SaltsSeen, Seen, Used
<1>8. Chained' /\ Roles' /\ Position'
  BY <1>0, <1>1, <1>5 DEF Inv, Chained, LTXChain, Roles, Position, Running, New, Logging
<1>9. Published'
  <2>1. \A i \in End + 1..cl.at - 1 : wal.fr[i].commit = 0
    BY <1>1, <1>2, <1>3 DEF Unpublished
  <2>2. index.mx = End /\ index.n = pageN
    BY <1>1 DEF Unpublished
  <2>3. \A i \in End + 1..cl.at : wal.fr[i].v.n = cl.v.n
    BY <1>3, <2>2
  <2>4. QED
    BY <1>0, <1>3, <1>4, <1>5, <2>1, <2>2, <2>3 DEF Published
<1>10. Ends' /\ Transaction'
  BY <1>0, <1>9 DEF Ends, Transaction
<1>11. Checkpoint'
  <2>1. ck # NoCkpt => ck.st # "idle" /\ index'.bf < index'.mx
    BY <1>2, <1>3, <1>4 DEF Inv, Checkpoint
  <2>2. ck.st = "copy" => ck.mx \in index.bf + 1..index.mx
    BY DEF Inv, Checkpoint
  <2>3. ck.st = "copy" => ck.mx \in index'.bf + 1..index'.mx /\ ck.mx # index'.mx
    BY <1>2, <1>3, <1>4, <2>2
  <2>4. QED
    BY <1>0, <1>4, <1>5, <2>1, <2>3 DEF Inv, Checkpoint
<1>12. \A i \in Nat : i <= index.mx + 1 =>
         PagesIn(wal.fr, i, cl.at) = PagesIn(wal.fr, i, index.mx) \cup PagesIn(wal.fr, index.mx + 1, cl.at)
  <2>1. index.mx \in Nat /\ cl.at \in Nat /\ index.mx <= cl.at
    BY <1>2, <1>3
  <2>2. QED
    BY <2>1, PagesInSplit
<1>13. PagesIn(wal.fr, 1, cl.at) = PagesIn(wal.fr, 1, index.mx) \cup PagesIn(wal.fr, index.mx + 1, cl.at)
  BY <1>2, <1>12
<1>14. Behind' = Behind \cup PagesIn(wal.fr, index.mx + 1, cl.at)
  <2>1. CASE ck.st = "copy"
    <3>1. ck.mx \in index.bf + 1..index.mx
      BY <2>1 DEF Inv, Checkpoint
    <3>2. ck.mx + 1 \in Nat /\ ck.mx + 1 <= index.mx + 1
      BY <1>2, <3>1
    <3>3. QED
      BY <1>0, <1>4, <1>5, <1>12, <2>1, <3>2 DEF Behind
  <2>2. CASE ck.st # "copy"
    <3>1. index.bf + 1 \in Nat /\ index.bf + 1 <= index.mx + 1
      BY <1>2
    <3>2. QED
      BY <1>0, <1>4, <1>5, <1>12, <2>2, <3>1 DEF Behind
  <2>3. QED
    BY <2>1, <2>2
<1>15. Held
  BY <1>1 DEF Inv, Contents
<1>16. Copied'
  <2>1. ASSUME NEW p \in 1..cl.v.n \ Behind'
        PROVE  /\ sums[p] = file[p]
               /\ p \in PagesIn(wal.fr, 1, cl.at) => file[p] = wal.fr[At(wal.fr, cl.at, p)].v
    <3>1. p \notin Behind /\ p \notin PagesIn(wal.fr, index.mx + 1, cl.at)
      BY <1>14
    <3>2. index.n \in Nat /\ cl.v.n \in Nat
      BY <1>2, <1>3, PageFacts DEF Pgno
    <3>3. p \in 1..index.n
      BY <1>3, <3>1, <3>2 DEF Writes
    <3>4. /\ sums[p] = file[p]
          /\ p \in PagesIn(wal.fr, 1, index.mx) => file[p] = wal.fr[At(wal.fr, index.mx, p)].v
      BY <1>15, <3>1, <3>3 DEF Held, Copied
    <3>5. At(wal.fr, cl.at, p) = At(wal.fr, index.mx, p)
      <4>1. index.mx \in Nat /\ cl.at \in Nat /\ index.mx <= cl.at
        BY <1>2, <1>3
      <4>2. QED
        BY <3>1, <4>1, AtLater
    <3>6. QED
      BY <1>13, <3>1, <3>4, <3>5
  <2>2. QED
    BY <1>4, <1>5, <2>1 DEF Copied
<1>17. Held'
  <2>1. Untouched'
    BY <1>4, <1>5, <1>13, <1>15 DEF Held, Untouched
  <2>2. InLog' /\ Offsets' /\ LogSums'
    BY <1>5, <1>15 DEF Held, InLog, Offsets, LogSums
  <2>3. QED
    BY <1>16, <2>1, <2>2 DEF Held
<1>18. Contents' /\ Applying'
  BY <1>0, <1>17 DEF Contents, Applying
<1>19. QED
  BY <1>6, <1>7, <1>8, <1>10, <1>11, <1>18 DEF Inv

\* The client rolls back, dies or is refused before it has published.
LEMMA InvClientEnds ==
  ASSUME Regular, Inv, ClientEnds
  PROVE  Inv'
<1>0. /\ Typed /\ pc \in {"begin", "tx"} /\ pc' = "unlock" /\ cl' = NoTx
      /\ UNCHANGED <<dbfile, log, ltx, index, memory, role, ck, left>>
  BY DEF Inv, ClientEnds, Regular
<1>1. Active /\ Active' /\ Unpublished /\ role \in {"primary", "leaving"}
  BY <1>0, WriterRuns DEF Inv, Ends, Active, Running, Logging, Published
<1>2. UNCHANGED <<wal, wdisk, file, disk, sums, pos, pageN, dbw>> /\ End' = End
  BY <1>0 DEF log, dbfile, memory, End
<1>3. Typed'
  <2>1. cl' \in [w : SUBSET Pgno, v : Value \cup {Absent}, at : Nat]
    BY <1>0 DEF NoTx
  <2>2. QED
    BY <1>0, <1>2, <2>1 DEF Typed, TypeOK
<1>4. SaltsSeen'
  <2>1. Used' = Used /\ Seen' = Used
    BY <1>0 DEF Seen, Used
  <2>2. QED
    BY <1>0, <1>2, <2>1, SaltsUsed DEF Inv, SaltsSeen
<1>5. Chained' /\ Roles' /\ Position'
  BY <1>0, <1>1, <1>2 DEF Inv, Chained, LTXChain, Roles, Position, Running, New, Logging
<1>6. Ends' /\ Transaction'
  BY <1>0, <1>1, <1>2 DEF Ends, Transaction, Unpublished
<1>7. Checkpoint'
  BY <1>0, <1>2 DEF Inv, Checkpoint
<1>8. Held'
  BY <1>0, <1>1, <1>2, HeldKept DEF Inv, Contents, Behind
<1>9. Contents' /\ Applying'
  BY <1>0, <1>8 DEF Contents, Applying
<1>10. QED
  BY <1>3, <1>4, <1>5, <1>6, <1>7, <1>9 DEF Inv

-----------------------------------------------------------------------------
(* CommitWAL keeps it. *)

\* The log is synced.
LEMMA InvCommitSync ==
  ASSUME Inv, CommitSync
  PROVE  Inv'
<1>0. /\ Typed /\ pc = "unlock" /\ pc' = "synced" /\ (wal.salt = 0 => UNCHANGED log)
      /\ (wal.salt # 0 => SyncLog(wal))
      /\ UNCHANGED <<dbfile, ltx, index, memory, role, cl, ck, left>>
  BY DEF Inv, CommitSync
<1>1. Active /\ Active' /\ (Unpublished \/ Published) /\ role \in {"primary", "leaving"}
  BY <1>0, WriterRuns DEF Inv, Ends, Active, Running, Logging
<1>2. UNCHANGED <<file, disk, sums, pos, pageN, dbw>>
  BY <1>0 DEF dbfile, memory
<1>3. /\ wal' \in Log /\ wdisk' \subseteq Log /\ wal' \in wdisk'
      /\ \A x \in wdisk' : x.salt = 0 => x.fr = <<>>
      /\ wal'.salt = wal.salt /\ wal'.fr = wal.fr /\ (wdisk' = wdisk \/ wdisk' = {wal'})
  <2>1. CASE wal.salt = 0
    BY <1>0, <2>1 DEF Typed, TypeOK, log
  <2>2. CASE wal.salt # 0
    BY <1>0, <2>2, SyncLogTyped, LogFacts
  <2>3. QED
    BY <2>1, <2>2
<1>4. End' = End
  BY <1>2, <1>3 DEF End
<1>5. Typed'
  BY <1>0, <1>2, <1>3 DEF Typed, TypeOK
<1>6. SaltsSeen'
  <2>1. Used' = Used /\ Seen' = Seen
    BY <1>0 DEF Seen, Used
  <2>2. wal \in wdisk
    BY <1>0 DEF Typed, TypeOK
  <2>3. QED
    BY <1>0, <1>2, <1>3, <2>1, <2>2 DEF Inv, SaltsSeen
<1>7. Chained' /\ Roles' /\ Position'
  BY <1>0, <1>1, <1>2, <1>3 DEF Inv, Chained, LTXChain, Roles, Position, Running, New, Logging
<1>8. Unpublished' \/ Published'
  <2>1. CASE Unpublished
    BY <1>0, <1>2, <1>3, <1>4, <2>1 DEF Unpublished
  <2>2. CASE Published
    BY <1>0, <1>2, <1>3, <1>4, <2>2 DEF Published
  <2>3. QED
    BY <1>1, <2>1, <2>2
<1>9. Ends' /\ Transaction'
  BY <1>0, <1>8 DEF Ends, Transaction
<1>10. Checkpoint'
  BY <1>0, <1>3 DEF Inv, Checkpoint
<1>11. Held'
  BY <1>0, <1>1, <1>2, <1>3, HeldKept DEF Inv, Contents, Behind
<1>12. Contents' /\ Applying'
  BY <1>0, <1>11 DEF Contents, Applying
<1>13. QED
  BY <1>5, <1>6, <1>7, <1>9, <1>10, <1>12 DEF Inv

\* The published transaction as CommitWAL reads it: its pages and their data.
TxPages == PagesIn(wal.fr, End + 1, index.mx)
TxData  == Version(file, wal.fr, index.mx)

\* CommitWAL finds the published transaction, and no other.
LEMMA CommitFinds ==
  ASSUME Inv, pc = "synced"
  PROVE  /\ Active /\ (Unpublished \/ Published)
         /\ Unpublished => NextCommit(wal.fr, dbw.offset) = 0
         /\ Published => NextCommit(wal.fr, dbw.offset) = index.mx /\ dbw.offset = End
<1>0. Typed /\ Active /\ (Unpublished \/ Published)
  BY WriterRuns DEF Inv, Ends, Active, Running, Logging
<1>1. /\ Len(wal.fr) \in Nat /\ index.mx \in Nat /\ End \in Nat /\ dbw.offset \in Nat
      /\ wal.salt = 0 => Len(wal.fr) = 0
  BY <1>0, LogFacts
<1>2. wal.salt # 0 => dbw.offset = End
  BY DEF End
<1>3. ASSUME Unpublished PROVE NextCommit(wal.fr, dbw.offset) = 0
  <2>1. \A i \in dbw.offset + 1..Len(wal.fr) : wal.fr[i].commit = 0
    <3>1. CASE wal.salt = 0
      BY <1>1, <3>1
    <3>2. CASE wal.salt # 0
      BY <1>2, <1>3, <3>2 DEF Unpublished
    <3>3. QED
      BY <3>1, <3>2
  <2>2. QED
    BY <1>1, <2>1, NextCommitIs
<1>4. ASSUME Published
      PROVE  NextCommit(wal.fr, dbw.offset) = index.mx /\ dbw.offset = End
  <2>1. dbw.offset = End
    BY <1>2, <1>4 DEF Published
  <2>2. index.mx \in End + 1..Len(wal.fr) /\ wal.fr[index.mx].commit # 0
    BY <1>1, <1>4 DEF Published, Pgno
  <2>3. \A i \in End + 1..index.mx - 1 : wal.fr[i].commit = 0
    BY <1>4 DEF Published
  <2>4. QED
    BY <1>1, <2>1, <2>2, <2>3, NextCommitIs
<1>5. QED
  BY <1>0, <1>3, <1>4

\* The data of its pages, and the checksums of the others: they come from the log
\* or from the file, and are those of the position.
LEMMA CommitReads ==
  ASSUME Inv, pc = "synced", Published
  PROVE  /\ TxPages \subseteq 1..index.n /\ TxPages \subseteq Pgno /\ TxData \in File
         /\ index.n \in Pgno /\ pageN \in Pgno /\ Whole(pos.sum, pageN) /\ pos.sum = New.post
         /\ \A p \in TxPages : /\ TxData[p] \in Value /\ TxData[p].n = index.n
                               /\ TxData[p] = wal.fr[At(wal.fr, index.mx, p)].v
         /\ \A p \in Pgno \ TxPages : /\ At(wal.fr, index.mx, p) = At(wal.fr, End, p)
                                      /\ p \in PagesIn(wal.fr, 1, index.mx)
                                           <=> p \in PagesIn(wal.fr, 1, End)
         /\ \A p \in 1..index.n \ TxPages : p \in 1..pageN
         /\ \A p \in 1..index.n : PageChecksum(p, TxPages, TxData) =
                                    IF p \in TxPages THEN TxData[p] ELSE pos.sum[p]
<1>0. Typed /\ Active /\ Held
  BY CommitFinds DEF Inv, Contents
<1>1. /\ Len(wal.fr) \in Nat /\ index.mx \in Nat /\ End \in Nat /\ wal.fr \in Seq(Frame)
      /\ End < index.mx /\ index.mx = Len(wal.fr) /\ index.n \in Pgno
      /\ Writes(TxPages, pageN, index.n)
      /\ \A i \in 1..Len(wal.fr) : wal.fr[i].v \in Value
      /\ \A i \in End + 1..index.mx : wal.fr[i].v.n = index.n
  BY <1>0, LogFacts DEF Published, TxPages
<1>2. pageN \in Pgno /\ Whole(pos.sum, pageN) /\ pos.sum = New.post
  BY <1>0 DEF Inv, Position, Active, Whole
<1>3. index.n \in Nat /\ pageN \in Nat /\ 1..index.n \subseteq Pgno /\ 1..pageN \subseteq Pgno
  BY <1>1, <1>2, PageFacts DEF Pgno
<1>4. TxPages \subseteq 1..index.n /\ TxPages \subseteq Pgno
  BY <1>1, <1>3 DEF Writes
<1>5. TxData \in File
  <2>1. index.mx \in 0..Len(wal.fr) /\ file \in File
    BY <1>0, <1>1 DEF Typed, TypeOK
  <2>2. QED
    BY <1>1, <2>1, VersionType DEF TxData
<1>6. PagesIn(wal.fr, 1, index.mx) = PagesIn(wal.fr, 1, End) \cup TxPages
  <2>1. End <= index.mx /\ 1 <= End + 1
    BY <1>1
  <2>2. QED
    BY <1>1, <2>1, PagesInSplit DEF TxPages
<1>7. ASSUME NEW p \in TxPages
      PROVE  /\ TxData[p] \in Value /\ TxData[p].n = index.n
             /\ TxData[p] = wal.fr[At(wal.fr, index.mx, p)].v
  <2>1. PICK a : a = At(wal.fr, index.mx, p)
    OBVIOUS
  <2>2. p \in Pgno /\ p \in PagesIn(wal.fr, 1, index.mx)
    BY <1>4, <1>6
  <2>3. a \in 1..index.mx /\ \A j \in a + 1..index.mx : wal.fr[j].p # p
    BY <1>1, <2>1, <2>2, AtIs
  <2>4. PICK j \in End + 1..index.mx : wal.fr[j].p = p
    BY <1>7 DEF TxPages, PagesIn
  <2>5. ~(a < j) /\ a \in End + 1..index.mx
    BY <1>1, <2>3, <2>4
  <2>6. TxData[p] = wal.fr[a].v
    BY <2>1, <2>2, VersionIs DEF TxData
  <2>7. QED
    BY <1>1, <2>1, <2>3, <2>5, <2>6
<1>8. ASSUME NEW p \in Pgno \ TxPages
      PROVE  /\ At(wal.fr, index.mx, p) = At(wal.fr, End, p)
             /\ p \in PagesIn(wal.fr, 1, index.mx) <=> p \in PagesIn(wal.fr, 1, End)
  <2>1. End <= index.mx
    BY <1>1
  <2>2. QED
    BY <1>1, <1>6, <1>8, <2>1, AtLater DEF TxPages
<1>9. ASSUME NEW p \in 1..index.n \ TxPages PROVE p \in 1..pageN
  BY <1>1, <1>3 DEF Writes
<1>10. ASSUME NEW p \in 1..index.n
       PROVE  PageChecksum(p, TxPages, TxData) = IF p \in TxPages THEN TxData[p] ELSE pos.sum[p]
  <2>1. CASE p \in TxPages
    BY <2>1 DEF PageChecksum
  <2>2. CASE p \notin TxPages
    <3>1. p \in 1..pageN /\ p \in Pgno
      BY <1>3, <1>9, <2>2
    <3>2. CASE dbw.chksums[p] # NoSum
      BY <1>0, <2>2, <3>1, <3>2 DEF Held, LogSums, PageChecksum
    <3>3. CASE dbw.chksums[p] = NoSum
      <4>1. p \notin PagesIn(wal.fr, 1, index.mx)
        BY <1>0, <1>8, <2>2, <3>1, <3>3 DEF Held, LogSums
      <4>2. sums[p] = pos.sum[p]
        BY <1>0, <3>1, <4>1 DEF Held, Untouched
      <4>3. QED
        BY <2>2, <3>3, <4>2 DEF PageChecksum
    <3>4. QED
      BY <3>2, <3>3
  <2>3. QED
    BY <2>1, <2>2
<1>11. QED
  BY <1>1, <1>2, <1>4, <1>5, <1>7, <1>8, <1>9, <1>10

\* CommitWAL accepts it.
LEMMA CommitAccepts ==
  ASSUME Inv, pc = "synced", Published
  PROVE  Accepted(index.mx)
<1>0. Typed /\ Active /\ Held
  BY CommitFinds DEF Inv, Contents
<1>1. wal.fr[index.mx].commit = index.n /\ dbw.offset = End
  BY CommitFinds DEF Published
<1>2. ASSUME NEW p \in 1..index.n PROVE PageChecksum(p, TxPages, TxData) # Absent
  <2>1. CASE p \in TxPages
    BY <2>1, CommitReads, ValueIs
  <2>2. CASE p \notin TxPages
    <3>1. p \in 1..pageN /\ Whole(pos.sum, pageN) /\ PageChecksum(p, TxPages, TxData) = pos.sum[p]
      BY <2>2, CommitReads
    <3>2. p \in Pgno /\ p <= pageN
      BY <3>1, PageFacts DEF Whole, Pgno
    <3>3. QED
      BY <3>1, <3>2 DEF Whole
  <2>3. QED
    BY <2>1, <2>2
<1>3. ASSUME NEW p \in index.n + 1..pageN PROVE ReadPage(p) = PageChecksum(p, {}, TxData)
  <2>1. index.n \in Pgno /\ pageN \in Pgno /\ TxPages \subseteq 1..index.n
    BY CommitReads
  <2>2. p \in 1..pageN /\ p \in Pgno /\ p \notin TxPages
    BY <2>1, PageFacts DEF Pgno
  <2>3. p \in PagesIn(wal.fr, 1, index.mx) <=> p \in PagesIn(wal.fr, 1, End)
    BY <2>2, CommitReads
  <2>4. dbw.frameOffsets[p] = At(wal.fr, End, p)
    BY <1>0, <2>2 DEF Held, Offsets
  <2>5. At(wal.fr, End, p) = 0 <=> p \notin PagesIn(wal.fr, 1, End)
    BY <1>0, AtIs, LogFacts
  <2>6. CASE p \in PagesIn(wal.fr, 1, End)
    <3>1. dbw.chksums[p] # NoSum /\ dbw.chksums[p] = pos.sum[p]
      BY <1>0, <2>2, <2>6 DEF Held, LogSums
    <3>2. wal.fr[At(wal.fr, End, p)].v = pos.sum[p]
      BY <1>0, <2>2, <2>6 DEF Held, InLog
    <3>3. QED
      BY <2>4, <2>5, <2>6, <3>1, <3>2 DEF ReadPage, PageChecksum
  <2>7. CASE p \notin PagesIn(wal.fr, 1, End)
    <3>1. dbw.chksums[p] = NoSum
      BY <1>0, <2>2, <2>7 DEF Held, LogSums
    <3>2. file[p] = sums[p]
      BY <1>0, <2>2, <2>3, <2>7 DEF Held, Untouched
    <3>3. QED
      BY <2>4, <2>5, <2>7, <3>1, <3>2 DEF ReadPage, PageChecksum
  <2>8. QED
    BY <2>6, <2>7
<1>4. QED
  BY <1>1, <1>2, <1>3 DEF Accepted, TxPages, TxData

\* An LTX file that is made from the newest one continues the chain.
LEMMA ChainAppend ==
  ASSUME Typed, Chained, NEW l \in LTX, ltx' = Append(ltx, l), l.pages \subseteq 1..l.n,
         Same(l.post, l.data, l.pages), Whole(l.post, l.n), l.post = ApplyTo(New.post, l)
  PROVE  /\ Chained' /\ New' = l /\ ltx' \in Seq(LTX) /\ ltx' # <<>>
         /\ Len(ltx') = Len(ltx) + 1 /\ ltx'[Len(ltx) + 1] = l
         /\ \A k \in 1..Len(ltx) : ltx'[k] = ltx[k]
<1>1. Len(ltx) \in Nat /\ Len(ltx) >= 1 /\ ltx \in Seq(LTX)
  BY NewFacts DEF Typed, TypeOK
<1>2. /\ ltx' \in Seq(LTX) /\ Len(ltx') = Len(ltx) + 1 /\ ltx'[Len(ltx) + 1] = l
      /\ \A k \in 1..Len(ltx) : ltx'[k] = ltx[k]
  BY <1>1, AppendProperties
<1>3. New' = l /\ ltx' # <<>>
  BY <1>1, <1>2, EmptySeq DEF New
<1>4. LTXChain'
  <2>1. ASSUME NEW k \in 2..Len(ltx) + 1 PROVE ltx'[k].post = ApplyTo(ltx'[k - 1].post, ltx'[k])
    <3>1. CASE k = Len(ltx) + 1
      BY <1>1, <1>2, <3>1 DEF New
    <3>2. CASE k # Len(ltx) + 1
      <4>1. k \in 2..Len(ltx) /\ k \in 1..Len(ltx) /\ k - 1 \in 1..Len(ltx)
        BY <1>1, <3>2
      <4>2. QED
        BY <1>2, <4>1 DEF Chained, LTXChain
    <3>3. QED
      BY <3>1, <3>2
  <2>2. QED
    BY <1>2, <2>1 DEF LTXChain
<1>5. ASSUME NEW k \in 1..Len(ltx) + 1
      PROVE  /\ ltx'[k].pages \subseteq 1..ltx'[k].n
             /\ Same(ltx'[k].post, ltx'[k].data, ltx'[k].pages) /\ Whole(ltx'[k].post, ltx'[k].n)
  <2>1. CASE k = Len(ltx) + 1
    BY <1>2, <2>1
  <2>2. CASE k # Len(ltx) + 1
    <3>1. k \in 1..Len(ltx)
      BY <1>1, <2>2
    <3>2. QED
      BY <1>2, <3>1 DEF Chained
  <2>3. QED
    BY <2>1, <2>2
<1>6. Chained'
  BY <1>2, <1>4, <1>5 DEF Chained
<1>7. QED
  BY <1>2, <1>3, <1>6

\* CommitWAL finds nothing to commit.
LEMMA InvCommitNothing ==
  ASSUME Inv, pc = "synced", pc' = "idle", Unpublished,
         UNCHANGED <<ltx, dbw, pageN, pos, wdisk, dbfile, wal, index, sums, role, cl, ck, left>>
  PROVE  Inv'
<1>0. Typed /\ Active /\ Active' /\ role \in {"primary", "leaving"}
  BY WriterRuns DEF Inv, Active, Running, Logging
<1>1. UNCHANGED <<file, disk>> /\ End' = End
  BY DEF dbfile, End
<1>2. Typed' /\ SaltsSeen'
  BY <1>0, <1>1 DEF Inv, Typed, TypeOK, SaltsSeen, Seen, Used
<1>3. Chained' /\ Roles' /\ Position'
  BY <1>0, <1>1 DEF Inv, Chained, LTXChain, Roles, Position, Running, New, Logging
<1>4. Ends' /\ Transaction' /\ Checkpoint'
  BY <1>1 DEF Inv, Ends, Transaction, Checkpoint, Unpublished
<1>5. Held'
  BY <1>0, <1>1, HeldKept DEF Inv, Contents, Behind
<1>6. Contents' /\ Applying'
  BY <1>5 DEF Contents, Applying
<1>7. QED
  BY <1>2, <1>3, <1>4, <1>6 DEF Inv

\* CommitWAL makes an LTX file of the published transaction.
LEMMA InvCommitWAL ==
  ASSUME Regular, Inv, NEW room \in Room, CommitWAL(room)
  PROVE  Inv'
<1>0. /\ Typed /\ pc = "synced" /\ pc' = "idle" /\ room = TRUE
      /\ UNCHANGED <<dbfile, wal, index, sums, role, cl, ck, left>>
  BY DEF Inv, CommitWAL, Regular, Room
<1>1. CASE Unpublished
  <2>1. NextCommit(wal.fr, dbw.offset) = 0
    BY <1>0, <1>1, CommitFinds
  <2>2. UNCHANGED <<ltx, dbw, pageN, pos, wdisk>>
    BY <2>1 DEF CommitWAL
  <2>3. QED
    BY <1>0, <1>1, <2>2, InvCommitNothing
<1>2. CASE Published
  <2> DEFINE n == index.n
             post == [p \in Pgno |-> IF p <= n THEN PageChecksum(p, TxPages, TxData) ELSE Absent]
             l == [n |-> n, pages |-> TxPages, data |-> TxData, post |-> post,
                   salt |-> dbw.salt, off |-> End, size |-> index.mx - End]
             offs == Overlay(dbw.frameOffsets, TxPages, [p \in Pgno |-> At(wal.fr, index.mx, p)])
             chks == Overlay(dbw.chksums, TxPages \cup n + 1..pageN, Trim(TxData, n))
  <2>0. /\ Active /\ Active' /\ Running /\ Running' /\ role \in {"primary", "leaving"}
        /\ NextCommit(wal.fr, dbw.offset) = index.mx /\ dbw.offset = End /\ wal.salt # 0
        /\ wal.fr[index.mx].commit = n /\ index.mx # 0 /\ index.mx = Len(wal.fr) /\ End < index.mx
    BY <1>0, <1>2, CommitFinds, WriterRuns, LogFacts DEF Inv, Active, Running, Logging, Published
  <2>1. Accepted(index.mx)
    BY <1>0, <1>2, CommitAccepts
  <2>2. /\ ltx' = Append(ltx, l) /\ pageN' = n /\ wdisk' = Settled
        /\ pos' = [txid |-> pos.txid + 1, sum |-> post]
    BY <1>0, <2>0, <2>1 DEF CommitWAL, TxPages, TxData
  <2>3. dbw' = [dbw EXCEPT !.offset = index.mx, !.frameOffsets = offs, !.chksums = chks]
    BY <1>0, <2>0, <2>1, Zenon DEF CommitWAL, TxPages, TxData, At
  <2>4. /\ Len(wal.fr) \in Nat /\ index.mx \in Nat /\ End \in Nat
        /\ n \in Pgno /\ n \in 0..MaxPage /\ n \in Nat /\ pageN \in Pgno /\ pageN \in Nat
    BY <1>0, <1>2, CommitReads, LogFacts, PageFacts DEF Pgno
  <2>5. \A p \in Pgno : post[p] = IF p > n THEN Absent
                                  ELSE IF p \in TxPages THEN TxData[p] ELSE pos.sum[p]
    <3>1. ASSUME NEW p \in Pgno, p <= n
          PROVE  PageChecksum(p, TxPages, TxData) = IF p \in TxPages THEN TxData[p] ELSE pos.sum[p]
      <4>1. p \in 1..index.n
        BY <2>4, <3>1, PageFacts DEF Pgno
      <4>2. QED
        BY <1>0, <1>2, <4>1, CommitReads
    <3>2. \A p \in Pgno : p > n <=> ~(p <= n)
      BY <2>4, PageFacts DEF Pgno
    <3>3. QED
      BY <3>1, <3>2
  <2> HIDE DEF post
  <2>6. post \in File
    <3>1. post = [p \in Pgno |-> post[p]]
      BY DEF post
    <3>2. TxData \in File /\ pos.sum \in File
      BY <1>0, <1>2, CommitReads DEF Typed, TypeOK
    <3>3. \A p \in Pgno : post[p] \in Value \cup {Absent}
      BY <2>5, <3>2 DEF File
    <3>4. QED
      BY <3>1, <3>3 DEF File
  <2>7. /\ l \in LTX /\ l.n = n /\ l.pages = TxPages /\ l.data = TxData /\ l.post = post
        /\ l.salt = dbw.salt /\ l.off = End /\ l.size = index.mx - End
    <3>0. dbw.salt \in Nat
      BY <1>0 DEF Typed, TypeOK
    <3>1. index.mx - End \in Nat /\ dbw.salt \in Nat
      BY <2>0, <2>4, <3>0
    <3>2. TxPages \subseteq Pgno /\ TxData \in File
      BY <1>0, <1>2, CommitReads
    <3>3. QED
      BY <2>4, <2>6, <3>1, <3>2 DEF LTX
  <2> HIDE DEF l
  <2>8. Whole(post, n)
    <3>1. ASSUME NEW p \in Pgno PROVE p <= n <=> post[p] # Absent
      <4>1. CASE p > n
        BY <2>4, <2>5, <4>1, PageFacts DEF Pgno
      <4>2. CASE p <= n /\ p \in TxPages
        BY <1>0, <1>2, <2>4, <2>5, <4>2, CommitReads, ValueIs, PageFacts DEF Pgno
      <4>3. CASE p <= n /\ p \notin TxPages
        <5>1. p \in 1..index.n /\ ~(p > n)
          BY <2>4, <4>3, PageFacts DEF Pgno
        <5>2. p \in 1..pageN /\ Whole(pos.sum, pageN)
          BY <1>0, <1>2, <4>3, <5>1, CommitReads
        <5>3. pos.sum[p] # Absent
          BY <2>4, <5>2 DEF Whole
        <5>4. QED
          BY <2>5, <4>3, <5>1, <5>3
      <4>4. QED
        BY <2>4, <4>1, <4>2, <4>3, PageFacts DEF Pgno
    <3>2. post[1].n = n
      <4>1. 1 \in Pgno /\ 1 <= n /\ ~(1 > n) /\ 1 \in 1..index.n
        BY <2>4, PageFacts DEF Pgno
      <4>2. CASE 1 \in TxPages
        BY <1>0, <1>2, <2>5, <4>1, <4>2, CommitReads
      <4>3. CASE 1 \notin TxPages
        <5>1. n = pageN
          BY <1>2, <4>3 DEF Published, Writes, TxPages
        <5>2. pos.sum[1].n = pageN
          BY <1>0, <1>2, CommitReads DEF Whole
        <5>3. QED
          BY <2>5, <4>1, <4>3, <5>1, <5>2
      <4>4. QED
        BY <4>2, <4>3
    <3>3. QED
      BY <2>4, <3>1, <3>2 DEF Whole
  <2>9. post = ApplyTo(New.post, l)
    <3>1. pos.sum = New.post
      BY <1>0, <1>2, CommitReads
    <3>2. \A p \in Pgno : p > n <=> ~(p <= n)
      BY <2>4, PageFacts DEF Pgno
    <3>3. \A p \in Pgno : ApplyTo(New.post, l)[p] = post[p]
      BY <2>5, <2>7, <3>1, <3>2 DEF ApplyTo, Trim, Overlay
    <3>4. post = [p \in Pgno |-> post[p]]
      BY DEF post
    <3>5. ApplyTo(New.post, l) = [p \in Pgno |-> ApplyTo(New.post, l)[p]]
      BY DEF ApplyTo, Trim
    <3>6. QED
      BY <3>3, <3>4, <3>5
  <2>10. TxPages \subseteq 1..n /\ Same(post, TxData, TxPages)
    <3>1. TxPages \subseteq 1..n /\ TxPages \subseteq Pgno
      BY <1>0, <1>2, CommitReads
    <3>2. ASSUME NEW p \in TxPages PROVE post[p] = TxData[p]
      BY <2>4, <2>5, <3>1
    <3>3. QED
      BY <3>1, <3>2 DEF Same
  <2>11. /\ Chained' /\ New' = l /\ ltx' \in Seq(LTX) /\ ltx' # <<>>
         /\ Len(ltx') = Len(ltx) + 1 /\ ltx'[Len(ltx) + 1] = l
         /\ \A k \in 1..Len(ltx) : ltx'[k] = ltx[k]
    BY <1>0, <2>2, <2>7, <2>8, <2>9, <2>10, ChainAppend DEF Inv
  <2>12. /\ offs \in [Pgno -> Nat]
         /\ \A p \in Pgno : offs[p] = At(wal.fr, index.mx, p)
    <3>1. ASSUME NEW p \in Pgno PROVE At(wal.fr, index.mx, p) \in Nat
      <4>1. index.mx \in Nat /\ At(wal.fr, index.mx, p) \in 0..index.mx
        BY <2>4, AtIs
      <4>2. QED
        BY <4>1
    <3>2. ASSUME NEW p \in Pgno PROVE offs[p] = At(wal.fr, index.mx, p)
      <4>1. CASE p \in TxPages
        BY <4>1 DEF Overlay
      <4>2. CASE p \notin TxPages
        <5>1. dbw.frameOffsets[p] = At(wal.fr, End, p)
          BY <2>0 DEF Inv, Contents, Held, Offsets
        <5>2. At(wal.fr, index.mx, p) = At(wal.fr, End, p)
          BY <1>0, <1>2, <4>2, CommitReads
        <5>3. QED
          BY <4>2, <5>1, <5>2 DEF Overlay
      <4>3. QED
        BY <4>1, <4>2
    <3>3. offs = [p \in Pgno |-> offs[p]]
      BY DEF Overlay
    <3>4. QED
      BY <3>1, <3>2, <3>3
  <2>13. /\ chks \in [Pgno -> Value \cup {Absent, NoSum}]
         /\ \A p \in Pgno : p <= n =>
              chks[p] = IF p \in TxPages THEN TxData[p] ELSE dbw.chksums[p]
    <3>1. TxData \in File /\ dbw.chksums \in [Pgno -> Value \cup {Absent, NoSum}]
      BY <1>0, <1>2, CommitReads DEF Typed, TypeOK
    <3>2. \A p \in Pgno : p <= n => p \notin n + 1..pageN
      BY <2>4, PageFacts DEF Pgno
    <3>3. \A p \in Pgno : p <= n =>
            chks[p] = IF p \in TxPages THEN TxData[p] ELSE dbw.chksums[p]
      BY <3>2 DEF Overlay, Trim
    <3>4. \A p \in Pgno : Trim(TxData, n)[p] \in Value \cup {Absent}
      BY <3>1 DEF Trim, File
    <3>5. QED
      BY <3>1, <3>3, <3>4 DEF Overlay
  <2> HIDE DEF offs, chks, n
  <2>14. /\ dbw'.offset = index.mx /\ dbw'.salt = dbw.salt
         /\ dbw'.frameOffsets = offs /\ dbw'.chksums = chks
         /\ dbw' \in [offset : Nat, salt : Nat, frameOffsets : [Pgno -> Nat],
                      chksums : [Pgno -> Value \cup {Absent, NoSum}]]
    <3>1. dbw \in [offset : Nat, salt : Nat, frameOffsets : [Pgno -> Nat],
                   chksums : [Pgno -> Value \cup {Absent, NoSum}]]
      BY <1>0 DEF Typed, TypeOK
    <3>2. QED
      BY <2>3, <2>4, <2>12, <2>13, <3>1
  <2>15. pos'.sum = post /\ pos' \in [txid : Nat, sum : File]
    <3>1. pos.txid \in Nat
      BY <1>0 DEF Typed, TypeOK
    <3>2. pos.txid + 1 \in Nat
      BY <3>1
    <3>3. QED
      BY <2>2, <2>6, <3>2
  <2>16. Typed'
    <3>1. wal \in wdisk' /\ wdisk' \subseteq wdisk /\ wdisk' \subseteq Log
      BY <1>0, <2>2, SettledTyped
    <3>2. QED
      BY <1>0, <2>2, <2>4, <2>11, <2>14, <2>15, <3>1 DEF Typed, TypeOK, dbfile
  <2>17. SaltsSeen'
    <3>1. Used' = Used /\ Seen' = Used /\ wdisk' \subseteq wdisk
      BY <1>0, <2>2, SettledTyped DEF Used, Seen
    <3>2. \A k \in 1..Len(ltx') : ltx'[k].salt <= Used
      <4>1. \A k \in 1..Len(ltx') : k \in 1..Len(ltx) \/ k = Len(ltx) + 1
        BY <1>0, <2>11, NewFacts
      <4>2. QED
        BY <1>0, <2>7, <2>11, <4>1, SaltsUsed DEF Inv
    <3>3. QED
      BY <1>0, <2>14, <3>1, <3>2, SaltsUsed DEF Inv, SaltsSeen
  <2>18. Roles'
    BY <1>0, <2>0 DEF Inv, Roles, Logging
  <2>19. Position'
    BY <1>0, <2>2, <2>7, <2>8, <2>11, <2>15 DEF Position
  <2>20. End' = index.mx
    BY <1>0, <2>0, <2>14 DEF End
  <2>21. Unpublished'
    <3>1. index.mx + 1..Len(wal.fr) = {} /\ index.mx <= Len(wal.fr)
      BY <2>0, <2>4
    <3>2. QED
      BY <1>0, <2>0, <2>2, <2>20, <3>1 DEF Unpublished, n
  <2>22. Ends' /\ Transaction' /\ Checkpoint'
    BY <1>0, <2>21 DEF Inv, Ends, Transaction, Checkpoint
  <2>23. Held /\ UNCHANGED <<file, sums, wal, index, ck>>
    BY <1>0, <2>0 DEF Inv, Contents, dbfile
  <2>24. \A p \in 1..n : p \in Pgno /\ p <= n /\ ~(p > n)
    BY <2>4, PageFacts DEF Pgno
  <2>25. ASSUME NEW p \in 1..n \ TxPages
         PROVE  /\ p \in 1..pageN /\ At(wal.fr, index.mx, p) = At(wal.fr, End, p)
                /\ p \in PagesIn(wal.fr, 1, index.mx) <=> p \in PagesIn(wal.fr, 1, End)
                /\ post[p] = pos.sum[p] /\ chks[p] = dbw.chksums[p]
    BY <1>0, <1>2, <2>5, <2>13, <2>24, CommitReads DEF n
  <2>26. ASSUME NEW p \in TxPages
         PROVE  /\ p \in PagesIn(wal.fr, 1, index.mx) /\ TxData[p] = wal.fr[At(wal.fr, index.mx, p)].v
                /\ post[p] = TxData[p] /\ chks[p] = TxData[p] /\ TxData[p] # NoSum
    <3>1. p \in 1..n
      BY <2>10
    <3>2. p \in PagesIn(wal.fr, 1, index.mx)
      <4>1. End + 1..index.mx \subseteq 1..index.mx
        BY <2>4
      <4>2. QED
        BY <2>26, <4>1 DEF TxPages, PagesIn
    <3>3. QED
      BY <1>0, <1>2, <2>5, <2>13, <2>24, <3>1, <3>2, CommitReads, ValueIs
  <2>27. InLog'
    <3>1. ASSUME NEW p \in 1..n, p \in PagesIn(wal.fr, 1, index.mx)
          PROVE  wal.fr[At(wal.fr, index.mx, p)].v = post[p]
      <4>1. CASE p \in TxPages
        BY <2>26, <4>1
      <4>2. CASE p \notin TxPages
        BY <2>23, <2>25, <3>1, <4>2 DEF Held, InLog
      <4>3. QED
        BY <4>1, <4>2
    <3>2. QED
      BY <2>2, <2>15, <2>20, <2>23, <3>1 DEF InLog
  <2>28. Untouched'
    <3>1. ASSUME NEW p \in 1..n \ PagesIn(wal.fr, 1, index.mx)
          PROVE  file[p] = post[p] /\ sums[p] = post[p]
      <4>1. p \notin TxPages
        BY <2>26
      <4>2. QED
        BY <2>23, <2>25, <4>1 DEF Held, Untouched
    <3>2. QED
      BY <2>2, <2>15, <2>23, <3>1 DEF Untouched
  <2>29. Copied'
    BY <2>23 DEF Held, Copied, Behind
  <2>30. Offsets'
    BY <2>12, <2>14, <2>20, <2>23 DEF Offsets
  <2>31. LogSums'
    <3>1. ASSUME NEW p \in 1..n
          PROVE  /\ chks[p] = NoSum <=> p \notin PagesIn(wal.fr, 1, index.mx)
                 /\ chks[p] # NoSum => chks[p] = post[p]
      <4>1. CASE p \in TxPages
        BY <2>26, <4>1
      <4>2. CASE p \notin TxPages
        BY <2>23, <2>25, <4>2 DEF Held, LogSums
      <4>3. QED
        BY <4>1, <4>2
    <3>2. QED
      BY <2>2, <2>14, <2>15, <2>20, <2>23, <3>1 DEF LogSums
  <2>32. Held'
    BY <2>27, <2>28, <2>29, <2>30, <2>31 DEF Held
  <2>33. Contents' /\ Applying'
    BY <1>0, <2>32 DEF Contents, Applying
  <2>34. QED
    BY <2>11, <2>16, <2>17, <2>18, <2>19, <2>22, <2>33 DEF Inv
<1>3. QED
  BY <1>0, <1>1, <1>2, CommitFinds

-----------------------------------------------------------------------------
(* A client that checkpoints keeps it. *)

\* Where the log ends, while nothing is written to it.
LEMMA EndsKept ==
  ASSUME Inv, UNCHANGED <<role, pc, cl, pageN, dbw>>, wal'.fr = wal.fr, wal'.salt = wal.salt,
         index'.mx = index.mx, index'.n = index.n
  PROVE  Ends' /\ Transaction' /\ End' = End
<1>1. End' = End /\ Active' = Active
  BY DEF End, Active, Running
<1>2. Unpublished => Unpublished'
  BY <1>1 DEF Unpublished
<1>3. Published => Published'
  BY <1>1 DEF Published
<1>4. Ends'
  BY <1>1, <1>2, <1>3 DEF Inv, Ends
<1>5. Transaction'
  BY DEF Inv, Transaction
<1>6. QED
  BY <1>1, <1>4, <1>5

\* The LTX files and the position, while nothing is committed or applied.
LEMMA PositionKept ==
  ASSUME Inv, UNCHANGED <<ltx, pos, pageN, role, pc>>
  PROVE  Chained' /\ Position'
<1>1. New' = New /\ Running' = Running
  BY DEF New, Running
<1>2. Based' = Based
  BY <1>1 DEF Based
<1>3. Chained'
  BY DEF Inv, Chained, LTXChain
<1>4. Position'
  BY <1>1, <1>2 DEF Inv, Position
<1>5. QED
  BY <1>3, <1>4

\* The holder of the CKPT lock works on a node with a log.
LEMMA CheckpointRuns ==
  ASSUME Inv, ck # NoCkpt
  PROVE  /\ role \in {"primary", "leaving"} /\ pc \in Logging /\ Active /\ Held
         /\ ck.st # "idle" /\ index.bf < index.mx
BY DEF Inv, Typed, TypeOK, Roles, Active, Running, Contents, Checkpoint

\* It takes the lock.
LEMMA InvLockCkpt ==
  ASSUME Inv, LockCkpt
  PROVE  Inv'
<1>0. /\ Typed /\ pc = "idle" /\ ck = NoCkpt /\ index.bf < index.mx /\ Running
      /\ UNCHANGED <<dbfile, log, ltx, index, memory, role, pc, cl, left>>
      /\ ck' = [NoCkpt EXCEPT !.st = "locked"]
  BY DEF Inv, LockCkpt, TryLockCkpt
<1>1. ck' = [st |-> "locked", mx |-> 0, n |-> 0, todo |-> {}] /\ ck'.st = "locked" /\ ck.st = "idle"
  BY <1>0 DEF NoCkpt
<1>2. UNCHANGED <<wal, wdisk, file, disk, sums, pos, pageN, dbw>> /\ Active /\ Active'
  BY <1>0 DEF log, dbfile, memory, Active, Logging, Running
<1>3. role \in {"primary", "leaving"}
  <2>1. index.mx # 0
    BY <1>0, LogFacts
  <2>2. QED
    BY <1>0, <2>1 DEF Inv, Roles
<1>4. Typed'
  <2>1. ck' \in [st : {"idle", "locked", "copy"}, mx : Nat, n : 0..MaxPage, todo : SUBSET Pgno]
    BY <1>1, PageFacts
  <2>2. QED
    BY <1>0, <1>2, <2>1 DEF Typed, TypeOK
<1>5. SaltsSeen' /\ Chained' /\ Position'
  BY <1>0, <1>2 DEF Inv, SaltsSeen, Seen, Used, Chained, LTXChain, Position, Running, New
<1>6. Roles'
  BY <1>0, <1>2, <1>3 DEF Inv, Roles, Logging
<1>7. Ends' /\ Transaction'
  BY <1>0, <1>2, EndsKept
<1>8. Checkpoint'
  BY <1>0, <1>1 DEF Checkpoint
<1>9. Held'
  <2>1. Behind' = Behind
    BY <1>0, <1>1, <1>2 DEF Behind
  <2>2. QED
    BY <1>0, <1>2, <2>1, HeldKept DEF Inv, Contents
<1>10. Contents' /\ Applying'
  BY <1>0, <1>9 DEF Contents, Applying
<1>11. QED
  BY <1>4, <1>5, <1>6, <1>7, <1>8, <1>10 DEF Inv

\* It reads the wal-index.
LEMMA InvBeginCheckpoint ==
  ASSUME Inv, NEW m, BeginCheckpoint(m)
  PROVE  Inv'
<1>0. /\ Typed /\ ck.st = "locked" /\ m \in index.bf + 1..index.mx /\ SyncLog(wal)
      /\ UNCHANGED <<dbfile, ltx, index, memory, role, pc, cl, left>>
      /\ ck' = [st |-> "copy", mx |-> m, n |-> index.n,
                todo |-> PagesIn(wal.fr, index.bf + 1, m) \cap 1..index.n]
  BY DEF Inv, BeginCheckpoint
<1>1. /\ ck'.st = "copy" /\ ck'.mx = m /\ ck'.n = index.n
      /\ ck'.todo = PagesIn(wal.fr, index.bf + 1, m) \cap 1..index.n
  BY <1>0
<1>2. role \in {"primary", "leaving"} /\ pc \in Logging /\ Active /\ Held /\ index.bf < index.mx
  <2>1. ck # NoCkpt
    BY <1>0 DEF NoCkpt
  <2>2. QED
    BY <2>1, CheckpointRuns
<1>3. /\ wal' \in Log /\ wdisk' \subseteq Log /\ wal' \in wdisk' /\ wdisk' = {wal'}
      /\ \A x \in wdisk' : x.salt = 0 => x.fr = <<>>
      /\ wal'.salt = wal.salt /\ wal'.fr = wal.fr
  BY <1>0, SyncLogTyped, LogFacts
<1>4. UNCHANGED <<file, disk, sums, pos, pageN, dbw>> /\ Active'
  BY <1>0, <1>2 DEF dbfile, memory, Active, Running
<1>5. index.bf \in Nat /\ index.mx \in Nat /\ m \in Nat /\ index.n \in 0..MaxPage
  <2>1. index.bf \in Nat /\ index.mx \in Nat /\ index.n \in 0..MaxPage
    BY <1>0 DEF Typed, TypeOK
  <2>2. m \in Nat
    BY <1>0, <2>1
  <2>3. QED
    BY <2>1, <2>2
<1>6. Typed'
  <2>1. ck' \in [st : {"idle", "locked", "copy"}, mx : Nat, n : 0..MaxPage, todo : SUBSET Pgno]
    <3>1. PagesIn(wal.fr, index.bf + 1, m) \cap 1..index.n \subseteq Pgno
      BY <1>5, PageFacts DEF Pgno
    <3>2. QED
      BY <1>0, <1>5, <3>1
  <2>2. QED
    BY <1>0, <1>3, <1>4, <2>1 DEF Typed, TypeOK
<1>7. SaltsSeen'
  <2>1. wal \in wdisk
    BY <1>0 DEF Typed, TypeOK
  <2>2. QED
    BY <1>0, <1>3, <1>4, <2>1 DEF Inv, SaltsSeen, Seen, Used
<1>8. Chained' /\ Position'
  BY <1>0, <1>4, PositionKept
<1>9. Roles'
  BY <1>0, <1>2, <1>3, <1>4 DEF Inv, Roles
<1>10. Ends' /\ Transaction'
  BY <1>0, <1>3, <1>4, EndsKept
<1>11. Checkpoint'
  BY <1>0, <1>1, <1>2, <1>3 DEF Checkpoint
<1>12. Held'
  <2>1. PagesIn(wal.fr, index.bf + 1, index.mx)
          = PagesIn(wal.fr, index.bf + 1, m) \cup PagesIn(wal.fr, m + 1, index.mx)
    <3>1. \A i, k, j \in Nat : i <= k /\ k <= j =>
            PagesIn(wal.fr, i + 1, j) = PagesIn(wal.fr, i + 1, k) \cup PagesIn(wal.fr, k + 1, j)
      BY PagesInAfter
    <3>2. index.bf \in Nat /\ m \in Nat /\ index.mx \in Nat /\ index.bf <= m /\ m <= index.mx
      BY <1>0, <1>5
    <3>3. QED
      BY <3>1, <3>2
  <2>2. Behind = PagesIn(wal.fr, index.bf + 1, index.mx)
    BY <1>0 DEF Behind
  <2>3. Behind' = ck'.todo \cup PagesIn(wal.fr, m + 1, index.mx)
    BY <1>0, <1>1, <1>3 DEF Behind
  <2>4. Behind \cap 1..index.n \subseteq Behind'
    BY <1>1, <2>1, <2>2, <2>3
  <2>5. QED
    BY <1>0, <1>2, <1>3, <1>4, <2>4, HeldKept
<1>13. Contents' /\ Applying'
  BY <1>0, <1>2, <1>12 DEF Contents, Applying, Logging
<1>14. QED
  BY <1>6, <1>7, <1>8, <1>9, <1>10, <1>11, <1>13 DEF Inv

\* It copies a page.
LEMMA InvCopyPage ==
  ASSUME Inv, NEW p \in Pgno, CopyPage(p)
  PROVE  Inv'
<1> DEFINE g == Version(file, wal.fr, ck.mx)
<1>0. /\ Typed /\ ck.st = "copy" /\ p \in ck.todo /\ WritePages({p}, g)
      /\ UNCHANGED <<log, ltx, index, pos, pageN, dbw, role, pc, cl, left>>
      /\ ck' = [ck EXCEPT !.todo = @ \ {p}]
  BY DEF Inv, CopyPage
<1>1. /\ role \in {"primary", "leaving"} /\ pc \in Logging /\ Active /\ Held
      /\ index.bf < index.mx
  <2>1. ck # NoCkpt
    BY <1>0 DEF NoCkpt
  <2>2. QED
    BY <2>1, CheckpointRuns
<1>2. /\ ck \in [st : {"idle", "locked", "copy"}, mx : Nat, n : 0..MaxPage, todo : SUBSET Pgno]
      /\ file \in File /\ sums \in File /\ wal.fr \in Seq(Frame) /\ Len(wal.fr) \in Nat
      /\ index.mx \in Nat /\ index.bf \in Nat /\ index.mx <= Len(wal.fr)
  BY <1>0, <1>1, LogFacts DEF Typed, TypeOK, Logging
<1>3. /\ ck'.st = "copy" /\ ck'.mx = ck.mx /\ ck'.n = ck.n /\ ck'.todo = ck.todo \ {p}
      /\ ck' \in [st : {"idle", "locked", "copy"}, mx : Nat, n : 0..MaxPage, todo : SUBSET Pgno]
  BY <1>0, <1>2
<1>4. /\ ck.mx \in index.bf + 1..index.mx /\ ck.mx \in 0..Len(wal.fr) /\ ck.mx \in Nat
      /\ ck.todo \subseteq PagesIn(wal.fr, index.bf + 1, ck.mx)
  BY <1>0, <1>2 DEF Inv, Checkpoint
<1>5. p \in PagesIn(wal.fr, 1, ck.mx) /\ p \in PagesIn(wal.fr, 1, index.mx)
  <2>1. \A j \in index.bf + 1..ck.mx : j \in 1..ck.mx /\ j \in 1..index.mx
    BY <1>2, <1>4
  <2>2. QED
    BY <1>0, <1>4, <2>1 DEF PagesIn
<1>6. g \in File /\ g[p] = wal.fr[At(wal.fr, ck.mx, p)].v
  BY <1>2, <1>4, <1>5, VersionType, VersionIs
<1> HIDE DEF g
<1>7. /\ file' = Overlay(file, {p}, g) /\ sums' = Overlay(sums, {p}, g)
      /\ Write(Overlay(file, {p}, g))
  BY <1>0 DEF WritePages, Write
<1>8. /\ file'[p] = g[p] /\ sums'[p] = g[p]
      /\ \A q \in Pgno : q # p => file'[q] = file[q] /\ sums'[q] = sums[q]
  BY <1>7 DEF Overlay
<1>9. UNCHANGED <<wal, wdisk>> /\ Active' /\ End' = End
  BY <1>0, <1>1 DEF log, Active, Running, End
<1>10. Typed'
  <2>1. Overlay(file, {p}, g) \in File /\ sums' \in File
    BY <1>2, <1>6, <1>7, FileOps
  <2>2. file' \in File /\ disk' \in [Pgno -> SUBSET (Value \cup {Absent})]
    BY <1>0, <1>7, <2>1, WriteTyped
  <2>3. QED
    BY <1>0, <1>3, <1>9, <2>1, <2>2 DEF Typed, TypeOK
<1>11. SaltsSeen' /\ Chained' /\ Position'
  <2>1. SaltsSeen'
    BY <1>0, <1>9 DEF Inv, SaltsSeen, Seen, Used
  <2>2. QED
    BY <1>0, <2>1, PositionKept
<1>12. Roles'
  BY <1>0, <1>1, <1>9 DEF Inv, Roles
<1>13. Ends' /\ Transaction'
  BY <1>0, <1>9, EndsKept
<1>14. Checkpoint'
  <2>1. index.bf < index.mx /\ ck'.mx \in index.bf + 1..index.mx
    BY <1>1, <1>3, <1>4
  <2>2. ck.mx = index.mx => ck.n = index.n
    BY <1>0 DEF Inv, Checkpoint
  <2>3. QED
    BY <1>0, <1>3, <1>4, <1>9, <2>1, <2>2 DEF Checkpoint
<1>15. \A q \in 1..pageN : q \in Pgno
  <2>1. pageN \in 0..MaxPage
    BY <1>0 DEF Typed, TypeOK
  <2>2. QED
    BY <2>1, PageFacts DEF Pgno
<1>16. Untouched'
  <2>1. ASSUME NEW q \in 1..pageN \ PagesIn(wal.fr, 1, index.mx)
        PROVE  file'[q] = pos.sum[q] /\ sums'[q] = pos.sum[q]
    BY <1>1, <1>5, <1>8, <1>15 DEF Held, Untouched
  <2>2. QED
    BY <1>0, <1>9, <2>1 DEF Untouched
<1>17. Copied'
  <2>1. ASSUME NEW q \in 1..index.n \ Behind'
        PROVE  /\ sums'[q] = file'[q]
               /\ q \in PagesIn(wal.fr, 1, index.mx) => file'[q] = wal.fr[At(wal.fr, index.mx, q)].v
    <3>1. q \notin PagesIn(wal.fr, ck.mx + 1, index.mx) /\ q \notin ck.todo \ {p}
      BY <1>0, <1>3, <1>9, <2>1 DEF Behind
    <3>2. CASE q = p
      <4>1. At(wal.fr, index.mx, p) = At(wal.fr, ck.mx, p)
        <5>1. ck.mx <= index.mx
          BY <1>2, <1>4
        <5>2. QED
          BY <1>2, <1>4, <3>1, <3>2, <5>1, AtLater
      <4>2. QED
        BY <1>6, <1>8, <3>2, <4>1
    <3>3. CASE q # p
      <4>1. q \in Pgno /\ q \in 1..index.n \ Behind
        <5>1. q \notin Behind
          BY <1>0, <3>1, <3>3 DEF Behind
        <5>2. index.n \in 0..MaxPage
          BY <1>0 DEF Typed, TypeOK
        <5>3. QED
          BY <2>1, <5>1, <5>2, PageFacts DEF Pgno
      <4>2. QED
        BY <1>1, <1>8, <3>3, <4>1 DEF Held, Copied
    <3>4. QED
      BY <3>2, <3>3
  <2>2. QED
    BY <1>0, <1>9, <2>1 DEF Copied
<1>18. InLog' /\ Offsets' /\ LogSums'
  BY <1>0, <1>1, <1>9 DEF Held, InLog, Offsets, LogSums
<1>19. Contents' /\ Applying'
  BY <1>0, <1>1, <1>16, <1>17, <1>18 DEF Held, Contents, Applying, Logging
<1>20. QED
  BY <1>10, <1>11, <1>12, <1>13, <1>14, <1>19 DEF Inv

\* It ends: the file is synced if all of the log was copied.
LEMMA InvEndCheckpoint ==
  ASSUME Inv, EndCheckpoint
  PROVE  Inv'
<1>0. /\ Typed /\ ck.st = "copy" /\ ck.todo = {} /\ ck' = NoCkpt
      /\ index' = [index EXCEPT !.bf = ck.mx]
      /\ UNCHANGED <<wal, ltx, memory, role, pc, cl, left>>
      /\ ck.mx = index.mx => ck.n = pageN /\ Sync(Trim(file, ck.n)) /\ wdisk' = Settled
      /\ ck.mx # index.mx => UNCHANGED <<dbfile, wdisk>>
  BY DEF Inv, EndCheckpoint
<1>1. /\ role \in {"primary", "leaving"} /\ pc \in Logging /\ Active /\ Held
      /\ index.bf < index.mx
  <2>1. ck # NoCkpt
    BY <1>0 DEF NoCkpt
  <2>2. QED
    BY <2>1, CheckpointRuns
<1>2. /\ index \in [mx : Nat, bf : Nat, n : 0..MaxPage, salt : Nat]
      /\ index.mx \in Nat /\ index.bf \in Nat /\ index.mx <= Len(wal.fr) /\ file \in File
  BY <1>0, <1>1, LogFacts DEF Typed, TypeOK, Logging
<1>3. ck.mx \in index.bf + 1..index.mx /\ ck.mx \in Nat /\ (ck.mx = index.mx => ck.n = index.n)
  BY <1>0, <1>2 DEF Inv, Checkpoint
<1>4. /\ index'.bf = ck.mx /\ index'.mx = index.mx /\ index'.n = index.n /\ index'.salt = index.salt
      /\ index' \in [mx : Nat, bf : Nat, n : 0..MaxPage, salt : Nat] /\ index'.bf <= index'.mx
  BY <1>0, <1>2, <1>3
<1>5. UNCHANGED <<sums, pos, pageN, dbw>> /\ Active' /\ End' = End
  BY <1>0, <1>1 DEF memory, Active, Running, End
<1>6. wdisk' \subseteq wdisk /\ wal \in wdisk'
  BY <1>0, SettledTyped DEF Typed, TypeOK
<1>7. /\ file' \in File /\ disk' \in [Pgno -> SUBSET (Value \cup {Absent})]
      /\ \A q \in Pgno : q <= pageN => file'[q] = file[q]
      /\ ck.mx = index.mx => index.n = pageN
      /\ ck.mx # index.mx => file' = file
  <2>1. CASE ck.mx = index.mx
    <3>1. file' = Trim(file, pageN) /\ Sync(Trim(file, pageN))
      BY <1>0, <2>1 DEF Sync
    <3>2. file' \in File /\ disk' \in [Pgno -> SUBSET (Value \cup {Absent})]
      BY <1>0, <1>2, <3>1, FileOps, WriteTyped
    <3>3. QED
      BY <1>0, <1>3, <2>1, <3>1, <3>2 DEF Trim
  <2>2. CASE ck.mx # index.mx
    BY <1>0, <2>2 DEF dbfile, Typed, TypeOK
  <2>3. QED
    BY <2>1, <2>2
<1>8. Typed'
  <2>1. ck' \in [st : {"idle", "locked", "copy"}, mx : Nat, n : 0..MaxPage, todo : SUBSET Pgno]
    BY <1>0, PageFacts DEF NoCkpt
  <2>2. wdisk' \subseteq Log /\ \A w \in wdisk' : w.salt = 0 => w.fr = <<>>
    BY <1>0, <1>6 DEF Typed, TypeOK
  <2>3. QED
    BY <1>0, <1>4, <1>5, <1>6, <1>7, <2>1, <2>2 DEF Typed, TypeOK
<1>9. SaltsSeen'
  BY <1>0, <1>4, <1>5, <1>6 DEF Inv, SaltsSeen, Seen, Used
<1>10. Chained' /\ Position' /\ Ends' /\ Transaction'
  BY <1>0, <1>4, <1>5, PositionKept, EndsKept
<1>11. Roles'
  BY <1>0, <1>1, <1>4, <1>5 DEF Inv, Roles
<1>12. Checkpoint'
  BY <1>0 DEF Checkpoint, NoCkpt
<1>13. pageN \in Nat /\ \A q \in 1..pageN : q \in Pgno /\ q <= pageN
  <2>1. pageN \in 0..MaxPage
    BY <1>0 DEF Typed, TypeOK
  <2>2. QED
    BY <2>1, PageFacts DEF Pgno
<1>14. Behind' = Behind
  <2>1. ck'.st # "copy"
    BY <1>0 DEF NoCkpt
  <2>2. QED
    BY <1>0, <1>4, <2>1 DEF Behind
<1>15. Untouched'
  BY <1>0, <1>1, <1>4, <1>5, <1>7, <1>13 DEF Held, Untouched
<1>16. Copied'
  <2>1. ASSUME NEW q \in 1..index.n PROVE file'[q] = file[q]
    BY <1>7, <1>13
  <2>2. QED
    BY <1>0, <1>1, <1>4, <1>5, <1>14, <2>1 DEF Held, Copied
<1>17. InLog' /\ Offsets' /\ LogSums'
  BY <1>0, <1>1, <1>5 DEF Held, InLog, Offsets, LogSums
<1>18. Contents' /\ Applying'
  BY <1>0, <1>1, <1>15, <1>16, <1>17 DEF Held, Contents, Applying, Logging
<1>19. QED
  BY <1>8, <1>9, <1>10, <1>11, <1>12, <1>18 DEF Inv

\* It dies or is refused.
LEMMA InvAbortCheckpoint ==
  ASSUME Inv, AbortCheckpoint
  PROVE  Inv'
<1>0. /\ Typed /\ ck # NoCkpt /\ ck' = NoCkpt
      /\ UNCHANGED <<dbfile, log, ltx, index, memory, role, pc, cl, left>>
  BY DEF Inv, AbortCheckpoint
<1>1. /\ role \in {"primary", "leaving"} /\ pc \in Logging /\ Active /\ Held
      /\ index.bf < index.mx /\ index.bf \in Nat /\ index.mx \in Nat
  BY <1>0, CheckpointRuns, LogFacts
<1>2. UNCHANGED <<wal, wdisk, file, disk, sums, pos, pageN, dbw>> /\ Active'
  BY <1>0, <1>1 DEF log, dbfile, memory, Active, Running
<1>3. Typed'
  <2>1. ck' \in [st : {"idle", "locked", "copy"}, mx : Nat, n : 0..MaxPage, todo : SUBSET Pgno]
    BY <1>0, PageFacts DEF NoCkpt
  <2>2. QED
    BY <1>0, <1>2, <2>1 DEF Typed, TypeOK
<1>4. SaltsSeen'
  BY <1>0, <1>2 DEF Inv, SaltsSeen, Seen, Used
<1>5. Chained' /\ Position' /\ Ends' /\ Transaction'
  BY <1>0, <1>2, PositionKept, EndsKept
<1>6. Roles' /\ Checkpoint'
  BY <1>0, <1>1, <1>2 DEF Inv, Roles, Checkpoint, NoCkpt
<1>7. Behind \subseteq Behind'
  <2>1. Behind' = PagesIn(wal.fr, index.bf + 1, index.mx)
    BY <1>0, <1>2 DEF Behind, NoCkpt
  <2>2. CASE ck.st = "copy"
    <3>1. /\ ck.mx \in index.bf + 1..index.mx
          /\ ck.todo \subseteq PagesIn(wal.fr, index.bf + 1, ck.mx)
      BY <2>2 DEF Inv, Checkpoint
    <3>2. ck.mx \in Nat /\ index.bf <= ck.mx /\ ck.mx <= index.mx
      BY <1>1, <3>1
    <3>3. PagesIn(wal.fr, index.bf + 1, index.mx)
            = PagesIn(wal.fr, index.bf + 1, ck.mx) \cup PagesIn(wal.fr, ck.mx + 1, index.mx)
      <4>1. \A i, k, j \in Nat : i <= k /\ k <= j =>
              PagesIn(wal.fr, i + 1, j) = PagesIn(wal.fr, i + 1, k) \cup PagesIn(wal.fr, k + 1, j)
        BY PagesInAfter
      <4>2. /\ index.bf \in Nat /\ ck.mx \in Nat /\ index.mx \in Nat
            /\ index.bf <= ck.mx /\ ck.mx <= index.mx
        BY <1>1, <3>2
      <4>3. QED
        BY <4>1, <4>2
    <3>4. QED
      BY <2>1, <2>2, <3>1, <3>3 DEF Behind
  <2>3. CASE ck.st # "copy"
    BY <2>1, <2>3 DEF Behind
  <2>4. QED
    BY <2>2, <2>3
<1>8. Held'
  BY <1>0, <1>1, <1>2, <1>7, HeldKept
<1>9. Contents' /\ Applying'
  BY <1>0, <1>1, <1>8 DEF Contents, Applying, Logging
<1>10. QED
  BY <1>3, <1>4, <1>5, <1>6, <1>9 DEF Inv

\* The log is truncated, or removed by the last connection.
LEMMA InvTruncateWAL ==
  ASSUME Inv, TruncateWAL
  PROVE  Inv'
<1>0. /\ Typed /\ pc = "idle" /\ ck = NoCkpt /\ wal.salt # 0 /\ index.bf = index.mx /\ Running
      /\ ClearLog /\ dbw' = ClearedDBWAL
      /\ index' = [index EXCEPT !.mx = 0, !.bf = 0, !.salt = 0]
      /\ UNCHANGED <<dbfile, ltx, pos, pageN, sums, role, pc, cl, ck, left>>
  BY DEF Inv, TruncateWAL, locks
<1>1. Active /\ Active' /\ Unpublished /\ role \in {"primary", "leaving"}
  BY <1>0 DEF Inv, Ends, Active, Running, Logging, Published, Roles
<1>2. Same(file, pos.sum, 1..pageN) /\ Same(sums, pos.sum, 1..pageN)
  BY <1>0, <1>1, AllCopied
<1>3. /\ wal' \in Log /\ wdisk' \subseteq Log /\ wal' \in wdisk' /\ wdisk' = wdisk \cup {wal'}
      /\ \A x \in wdisk' : x.salt = 0 => x.fr = <<>>
      /\ wal'.salt = 0 /\ wal'.fr = <<>> /\ Len(wal'.fr) = 0
  BY <1>0, ClearLogTyped
<1>4. /\ dbw' \in [offset : Nat, salt : Nat, frameOffsets : [Pgno -> Nat],
                   chksums : [Pgno -> Value \cup {Absent, NoSum}]]
      /\ dbw'.salt = dbw.salt
      /\ dbw'.frameOffsets = NewDBWAL.frameOffsets /\ dbw'.chksums = NewDBWAL.chksums
  BY <1>0, ClearedTyped
<1>5. /\ index'.mx = 0 /\ index'.bf = 0 /\ index'.salt = 0 /\ index'.n = index.n
      /\ index' \in [mx : Nat, bf : Nat, n : 0..MaxPage, salt : Nat]
  <2>1. index \in [mx : Nat, bf : Nat, n : 0..MaxPage, salt : Nat]
    BY <1>0 DEF Typed, TypeOK
  <2>2. QED
    BY <1>0, <2>1
<1>6. Typed'
  <2>1. index'.bf <= index'.mx /\ index'.mx <= Len(wal'.fr)
    BY <1>3, <1>5
  <2>2. QED
    BY <1>0, <1>3, <1>4, <1>5, <2>1 DEF Typed, TypeOK, dbfile
<1>7. SaltsSeen'
  <2>1. Used' = Used /\ Seen' = Used /\ Seen = Used /\ Used \in Nat
    BY <1>0, UsedType DEF Used, Seen
  <2>2. 0 <= Used
    BY <2>1
  <2>3. QED
    BY <1>0, <1>3, <1>4, <1>5, <2>1, <2>2 DEF Inv, SaltsSeen
<1>8. Chained' /\ Position'
  BY <1>0, PositionKept
<1>9. Roles'
  BY <1>0, <1>1, <1>3, <1>4 DEF Inv, Roles, Logging
<1>10. End' = 0
  BY <1>3 DEF End
<1>11. Ends'
  <2>1. Unpublished'
    <3>1. 0 <= Len(wal'.fr) /\ ~(0 > 0) /\ 0 + 1..Len(wal'.fr) = {}
      BY <1>3
    <3>2. QED
      BY <1>0, <1>1, <1>5, <1>10, <3>1 DEF Unpublished
  <2>2. QED
    BY <1>0, <2>1 DEF Ends
<1>12. Transaction' /\ Checkpoint'
  BY <1>0 DEF Transaction, Checkpoint, NoCkpt
<1>13. Held'
  <2>1. pageN \in Pgno /\ index'.n = pageN
    BY <1>0, <1>1, <1>5 DEF Inv, Position, Whole, Active, Unpublished
  <2>2. Bare'
    BY <1>0, <1>2, <1>4, <1>5, <1>6, <1>10, <2>1 DEF Bare, Same, dbfile
  <2>3. QED
    BY <2>2, BareHeldNext
<1>14. Contents' /\ Applying'
  BY <1>0, <1>13 DEF Contents, Applying
<1>15. QED
  BY <1>6, <1>7, <1>8, <1>9, <1>11, <1>12, <1>14 DEF Inv

-----------------------------------------------------------------------------
(* Recovery keeps it. *)

\* The lease is lost.
LEMMA InvDemote ==
  ASSUME Inv, Demote
  PROVE  Inv'
<1>0. /\ Typed /\ role = "primary" /\ role' = "leaving" /\ Spend("demote")
      /\ UNCHANGED <<dbfile, log, ltx, index, memory, locks>>
  BY DEF Inv, Demote
<1>1. UNCHANGED <<file, disk, wal, wdisk, pos, pageN, sums, dbw, pc, cl, ck>>
  BY <1>0 DEF dbfile, log, memory, locks
<1>2. left' \in [tx : Nat, demote : Nat, crash : Nat] /\ left'.tx = left.tx /\ Used' = Used
  BY <1>0, SpentOther
<1>3. Running /\ Running' /\ Active' = Active /\ New' = New /\ End' = End
  BY <1>0, <1>1 DEF Running, Active, New, End
<1>4. Typed'
  BY <1>0, <1>1, <1>2 DEF Typed, TypeOK
<1>5. SaltsSeen'
  BY <1>0, <1>1, <1>2 DEF Inv, SaltsSeen, Seen
<1>6. Chained' /\ Roles'
  BY <1>0, <1>1 DEF Inv, Chained, LTXChain, Roles
<1>7. Position'
  <2>1. Based' = Based
    BY <1>1, <1>3 DEF Based
  <2>2. QED
    BY <1>0, <1>1, <1>3, <2>1 DEF Inv, Position
<1>8. Ends'
  <2>1. Unpublished' = Unpublished /\ Published' = Published
    BY <1>0, <1>1, <1>3 DEF Unpublished, Published
  <2>2. pc # "resize"
    BY <1>0 DEF Inv, Roles
  <2>3. QED
    BY <1>0, <1>1, <1>3, <2>1, <2>2 DEF Inv, Ends
<1>9. Transaction' /\ Checkpoint'
  BY <1>0, <1>1 DEF Inv, Transaction, Checkpoint
<1>10. Active => Held'
  BY <1>0, <1>1, <1>3, HeldKept DEF Inv, Contents, Behind
<1>11. Contents'
  <2>1. pc \notin {"resize", "reset"}
    BY <1>0 DEF Inv, Roles
  <2>2. QED
    BY <1>1, <1>3, <1>10, <2>1 DEF Contents
<1>12. Applying'
  BY <1>0, <1>1, <1>3 DEF Inv, Applying, Same
<1>13. QED
  BY <1>4, <1>5, <1>6, <1>7, <1>8, <1>9, <1>11, <1>12 DEF Inv

\* A replica becomes the primary.
LEMMA InvPromote ==
  ASSUME Inv, Promote
  PROVE  Inv'
<1>0. /\ Typed /\ role = "replica" /\ role' = "primary" /\ pc = "idle"
      /\ UNCHANGED <<dbfile, log, ltx, index, memory, locks, left>>
  BY DEF Inv, Promote
<1>1. UNCHANGED <<file, disk, wal, wdisk, pos, pageN, sums, dbw, pc, cl, ck>>
  BY <1>0 DEF dbfile, log, memory, locks
<1>2. Running /\ Running' /\ Active /\ Active' /\ New' = New /\ End' = End
  BY <1>0, <1>1 DEF Running, Active, New, End, Logging
<1>3. Typed' /\ SaltsSeen'
  BY <1>0, <1>1 DEF Inv, Typed, TypeOK, SaltsSeen, Seen, Used
<1>4. Chained' /\ Roles'
  BY <1>0, <1>1 DEF Inv, Chained, LTXChain, Roles
<1>5. Position'
  BY <1>0, <1>1, <1>2 DEF Inv, Position
<1>6. Ends'
  <2>1. Unpublished' = Unpublished /\ Published' = Published
    BY <1>0, <1>1, <1>2 DEF Unpublished, Published
  <2>2. QED
    BY <1>0, <1>1, <1>2, <2>1 DEF Inv, Ends
<1>7. Transaction' /\ Checkpoint'
  BY <1>0, <1>1 DEF Inv, Transaction, Checkpoint
<1>8. Held'
  BY <1>0, <1>1, <1>2, HeldKept DEF Inv, Contents, Behind
<1>9. Contents' /\ Applying'
  BY <1>0, <1>1, <1>8 DEF Contents, Applying
<1>10. QED
  BY <1>3, <1>4, <1>5, <1>6, <1>7, <1>9 DEF Inv

\* Nothing is under way on a node that runs, there is no log and the database is that
\* of the newest LTX file.
AtRest ==
  /\ Bare /\ SaltsSeen /\ Chained /\ Running /\ pc = "idle" /\ wal.salt = 0
  /\ Whole(pos.sum, pageN) /\ pos.sum = New.post

\* This is all that the invariant says then.
LEMMA AtRestInv == AtRest => Inv
<1>1. SUFFICES ASSUME AtRest PROVE Inv
  OBVIOUS
<1>2. Typed /\ SaltsSeen /\ Chained
  BY <1>1 DEF AtRest, Bare
<1>3. Roles
  BY <1>1 DEF AtRest, Bare, Roles, Logging, Running
<1>4. Position
  BY <1>1 DEF AtRest, Position
<1>5. Ends
  <2>1. Len(wal.fr) = 0
    BY <1>1, <1>2, LogFacts DEF AtRest
  <2>2. 0 <= Len(wal.fr) /\ ~(0 > 0) /\ 0 + 1..Len(wal.fr) = {}
    BY <2>1
  <2>3. Unpublished
    BY <1>1, <2>2 DEF AtRest, Bare, Unpublished
  <2>4. QED
    BY <1>1, <2>3 DEF AtRest, Ends
<1>6. Transaction /\ Checkpoint
  BY <1>1 DEF AtRest, Bare, Transaction, Checkpoint, NoCkpt
<1>7. Held
  BY <1>1, BareHeld DEF AtRest
<1>8. Contents /\ Applying
  BY <1>1, <1>7 DEF AtRest, Contents, Applying
<1>9. QED
  BY <1>2, <1>3, <1>4, <1>5, <1>6, <1>8 DEF Inv

\* The same after a step.
LEMMA AtRestInvNext == (AtRest => Inv)'
BY AtRestInv, PTL

\* The database is being opened.
Reopening ==
  /\ Typed /\ SaltsSeen /\ Chained /\ role = "opening" /\ index.mx = 0 /\ ck = NoCkpt
  /\ pc \in {"recover", "resize", "reset", "init", "apply", "verify"}
  /\ pc \in {"init", "apply", "verify"} => wal.salt = 0
  /\ pc \in {"resize", "reset"} => wal.salt # 0
  /\ wal.salt = 0 => /\ dbw.frameOffsets = NewDBWAL.frameOffsets
                     /\ dbw.chksums = NewDBWAL.chksums
  /\ Applying

\* This is all that the invariant says then ...
LEMMA ReopeningInv == Reopening => Inv
BY DEF Reopening, Inv, Roles, Logging, Position, Running, Ends, Active, Transaction, Checkpoint,
       NoCkpt, Contents

\* ... and after a step.
LEMMA ReopeningInvNext == (Reopening => Inv)'
BY ReopeningInv, PTL

\* CheckpointNoLock runs on a node that leaves, between transactions, or in Open.
LEMMA CheckpointWhere ==
  ASSUME Inv, CanCheckpoint
  PROVE  /\ ck = NoCkpt
         /\ \/ role = "leaving" /\ pc = "idle" /\ Active /\ Unpublished /\ Held
            \/ role = "opening" /\ pc = "recover"
BY DEF Inv, CanCheckpoint, Roles, Typed, TypeOK, Logging, Active, Running, Ends, Published, Contents

\* There is nothing in the log.
LEMMA InvCheckpointNothing ==
  ASSUME Inv, CheckpointNothing
  PROVE  Inv'
<1>0. /\ Typed /\ CanCheckpoint /\ wal.salt = 0 /\ index' \in {index, UpdatedSHM(pageN)} /\ Recovered
      /\ UNCHANGED <<dbfile, log, ltx, memory, cl, ck, left>>
  BY DEF Inv, CheckpointNothing
<1>1. UNCHANGED <<file, disk, wal, wdisk, pos, pageN, sums, dbw>>
  BY <1>0 DEF dbfile, log, memory
<1>2. /\ index \in [mx : Nat, bf : Nat, n : 0..MaxPage, salt : Nat] /\ index.bf <= index.mx
      /\ pageN \in 0..MaxPage /\ dbw.salt \in Nat /\ Len(wal.fr) = 0
      /\ dbw.frameOffsets = NewDBWAL.frameOffsets /\ dbw.chksums = NewDBWAL.chksums
  BY <1>0, LogFacts DEF Typed, TypeOK, Inv, Roles
<1>3. index.mx = 0 /\ (role = "leaving" => index.n = pageN) /\ ck = NoCkpt
  BY <1>0, CheckpointWhere DEF Inv, Roles, Unpublished, End
<1>4. index.bf = 0 /\ index.bf \in Nat
  BY <1>2, <1>3
<1>5. /\ index'.mx = 0 /\ index'.bf = 0 /\ index'.salt \in {index.salt, dbw.salt}
      /\ index' \in [mx : Nat, bf : Nat, n : 0..MaxPage, salt : Nat]
      /\ role = "leaving" => index'.n = pageN
  BY <1>0, <1>2, <1>3, <1>4 DEF UpdatedSHM
<1>6. pc' \in {"idle", "init"} /\ role' \in {"replica", "opening"} /\ pc # "begin"
  BY <1>0, CheckpointWhere DEF Recovered
<1>7. Typed'
  <2>1. index'.bf <= index'.mx /\ index'.mx <= Len(wal'.fr)
    BY <1>1, <1>2, <1>5
  <2>2. QED
    BY <1>0, <1>1, <1>5, <1>6, <2>1 DEF Typed, TypeOK
<1>8. SaltsSeen' /\ Chained'
  <2>1. Used' = Used /\ Seen' = Used /\ Seen = Used
    BY <1>0, <1>6 DEF Used, Seen
  <2>2. SaltsSeen'
    BY <1>0, <1>1, <1>5, <1>6, <2>1 DEF Inv, SaltsSeen
  <2>3. QED
    BY <1>0, <2>2 DEF Inv, Chained, LTXChain
<1>9. CASE role = "leaving"
  <2>1. pc = "idle" /\ Active /\ Unpublished /\ Running
    BY <1>0, <1>9, CheckpointWhere DEF Active
  <2>2. Same(file, pos.sum, 1..pageN) /\ Same(sums, pos.sum, 1..pageN)
    BY <1>3, <1>4, <2>1, AllCopied
  <2>3. Whole(pos.sum, pageN) /\ pos.sum = New.post /\ pageN \in Pgno
    BY <2>1 DEF Inv, Position, Whole
  <2>4. role' = "replica" /\ pc' = "idle" /\ New' = New
    BY <1>0, <1>9 DEF Recovered, New
  <2>5. Bare'
    <3>1. End' = 0 /\ ck' = NoCkpt
      BY <1>0, <1>1, <1>3 DEF End
    <3>2. QED
      BY <1>1, <1>2, <1>5, <1>7, <1>9, <2>2, <2>3, <3>1 DEF Bare, Same
  <2>6. AtRest'
    BY <1>0, <1>1, <1>8, <2>3, <2>4, <2>5 DEF AtRest, Running
  <2>7. QED
    BY <2>6, AtRestInvNext
<1>10. CASE role # "leaving"
  <2>1. role' = "opening" /\ pc' = "init"
    BY <1>0, <1>10, CheckpointWhere DEF Recovered
  <2>2. Reopening'
    BY <1>0, <1>1, <1>2, <1>3, <1>5, <1>7, <1>8, <2>1 DEF Reopening, Applying
  <2>3. QED
    BY <2>2, ReopeningInvNext
<1>11. QED
  BY <1>9, <1>10

\* Unless a transaction is about to be published, the last one ends where LiteFS has
\* read the log to.
LEMMA LastCommitEnd ==
  ASSUME Typed, Unpublished, pc # "framed", pageN \in Pgno
  PROVE  LastCommit(wal.fr) = End
<1>1. Len(wal.fr) \in Nat /\ End \in Nat /\ End \in 0..Len(wal.fr)
  BY LogFacts DEF Unpublished
<1>2. \A i \in End + 1..Len(wal.fr) : wal.fr[i].commit = 0
  BY DEF Unpublished
<1>3. End # 0 => wal.fr[End].commit = pageN
  BY <1>1 DEF Unpublished
<1>4. pageN # 0
  BY PageFacts DEF Pgno
<1>5. QED
  BY <1>1, <1>2, <1>3, <1>4, LastCommitIs

\* The last version of each page is copied.
LEMMA InvCheckpointPages ==
  ASSUME Inv, CheckpointPages
  PROVE  Inv'
<1> DEFINE S == PagesIn(wal.fr, 1, CheckpointEnd)
           g == Version(file, wal.fr, CheckpointEnd)
<1>0. /\ Typed /\ CanCheckpoint /\ wal.salt # 0 /\ WritePages(S, g) /\ pc' = "resize"
      /\ UNCHANGED <<log, ltx, index, pos, pageN, dbw, role, cl, ck, left>>
  BY DEF Inv, CheckpointPages
<1>1. CheckpointEnd \in 0..Len(wal.fr) /\ CheckpointEnd \in Nat
  <2>1. CheckpointEnd \in 0..Len(wal.fr) /\ Len(wal.fr) \in Nat
    BY <1>0, LastCommitIn, LogFacts DEF CheckpointEnd
  <2>2. QED
    BY <2>1
<1>2. file \in File /\ sums \in File /\ g \in File
  BY <1>0, <1>1, VersionType, LogFacts DEF Typed, TypeOK
<1>3. /\ file' = Overlay(file, S, g) /\ sums' = Overlay(sums, S, g)
      /\ Write(Overlay(file, S, g)) /\ UNCHANGED <<wal, wdisk>>
  BY <1>0 DEF WritePages, Write, log
<1>4. pc # "begin" /\ pc \notin {"import", "apply", "verify"} /\ ck = NoCkpt
  BY <1>0, CheckpointWhere
<1>5. Typed'
  <2>1. Overlay(file, S, g) \in File /\ sums' \in File
    BY <1>2, <1>3, FileOps
  <2>2. file' \in File /\ disk' \in [Pgno -> SUBSET (Value \cup {Absent})]
    BY <1>0, <1>3, <2>1, WriteTyped
  <2>3. QED
    BY <1>0, <1>3, <1>4, <2>1, <2>2 DEF Typed, TypeOK
<1>6. SaltsSeen' /\ Chained'
  BY <1>0, <1>3, <1>4 DEF Inv, SaltsSeen, Seen, Used, Chained, LTXChain
<1>7. CASE role = "leaving"
  <2>1. pc = "idle" /\ Active /\ Unpublished /\ Held /\ Running /\ ck = NoCkpt
    BY <1>0, <1>7, CheckpointWhere DEF Active
  <2>2. CheckpointEnd = End
    <3>1. pageN \in Pgno
      BY <2>1 DEF Inv, Position, Whole
    <3>2. QED
      BY <1>0, <2>1, <3>1, LastCommitEnd DEF CheckpointEnd
  <2>3. ASSUME NEW p \in 1..pageN PROVE file'[p] = pos.sum[p] /\ sums'[p] = pos.sum[p]
    <3>0. p \in Pgno
      <4>1. pageN \in 0..MaxPage
        BY <1>0 DEF Typed, TypeOK
      <4>2. QED
        BY <4>1, PageFacts DEF Pgno
    <3>1. CASE p \in S
      <4>1. g[p] = wal.fr[At(wal.fr, CheckpointEnd, p)].v
        BY <3>0, <3>1, VersionIs
      <4>2. g[p] = pos.sum[p]
        BY <2>1, <2>2, <3>1, <4>1 DEF Held, InLog
      <4>3. QED
        BY <1>3, <3>0, <3>1, <4>2 DEF Overlay
    <3>2. CASE p \notin S
      <4>1. p \notin PagesIn(wal.fr, 1, index.mx)
        BY <2>1, <2>2, <3>2 DEF Unpublished
      <4>2. file[p] = pos.sum[p] /\ sums[p] = pos.sum[p]
        BY <2>1, <4>1 DEF Held, Untouched
      <4>3. QED
        BY <1>3, <3>0, <3>2, <4>2 DEF Overlay
    <3>3. QED
      BY <3>1, <3>2
  <2>4. Roles'
    BY <1>0, <1>3, <1>7, <2>1 DEF Roles
  <2>5. Running' /\ ~Active' /\ New' = New /\ End' = End
    BY <1>0, <1>3, <1>7 DEF Running, Active, Logging, New, End
  <2>6. Position'
    BY <1>0, <2>1, <2>5 DEF Inv, Position
  <2>7. Ends'
    <3>1. Unpublished'
      BY <1>0, <1>3, <2>1, <2>5 DEF Unpublished
    <3>2. QED
      BY <2>5, <3>1 DEF Ends
  <2>8. Transaction' /\ Checkpoint'
    BY <1>0, <2>1 DEF Transaction, Checkpoint, NoCkpt
  <2>9. Contents' /\ Applying'
    BY <1>0, <2>3, <2>5 DEF Contents, Applying, Same
  <2>10. QED
    BY <1>5, <1>6, <2>4, <2>6, <2>7, <2>8, <2>9 DEF Inv
<1>8. CASE role # "leaving"
  <2>1. role = "opening" /\ pc = "recover" /\ index.mx = 0
    BY <1>0, <1>8, CheckpointWhere DEF Inv, Roles
  <2>2. Reopening'
    BY <1>0, <1>3, <1>4, <1>5, <1>6, <2>1 DEF Reopening, Applying
  <2>3. QED
    BY <2>2, ReopeningInvNext
<1>9. QED
  BY <1>7, <1>8

\* The database is resized and synced.
LEMMA InvCheckpointResize ==
  ASSUME Inv, CheckpointResize
  PROVE  Inv'
<1> DEFINE e == LastCommit(wal.fr)
           n == wal.fr[e].commit
<1>0. /\ Typed /\ pc = "resize" /\ pc' = "reset"
      /\ UNCHANGED <<wal, ltx, index, pos, dbw, role, cl, ck, left>>
      /\ e = 0 => UNCHANGED <<dbfile, sums, pageN, wdisk>>
      /\ e # 0 => /\ Sync(Trim(file, n)) /\ wdisk' = Settled
                  /\ sums' = Resized(sums, n, pageN) /\ pageN' = n
  BY DEF Inv, CheckpointResize
<1>1. role \in {"leaving", "opening"} /\ wal.salt # 0 /\ ck = NoCkpt
  BY <1>0 DEF Inv, Roles, Typed, TypeOK, Logging
<1>2. e \in 0..Len(wal.fr) /\ Len(wal.fr) \in Nat /\ (e # 0 => n \in 0..MaxPage)
  <2>1. e \in 0..Len(wal.fr) /\ Len(wal.fr) \in Nat
    BY <1>0, LastCommitIn, LogFacts
  <2>2. e # 0 => e \in 1..Len(wal.fr)
    BY <2>1
  <2>3. QED
    BY <1>0, <2>1, <2>2, LogFacts
<1>3. wdisk' \subseteq wdisk /\ wal \in wdisk'
  BY <1>0, SettledTyped DEF Typed, TypeOK
<1>4. /\ file' \in File /\ sums' \in File /\ disk' \in [Pgno -> SUBSET (Value \cup {Absent})]
      /\ pageN' \in 0..MaxPage
  <2>1. file \in File /\ sums \in File /\ pageN \in 0..MaxPage
        /\ disk \in [Pgno -> SUBSET (Value \cup {Absent})]
    BY <1>0 DEF Typed, TypeOK
  <2>2. CASE e = 0
    BY <1>0, <2>1, <2>2 DEF dbfile
  <2>3. CASE e # 0
    BY <1>0, <1>2, <2>1, <2>3, FileOps, WriteTyped
  <2>4. QED
    BY <2>2, <2>3
<1>5. Typed'
  <2>1. wdisk' \subseteq Log /\ \A w \in wdisk' : w.salt = 0 => w.fr = <<>>
    BY <1>0, <1>3 DEF Typed, TypeOK
  <2>2. QED
    BY <1>0, <1>3, <1>4, <2>1 DEF Typed, TypeOK
<1>6. SaltsSeen' /\ Chained'
  BY <1>0, <1>3 DEF Inv, SaltsSeen, Seen, Used, Chained, LTXChain
<1>7. CASE role = "leaving"
  <2>1. /\ Running /\ Unpublished /\ Whole(pos.sum, pageN) /\ pos.sum = New.post
        /\ Same(file, pos.sum, 1..pageN) /\ Same(sums, pos.sum, 1..pageN)
    BY <1>0, <1>7 DEF Inv, Ends, Position, Running, Contents
  <2>2. e = End /\ (e # 0 => n = pageN)
    <3>1. pageN \in Pgno
      BY <2>1 DEF Whole
    <3>2. e = End
      BY <1>0, <2>1, <3>1, LastCommitEnd
    <3>3. e # 0 => n = pageN
      BY <1>2, <2>1, <3>2 DEF Unpublished
    <3>4. QED
      BY <3>2, <3>3
  <2> HIDE DEF e, n
  <2>3. pageN' = pageN
    BY <1>0, <2>2
  <2>4. ASSUME NEW p \in 1..pageN PROVE file'[p] = file[p] /\ sums'[p] = sums[p]
    <3>1. CASE e = 0
      BY <1>0, <3>1 DEF dbfile
    <3>2. CASE e # 0
      <4>1. p \in Pgno /\ p <= pageN /\ p \notin pageN + 1..pageN
        BY <2>1, PageFacts DEF Whole, Pgno
      <4>2. file' = Trim(file, pageN) /\ sums' = Resized(sums, pageN, pageN)
        BY <1>0, <2>2, <3>2 DEF Sync
      <4>3. QED
        BY <4>1, <4>2 DEF Trim, Resized
    <3>3. QED
      BY <3>1, <3>2
  <2>5. Roles'
    BY <1>0, <1>1, <1>7 DEF Roles
  <2>6. Running' /\ ~Active' /\ New' = New
    BY <1>0, <1>7 DEF Running, Active, Logging, New
  <2>7. Position' /\ Ends' /\ Transaction' /\ Checkpoint'
    BY <1>0, <1>1, <2>1, <2>3, <2>6 DEF Position, Ends, Transaction, Checkpoint, NoCkpt
  <2>8. Contents' /\ Applying'
    BY <1>0, <2>1, <2>3, <2>4, <2>6 DEF Contents, Applying, Same
  <2>9. QED
    BY <1>5, <1>6, <2>5, <2>7, <2>8 DEF Inv
<1>8. CASE role = "opening"
  <2>1. index.mx = 0
    BY <1>8 DEF Inv, Roles
  <2>2. Reopening'
    BY <1>0, <1>1, <1>5, <1>6, <1>8, <2>1 DEF Reopening, Applying
  <2>3. QED
    BY <2>2, ReopeningInvNext
<1>9. QED
  BY <1>1, <1>7, <1>8

\* The log is truncated and the wal-index rewritten.
LEMMA InvCheckpointReset ==
  ASSUME Inv, CheckpointReset
  PROVE  Inv'
<1>0. /\ Typed /\ pc = "reset" /\ ClearLog /\ dbw' = ClearedDBWAL /\ index' = UpdatedSHM(pageN)
      /\ Recovered /\ UNCHANGED <<dbfile, ltx, pos, pageN, sums, cl, ck, left>>
  BY DEF Inv, CheckpointReset
<1>1. role \in {"leaving", "opening"} /\ ck = NoCkpt
  BY <1>0 DEF Inv, Roles, Typed, TypeOK, Logging
<1>2. /\ wal' \in Log /\ wdisk' \subseteq Log /\ wal' \in wdisk' /\ wdisk' = wdisk \cup {wal'}
      /\ \A x \in wdisk' : x.salt = 0 => x.fr = <<>>
      /\ wal'.salt = 0 /\ Len(wal'.fr) = 0
  BY <1>0, ClearLogTyped
<1>3. /\ dbw' \in [offset : Nat, salt : Nat, frameOffsets : [Pgno -> Nat],
                   chksums : [Pgno -> Value \cup {Absent, NoSum}]]
      /\ dbw'.salt = dbw.salt
      /\ dbw'.frameOffsets = NewDBWAL.frameOffsets /\ dbw'.chksums = NewDBWAL.chksums
  BY <1>0, ClearedTyped
<1>4. /\ index'.mx = 0 /\ index'.bf = 0 /\ index'.salt = dbw.salt /\ index'.n = pageN
      /\ index' \in [mx : Nat, bf : Nat, n : 0..MaxPage, salt : Nat]
  <2>1. pageN \in 0..MaxPage /\ dbw.salt \in Nat
    BY <1>0 DEF Typed, TypeOK
  <2>2. QED
    BY <1>0, <2>1 DEF UpdatedSHM
<1>5. role' \in {"replica", "opening"} /\ pc' \in {"idle", "init"}
  BY <1>0, <1>1 DEF Recovered
<1>6. Typed'
  <2>1. index'.bf <= index'.mx /\ index'.mx <= Len(wal'.fr)
    BY <1>2, <1>4
  <2>2. QED
    BY <1>0, <1>2, <1>3, <1>4, <1>5, <2>1 DEF Typed, TypeOK, dbfile
<1>7. SaltsSeen' /\ Chained'
  <2>1. Used' = Used /\ Seen' = Used /\ Seen = Used /\ Used \in Nat
    BY <1>0, <1>5, UsedType DEF Used, Seen
  <2>2. 0 <= Used
    BY <2>1
  <2>3. SaltsSeen'
    BY <1>0, <1>2, <1>3, <1>4, <1>5, <2>1, <2>2 DEF Inv, SaltsSeen
  <2>4. QED
    BY <1>0, <2>3 DEF Inv, Chained, LTXChain
<1>8. CASE role = "leaving"
  <2>1. /\ Whole(pos.sum, pageN) /\ pos.sum = New.post /\ pageN \in Pgno
        /\ Same(file, pos.sum, 1..pageN) /\ Same(sums, pos.sum, 1..pageN)
    BY <1>0, <1>8 DEF Inv, Position, Running, Contents, Whole
  <2>2. role' = "replica" /\ pc' = "idle" /\ New' = New /\ End' = 0
    BY <1>0, <1>2, <1>8 DEF Recovered, New, End
  <2>3. Bare'
    BY <1>0, <1>1, <1>3, <1>4, <1>6, <2>1, <2>2 DEF Bare, Same, dbfile
  <2>4. AtRest'
    BY <1>0, <1>2, <1>7, <2>1, <2>2, <2>3 DEF AtRest, Running
  <2>5. QED
    BY <2>4, AtRestInvNext
<1>9. CASE role = "opening"
  <2>1. role' = "opening" /\ pc' = "init"
    BY <1>0, <1>9 DEF Recovered
  <2>2. Reopening'
    BY <1>0, <1>1, <1>2, <1>3, <1>4, <1>6, <1>7, <2>1 DEF Reopening, Applying
  <2>3. QED
    BY <2>2, ReopeningInvNext
<1>10. QED
  BY <1>1, <1>8, <1>9

\* The node is down, or its database could not be opened.
Stopped ==
  /\ Typed /\ SaltsSeen /\ Chained /\ role \in {"down", "failed"} /\ pc = "idle"
  /\ index.mx = 0 /\ ck = NoCkpt
  /\ wal.salt = 0 \/ role = "down" => /\ dbw.frameOffsets = NewDBWAL.frameOffsets
                                      /\ dbw.chksums = NewDBWAL.chksums

\* This is all that the invariant says then ...
LEMMA StoppedInv == Stopped => Inv
BY DEF Stopped, Inv, Roles, Logging, Position, Running, Ends, Active, Transaction, Checkpoint,
       NoCkpt, Contents, Applying

\* ... and after a step.
LEMMA StoppedInvNext == (Stopped => Inv)'
BY StoppedInv, PTL

\* The power fails.
LEMMA InvPowerLoss ==
  ASSUME Inv, PowerLoss
  PROVE  Inv'
<1>0. /\ Typed /\ Spend("crash")
      /\ pos' = NoPos /\ pageN' = 0 /\ sums' = NoPos.sum /\ dbw' = NewDBWAL
      /\ index' = [mx |-> 0, bf |-> 0, n |-> 0, salt |-> 0]
      /\ role' = "down" /\ pc' = "idle" /\ cl' = NoTx /\ ck' = NoCkpt /\ UNCHANGED ltx
  BY DEF Inv, PowerLoss
<1>1. PICK f \in [Pgno -> UNION {disk[p] : p \in Pgno}] : (\A p \in Pgno : f[p] \in disk[p]) /\ Sync(f)
  BY DEF PowerLoss
<1>2. PICK w \in wdisk : SyncLog(w)
  BY DEF PowerLoss
<1>3. file' \in File /\ disk' \in [Pgno -> SUBSET (Value \cup {Absent})]
  <2>1. disk \in [Pgno -> SUBSET (Value \cup {Absent})]
    BY <1>0 DEF Typed, TypeOK
  <2>2. \A p \in Pgno : f[p] \in Value \cup {Absent}
    BY <1>1, <2>1
  <2>3. f \in File
    BY <2>2 DEF File
  <2>4. QED
    BY <1>0, <1>1, <2>3, WriteTyped
<1>4. /\ wal' \in Log /\ wdisk' \subseteq Log /\ wal' \in wdisk' /\ wdisk' = {wal'}
      /\ \A x \in wdisk' : x.salt = 0 => x.fr = <<>>
      /\ wal'.salt = w.salt
  <2>1. w \in Log /\ (w.salt = 0 => w.fr = <<>>)
    BY <1>0 DEF Typed, TypeOK
  <2>2. QED
    BY <1>2, <2>1, SyncLogTyped
<1>5. left' \in [tx : Nat, demote : Nat, crash : Nat] /\ left'.tx = left.tx /\ Used' = Used
  BY <1>0, SpentOther
<1>6. NoPos \in [txid : Nat, sum : File] /\ NoPos.sum \in File
  BY DEF NoPos, File
<1>7. /\ NewDBWAL \in [offset : Nat, salt : Nat, frameOffsets : [Pgno -> Nat],
                       chksums : [Pgno -> Value \cup {Absent, NoSum}]]
      /\ NewDBWAL.salt = 0
  BY DEF NewDBWAL
<1>8. /\ NoTx \in [w : SUBSET Pgno, v : Value \cup {Absent}, at : Nat]
      /\ NoCkpt \in [st : {"idle", "locked", "copy"}, mx : Nat, n : 0..MaxPage, todo : SUBSET Pgno]
  BY PageFacts DEF NoTx, NoCkpt
<1>9. /\ index' \in [mx : Nat, bf : Nat, n : 0..MaxPage, salt : Nat]
      /\ index'.mx = 0 /\ index'.bf = 0 /\ index'.salt = 0
  BY <1>0, PageFacts
<1>10. Typed'
  <2>1. index'.bf <= index'.mx /\ index'.mx <= Len(wal'.fr) /\ 0 \in 0..MaxPage
    <3>1. Len(wal'.fr) \in Nat
      BY <1>4, LenProperties DEF Log
    <3>2. QED
      BY <1>9, <3>1, PageFacts
  <2>2. left'.tx <= Budget.tx /\ ltx \in Seq(LTX) /\ ltx # <<>>
    BY <1>0, <1>5 DEF Typed, TypeOK
  <2>3. QED
    BY <1>0, <1>3, <1>4, <1>5, <1>6, <1>7, <1>8, <1>9, <2>1, <2>2 DEF Typed, TypeOK
<1>11. SaltsSeen' /\ Chained'
  <2>1. Seen' = Used /\ Used \in Nat /\ 0 <= Used
    BY <1>0, <1>5, UsedType DEF Seen
  <2>2. w.salt <= Used /\ \A k \in 1..Len(ltx) : ltx[k].salt <= Used
    BY <1>0, SaltsUsed DEF Inv
  <2>3. SaltsSeen'
    BY <1>0, <1>4, <1>7, <1>9, <2>1, <2>2 DEF SaltsSeen
  <2>4. QED
    BY <1>0, <2>3 DEF Inv, Chained, LTXChain
<1>12. Stopped'
  BY <1>0, <1>9, <1>10, <1>11 DEF Stopped
<1>13. QED
  BY <1>12, StoppedInvNext

\* The log that syncWALToLTX leaves: none that is new.
LEMMA SyncedToLTX ==
  ASSUME Typed, SyncWALToLTX
  PROVE  /\ wal' \in Log /\ wdisk' \subseteq Log /\ wal' \in wdisk' /\ wdisk' \subseteq wdisk \cup {wal'}
         /\ \A x \in wdisk' : x.salt = 0 => x.fr = <<>>
         /\ wal'.salt \in {0, wal.salt}
<1>1. CASE UNCHANGED log
  BY <1>1 DEF log, Typed, TypeOK
<1>2. CASE ClearLog
  BY <1>2, ClearLogTyped
<1>3. CASE ~(UNCHANGED log) /\ ~ClearLog
  <2> DEFINE end == New.off + New.size
             k == IF Len(wal.fr) < end THEN Len(wal.fr) ELSE end
             x == [wal EXCEPT !.gen = wal.gen + 1, !.size = end, !.fr = SubSeq(wal.fr, 1, k)]
  <2>1. WriteLog(x) /\ wal.salt # 0
    BY <1>3, NewFacts DEF SyncWALToLTX
  <2>2. end \in Nat /\ Len(wal.fr) \in Nat /\ wal \in Log /\ wal.fr \in Seq(Frame) /\ wal.gen + 1 \in Nat
    <3>1. New.off \in Nat /\ New.size \in Nat
      BY NewFacts
    <3>2. Len(wal.fr) \in Nat /\ wal \in Log /\ wal.fr \in Seq(Frame) /\ wal.gen \in Nat
      BY LogFacts
    <3>3. QED
      BY <3>1, <3>2
  <2>3. k \in Nat /\ k \in 0..Len(wal.fr)
    BY <2>2
  <2> HIDE DEF end, k
  <2>4. SubSeq(wal.fr, 1, k) \in Seq(Frame)
    BY <2>2, <2>3, SubSeqProperties
  <2>5. x \in Log /\ x.salt = wal.salt
    BY <2>2, <2>4 DEF Log
  <2> HIDE DEF x
  <2>6. QED
    BY <2>1, <2>5, WriteLogTyped
<1>4. QED
  BY <1>1, <1>2, <1>3

\* DB.Open starts.
LEMMA InvOpen ==
  ASSUME Inv, Open
  PROVE  Inv'
<1>0. /\ Typed /\ role = "down" /\ pageN' = Size(file) /\ SyncWALToLTX
      /\ UNCHANGED <<dbfile, ltx, index, pos, sums, dbw, cl, ck, left>>
      /\ \/ role' = "failed" /\ pc' = pc
         \/ role' = "opening" /\ pc' = "recover"
  BY DEF Inv, Open
<1>1. pc = "idle" /\ index.mx = 0 /\ ck = NoCkpt
  BY <1>0 DEF Inv, Roles
<1>2. dbw.frameOffsets = NewDBWAL.frameOffsets /\ dbw.chksums = NewDBWAL.chksums
  BY <1>0 DEF Inv, Roles
<1>3. /\ wal' \in Log /\ wdisk' \subseteq Log /\ wal' \in wdisk' /\ wdisk' \subseteq wdisk \cup {wal'}
      /\ \A x \in wdisk' : x.salt = 0 => x.fr = <<>>
      /\ wal'.salt \in {0, wal.salt}
  BY <1>0, SyncedToLTX
<1>4. Size(file) \in 0..MaxPage
  BY <1>0, SizeType DEF Typed, TypeOK
<1>5. Typed'
  <2>1. Len(wal'.fr) \in Nat
    BY <1>3, LenProperties DEF Log
  <2>2. index.mx <= Len(wal'.fr)
    BY <1>1, <2>1
  <2>3. QED
    BY <1>0, <1>1, <1>3, <1>4, <2>2 DEF Typed, TypeOK, dbfile
<1>6. SaltsSeen' /\ Chained'
  <2>1. Used' = Used /\ Seen' = Used /\ Seen = Used /\ Used \in Nat
    BY <1>0, <1>1, UsedType DEF Used, Seen
  <2>2. \A w \in wdisk' : w.salt <= Used
    BY <1>0, <1>3, <2>1, SaltsUsed DEF Inv
  <2>3. SaltsSeen'
    BY <1>0, <1>1, <2>1, <2>2 DEF Inv, SaltsSeen
  <2>4. QED
    BY <1>0, <2>3 DEF Inv, Chained, LTXChain
<1>7. CASE role' = "failed"
  BY <1>0, <1>1, <1>2, <1>5, <1>6, <1>7, StoppedInvNext DEF Stopped
<1>8. CASE role' = "opening"
  <2>1. pc' = "recover"
    BY <1>0, <1>8
  <2>2. Reopening'
    BY <1>0, <1>1, <1>2, <1>5, <1>6, <1>8, <2>1 DEF Reopening, Applying
  <2>3. QED
    BY <2>2, ReopeningInvNext
<1>9. QED
  BY <1>0, <1>7, <1>8

\* The checksums of the database are those of its pages.
LEMMA InvInitDatabaseFile ==
  ASSUME Inv, InitDatabaseFile
  PROVE  Inv'
<1>0. /\ Typed /\ pc = "init" /\ pc' = "apply" /\ pageN' = Size(file) /\ sums' = Content(file)
      /\ UNCHANGED <<dbfile, log, ltx, index, pos, dbw, role, cl, ck, left>>
  BY DEF Inv, InitDatabaseFile
<1>1. role = "opening" /\ index.mx = 0 /\ ck = NoCkpt /\ wal.salt = 0
  BY <1>0 DEF Inv, Roles, Typed, TypeOK
<1>2. dbw.frameOffsets = NewDBWAL.frameOffsets /\ dbw.chksums = NewDBWAL.chksums
  BY <1>1 DEF Inv, Roles
<1>3. Size(file) \in 0..MaxPage /\ Content(file) \in File
  <2>1. file \in File
    BY <1>0 DEF Typed, TypeOK
  <2>2. QED
    BY <2>1, SizeType, FileOps
<1>4. Typed'
  BY <1>0, <1>1, <1>3 DEF Typed, TypeOK, dbfile, log
<1>5. SaltsSeen' /\ Chained'
  BY <1>0 DEF Inv, SaltsSeen, Seen, Used, Chained, LTXChain, log
<1>6. Applying'
  <2>1. ASSUME NEW p \in 1..New.n PROVE sums'[p] \in {file[p], Absent}
    <3>1. p \in Pgno
      BY <1>0, NewFacts, PageFacts DEF Pgno
    <3>2. QED
      BY <1>0, <3>1 DEF Content, Trim
  <2>2. QED
    BY <1>0, <1>1, <2>1 DEF Applying, New, dbfile
<1>7. Reopening'
  BY <1>0, <1>1, <1>2, <1>4, <1>5, <1>6 DEF Reopening, log
<1>8. QED
  BY <1>7, ReopeningInvNext

-----------------------------------------------------------------------------
(* Applying an LTX file keeps it. *)

\* A replica between transactions has no log.
LEMMA ReplicaAtRest ==
  ASSUME Inv, role = "replica", pc = "idle"
  PROVE  /\ wal.salt = 0 /\ ck = NoCkpt /\ Whole(pos.sum, pageN) /\ pos.sum = New.post
         /\ Same(file, pos.sum, 1..pageN) /\ Same(sums, pos.sum, 1..pageN)
<1>1. Typed /\ wal.salt = 0 /\ index.mx = 0 /\ Running /\ Active
  BY DEF Inv, Roles, Running, Active, Logging
<1>2. Unpublished
  BY <1>1 DEF Inv, Ends, Published
<1>3. index.bf = index.mx
  <2>1. index.bf \in Nat /\ index.bf <= index.mx
    BY <1>1 DEF Typed, TypeOK
  <2>2. QED
    BY <1>1, <2>1
<1>4. ck = NoCkpt /\ Same(file, pos.sum, 1..pageN) /\ Same(sums, pos.sum, 1..pageN)
  BY <1>1, <1>2, <1>3, AllCopied
<1>5. QED
  BY <1>1, <1>4 DEF Inv, Position

\* An LTX file that does not come from the log: from the upload or another node.
LEMMA Foreign ==
  ASSUME Inv, NEW n \in Pgno, NEW w \in SUBSET Pgno, NEW g \in File, w \subseteq 1..n, Whole(g, n),
         \A p \in Pgno : p <= n /\ p \notin w => g[p] = New.post[p],
         Spend("tx"), wdisk' = Settled, wal' = wal, pc' = "apply", pc \in {"idle", "import"},
         index' = index, dbw' = dbw,
         ltx' = Append(ltx, [n |-> n, pages |-> w, data |-> g, post |-> g,
                             salt |-> 0, off |-> 0, size |-> 0])
  PROVE  /\ Chained' /\ SaltsSeen' /\ ltx' \in Seq(LTX) /\ ltx' # <<>>
         /\ New'.n = n /\ New'.pages = w /\ New'.post = g /\ New'.salt = 0
         /\ wdisk' \subseteq wdisk /\ wdisk' \subseteq Log /\ wal \in wdisk'
         /\ left' \in [tx : Nat, demote : Nat, crash : Nat] /\ left'.tx <= Budget.tx
<1> DEFINE l == [n |-> n, pages |-> w, data |-> g, post |-> g, salt |-> 0, off |-> 0, size |-> 0]
<1>0. Typed /\ Chained /\ ltx' = Append(ltx, l)
  BY DEF Inv
<1>1. /\ l \in LTX /\ l.n = n /\ l.pages = w /\ l.data = g /\ l.post = g /\ l.salt = 0
  BY DEF LTX
<1> HIDE DEF l
<1>2. g = ApplyTo(New.post, l)
  <2>1. ASSUME NEW p \in Pgno PROVE ApplyTo(New.post, l)[p] = g[p]
    <3>1. CASE p <= n
      BY <1>1, <3>1 DEF ApplyTo, Trim, Overlay
    <3>2. CASE ~(p <= n)
      <4>1. g[p] = Absent
        BY <3>2 DEF Whole
      <4>2. QED
        BY <1>1, <3>2, <4>1 DEF ApplyTo, Trim
    <3>3. QED
      BY <3>1, <3>2
  <2>2. ApplyTo(New.post, l) = [p \in Pgno |-> ApplyTo(New.post, l)[p]]
    BY DEF ApplyTo, Trim
  <2>3. g = [p \in Pgno |-> g[p]]
    BY DEF File
  <2>4. QED
    BY <2>1, <2>2, <2>3
<1>3. /\ Chained' /\ New' = l /\ ltx' \in Seq(LTX) /\ ltx' # <<>>
      /\ Len(ltx') = Len(ltx) + 1 /\ ltx'[Len(ltx) + 1] = l
      /\ \A k \in 1..Len(ltx) : ltx'[k] = ltx[k]
  <2>1. Same(g, g, w)
    BY DEF Same
  <2>2. QED
    BY <1>0, <1>1, <1>2, <2>1, ChainAppend
<1>4. /\ left' \in [tx : Nat, demote : Nat, crash : Nat] /\ left'.tx <= Budget.tx
      /\ Used \in Nat /\ Used' = Used + 1
  BY <1>0, Spent
<1>5. wdisk' \subseteq wdisk /\ wdisk' \subseteq Log /\ wal \in wdisk'
  BY <1>0, SettledTyped
<1>6. SaltsSeen'
  <2>1. Seen' = Used + 1 /\ \A s \in Nat : s <= Used => s <= Used + 1
    BY <1>4 DEF Seen
  <2>2. /\ \A x \in wdisk : x.salt \in Nat /\ x.salt <= Used
        /\ index.salt \in Nat /\ index.salt <= Used /\ dbw.salt \in Nat /\ dbw.salt <= Used
        /\ \A k \in 1..Len(ltx) : ltx[k].salt \in Nat /\ ltx[k].salt <= Used
    BY <1>0, SaltsUsed DEF Inv
  <2>3. \A k \in 1..Len(ltx') : k \in 1..Len(ltx) \/ k = Len(ltx) + 1
    BY <1>0, <1>3, NewFacts
  <2>4. \A k \in 1..Len(ltx') : ltx'[k].salt <= Used + 1
    <3>1. 0 <= Used + 1
      BY <1>4
    <3>2. QED
      BY <1>1, <1>3, <2>1, <2>2, <2>3, <3>1
  <2>5. QED
    BY <1>5, <2>1, <2>2, <2>4 DEF SaltsSeen
<1>7. QED
  BY <1>1, <1>3, <1>4, <1>5, <1>6

\* A replica stores an LTX file.
LEMMA InvReceiveLTX ==
  ASSUME Inv, NEW n \in Pgno, NEW w \in SUBSET Pgno, ReceiveLTX(n, w)
  PROVE  Inv'
<1> DEFINE v == [q \in Pgno |-> [tx |-> NextTx, n |-> n]]
           g == Trim(Overlay(pos.sum, w, v), n)
<1>0. /\ Typed /\ role = "replica" /\ pc = "idle" /\ pc' = "apply" /\ Spend("tx")
      /\ w \subseteq 1..n /\ pageN + 1..n \subseteq w /\ (n # pageN => 1 \in w)
      /\ ltx' = Append(ltx, [n |-> n, pages |-> w, data |-> g, post |-> g,
                             salt |-> 0, off |-> 0, size |-> 0])
      /\ wdisk' = Settled
      /\ UNCHANGED <<dbfile, wal, index, memory, role, cl, ck>>
  BY DEF Inv, ReceiveLTX
<1>1. /\ wal.salt = 0 /\ ck = NoCkpt /\ Whole(pos.sum, pageN) /\ pos.sum = New.post
      /\ Same(file, pos.sum, 1..pageN) /\ Same(sums, pos.sum, 1..pageN)
  BY <1>0, ReplicaAtRest
<1>2. [tx |-> NextTx, n |-> n] \in Value /\ [tx |-> NextTx, n |-> n].n = n
  BY <1>0, Spent DEF Value
<1>3. /\ \A p \in Pgno : p <= n /\ p \in w => g[p] = [tx |-> NextTx, n |-> n]
      /\ \A p \in Pgno : p <= n /\ p \notin w => g[p] = pos.sum[p]
      /\ \A p \in Pgno : ~(p <= n) => g[p] = Absent
  BY DEF Trim, Overlay
<1>4. g \in File
  <2>1. v \in File /\ pos.sum \in File
    BY <1>0, <1>2 DEF File, Typed, TypeOK
  <2>2. QED
    BY <2>1, FileOps
<1> HIDE DEF g, v
<1>5. pageN \in Nat /\ n \in Nat /\ pageN \in Pgno /\ 1 <= n /\ 1 \in Pgno
  BY <1>1, PageFacts DEF Whole, Pgno
<1>6. \A p \in 1..n \ w : p \in Pgno /\ p \in 1..pageN /\ p <= n
  BY <1>0, <1>5, PageFacts DEF Pgno
<1>7. Whole(g, n)
  <2>1. ASSUME NEW p \in Pgno PROVE p <= n <=> g[p] # Absent
    <3>1. CASE p <= n /\ p \in w
      BY <1>2, <1>3, <3>1, ValueIs
    <3>2. CASE p <= n /\ p \notin w
      <4>1. p \in 1..n \ w
        BY <1>5, <3>2, PageFacts DEF Pgno
      <4>2. p <= pageN
        BY <1>5, <1>6, <4>1
      <4>3. QED
        BY <1>1, <1>3, <3>2, <4>2 DEF Whole
    <3>3. CASE ~(p <= n)
      BY <1>3, <3>3
    <3>4. QED
      BY <3>1, <3>2, <3>3
  <2>2. g[1].n = n
    <3>1. CASE 1 \in w
      BY <1>2, <1>3, <1>5, <3>1
    <3>2. CASE 1 \notin w
      BY <1>0, <1>1, <1>3, <1>5, <3>2 DEF Whole
    <3>3. QED
      BY <3>1, <3>2
  <2>3. QED
    BY <2>1, <2>2 DEF Whole
<1>8. UNCHANGED <<file, disk, pos, pageN, sums, dbw>>
  BY <1>0 DEF dbfile, memory
<1>9. /\ Chained' /\ SaltsSeen' /\ ltx' \in Seq(LTX) /\ ltx' # <<>>
      /\ New'.n = n /\ New'.pages = w /\ New'.post = g
      /\ wdisk' \subseteq wdisk /\ wdisk' \subseteq Log /\ wal \in wdisk'
      /\ left' \in [tx : Nat, demote : Nat, crash : Nat] /\ left'.tx <= Budget.tx
  <2>1. \A p \in Pgno : p <= n /\ p \notin w => g[p] = New.post[p]
    BY <1>1, <1>3
  <2>2. QED
    BY <1>0, <1>4, <1>7, <1>8, <2>1, Foreign
<1>10. Typed'
  BY <1>0, <1>8, <1>9 DEF Typed, TypeOK
<1>11. Roles'
  BY <1>0, <1>1, <1>8 DEF Inv, Roles
<1>12. Position'
  <2>1. \A p \in 1..n \ w : g[p] = pos.sum[p]
    BY <1>3, <1>6
  <2>2. Based'
    BY <1>6, <1>8, <1>9, <2>1 DEF Based, Same
  <2>3. QED
    BY <1>0, <1>1, <1>8, <2>2 DEF Position
<1>13. Ends' /\ Transaction' /\ Checkpoint' /\ Contents'
  BY <1>0, <1>1 DEF Ends, Active, Logging, Transaction, Checkpoint, Contents, NoCkpt
<1>14. Applying'
  <2>1. \A p \in 1..n \ w : sums[p] = file[p]
    BY <1>1, <1>6 DEF Same
  <2>2. QED
    BY <1>0, <1>1, <1>8, <1>9, <2>1 DEF Applying, Same
<1>15. QED
  BY <1>9, <1>10, <1>11, <1>12, <1>13, <1>14 DEF Inv

\* Import truncates the log.
LEMMA InvImportStart ==
  ASSUME Inv, ImportStart
  PROVE  Inv'
<1>0. /\ Typed /\ role = "primary" /\ pc = "idle" /\ pc' = "import" /\ ck = NoCkpt
      /\ UNCHANGED <<dbfile, ltx, index, pos, pageN, sums, role, cl, ck, left>>
      /\ wal.salt = 0 => UNCHANGED <<log, dbw>>
      /\ wal.salt # 0 => ClearLog /\ dbw' = ClearedDBWAL
  BY DEF Inv, ImportStart
<1>1. /\ wal' \in Log /\ wdisk' \subseteq Log /\ wal' \in wdisk' /\ wdisk' \subseteq wdisk \cup {wal'}
      /\ \A x \in wdisk' : x.salt = 0 => x.fr = <<>>
      /\ wal'.salt = 0
  <2>1. CASE wal.salt = 0
    BY <1>0, <2>1 DEF log, Typed, TypeOK
  <2>2. CASE wal.salt # 0
    BY <1>0, <2>2, ClearLogTyped
  <2>3. QED
    BY <2>1, <2>2
<1>2. /\ dbw' \in [offset : Nat, salt : Nat, frameOffsets : [Pgno -> Nat],
                   chksums : [Pgno -> Value \cup {Absent, NoSum}]]
      /\ dbw'.salt = dbw.salt
      /\ dbw'.frameOffsets = NewDBWAL.frameOffsets /\ dbw'.chksums = NewDBWAL.chksums
  <2>1. CASE wal.salt = 0
    BY <1>0, <2>1 DEF Inv, Roles, Typed, TypeOK
  <2>2. CASE wal.salt # 0
    BY <1>0, <2>2, ClearedTyped
  <2>3. QED
    BY <2>1, <2>2
<1>3. Typed'
  BY <1>0, <1>1, <1>2 DEF Typed, TypeOK, dbfile
<1>4. SaltsSeen' /\ Chained'
  <2>1. Used' = Used /\ Seen' = Used /\ Seen = Used /\ Used \in Nat
    BY <1>0, UsedType DEF Used, Seen
  <2>2. 0 <= Used
    BY <2>1
  <2>3. SaltsSeen'
    BY <1>0, <1>1, <1>2, <2>1, <2>2 DEF Inv, SaltsSeen
  <2>4. QED
    BY <1>0, <2>3 DEF Inv, Chained, LTXChain
<1>5. Roles' /\ Position'
  BY <1>0, <1>1, <1>2 DEF Inv, Roles, Position, Running, New, Logging
<1>6. Ends' /\ Transaction' /\ Checkpoint' /\ Contents' /\ Applying'
  BY <1>0 DEF Ends, Active, Logging, Transaction, Checkpoint, Contents, NoCkpt, Applying
<1>7. QED
  BY <1>3, <1>4, <1>5, <1>6 DEF Inv

\* Import makes an LTX file of the upload.
LEMMA InvImportToLTX ==
  ASSUME Inv, NEW n \in Pgno, ImportToLTX(n, TRUE)
  PROVE  Inv'
<1> DEFINE g == [p \in Pgno |-> IF p <= n THEN [tx |-> NextTx, n |-> n] ELSE Absent]
<1>0. /\ Typed /\ pc = "import" /\ pc' = "apply" /\ Spend("tx")
      /\ ltx' = Append(ltx, [n |-> n, pages |-> 1..n, data |-> g, post |-> g,
                             salt |-> 0, off |-> 0, size |-> 0])
      /\ wdisk' = Settled
      /\ UNCHANGED <<dbfile, wal, index, memory, role, cl, ck>>
  BY DEF Inv, ImportToLTX
<1>1. role \in {"primary", "leaving"} /\ Running /\ ck = NoCkpt /\ wal.salt = 0
  BY <1>0, WriterRuns DEF Inv, Roles, Logging
<1>2. [tx |-> NextTx, n |-> n] \in Value /\ [tx |-> NextTx, n |-> n].n = n
  BY <1>0, Spent DEF Value
<1>3. n \in Nat /\ 1 <= n /\ 1 \in Pgno /\ 1..n \in SUBSET Pgno
  BY PageFacts DEF Pgno
<1>4. g \in File
  BY <1>2 DEF File
<1>5. Whole(g, n)
  <2>1. ASSUME NEW p \in Pgno PROVE p <= n <=> g[p] # Absent
    BY <1>2, ValueIs
  <2>2. g[1].n = n
    BY <1>2, <1>3
  <2>3. QED
    BY <2>1, <2>2 DEF Whole
<1> HIDE DEF g
<1>6. UNCHANGED <<file, disk, pos, pageN, sums, dbw>>
  BY <1>0 DEF dbfile, memory
<1>7. /\ Chained' /\ SaltsSeen' /\ ltx' \in Seq(LTX) /\ ltx' # <<>>
      /\ New'.n = n /\ New'.pages = 1..n /\ New'.post = g
      /\ wdisk' \subseteq wdisk /\ wdisk' \subseteq Log /\ wal \in wdisk'
      /\ left' \in [tx : Nat, demote : Nat, crash : Nat] /\ left'.tx <= Budget.tx
  <2>1. \A p \in Pgno : ~(p <= n /\ p \notin 1..n)
    BY <1>3, PageFacts DEF Pgno
  <2>2. QED
    BY <1>0, <1>3, <1>4, <1>5, <1>6, <2>1, Foreign
<1>8. Typed'
  BY <1>0, <1>6, <1>7 DEF Typed, TypeOK
<1>9. Roles'
  BY <1>0, <1>1, <1>6 DEF Inv, Roles
<1>10. Position'
  <2>1. Whole(pos.sum, pageN)
    BY <1>0, <1>1 DEF Inv, Position
  <2>2. Based'
    BY <1>7 DEF Based, Same
  <2>3. QED
    BY <1>0, <1>6, <2>1, <2>2 DEF Position
<1>11. Ends' /\ Transaction' /\ Checkpoint' /\ Contents'
  BY <1>0, <1>1 DEF Ends, Active, Logging, Transaction, Checkpoint, Contents, NoCkpt
<1>12. Applying'
  BY <1>0, <1>1, <1>7 DEF Applying
<1>13. QED
  BY <1>7, <1>8, <1>9, <1>10, <1>11, <1>12 DEF Inv

\* ApplyLTXNoLock writes the pages.
LEMMA InvApplyPages ==
  ASSUME Inv, ApplyPages
  PROVE  Inv'
<1>0. /\ Typed /\ Chained /\ pc = "apply" /\ pc' = "verify" /\ WritePages(New.pages, New.data)
      /\ UNCHANGED <<log, ltx, index, pos, pageN, dbw, role, cl, ck, left>>
  BY NewFacts DEF Inv, ApplyPages
<1>1. /\ New.n \in Pgno /\ New.data \in File /\ New.pages \subseteq 1..New.n
      /\ Same(New.post, New.data, New.pages) /\ \A p \in 1..New.n : p \in Pgno
  BY <1>0, NewFacts, PageFacts DEF Pgno
<1>2. /\ file' = Overlay(file, New.pages, New.data) /\ sums' = Overlay(sums, New.pages, New.data)
      /\ Write(Overlay(file, New.pages, New.data)) /\ UNCHANGED <<wal, wdisk>> /\ New' = New
  BY <1>0 DEF WritePages, Write, log, New
<1>3. Typed'
  <2>1. file \in File /\ sums \in File
    BY <1>0 DEF Typed, TypeOK
  <2>2. Overlay(file, New.pages, New.data) \in File /\ sums' \in File
    BY <1>1, <1>2, <2>1, FileOps
  <2>3. file' \in File /\ disk' \in [Pgno -> SUBSET (Value \cup {Absent})]
    BY <1>0, <1>2, <2>2, WriteTyped
  <2>4. QED
    BY <1>0, <1>2, <2>2, <2>3 DEF Typed, TypeOK
<1>4. SaltsSeen' /\ Chained' /\ Roles'
  BY <1>0, <1>2 DEF Inv, SaltsSeen, Seen, Used, Chained, LTXChain, Roles, Logging
<1>5. ck = NoCkpt
  BY <1>0 DEF Inv, Roles, Logging
<1>6. Position' /\ Ends' /\ Transaction' /\ Checkpoint' /\ Contents'
  BY <1>0, <1>5 DEF Position, Ends, Active, Logging, Transaction, Checkpoint, Contents, NoCkpt
<1>7. ASSUME NEW p \in 1..New.n PROVE sums'[p] \in {file'[p], Absent}
  <2>1. CASE p \in New.pages
    BY <1>1, <1>2, <2>1 DEF Overlay
  <2>2. CASE p \notin New.pages
    <3>1. sums[p] \in {file[p], Absent}
      BY <1>0, <2>2 DEF Inv, Applying
    <3>2. QED
      BY <1>1, <1>2, <2>2, <3>1 DEF Overlay
  <2>3. QED
    BY <2>1, <2>2
<1>8. role \in {"primary", "leaving"} => Same(sums', New.post, 1..New.n)
  <2>1. SUFFICES ASSUME role \in {"primary", "leaving"}, NEW p \in 1..New.n
                 PROVE  sums'[p] = New.post[p]
    BY DEF Same
  <2>2. p \in New.pages
    BY <1>0, <2>1 DEF Inv, Applying
  <2>3. QED
    BY <1>1, <1>2, <2>2 DEF Overlay, Same
<1>9. Applying'
  BY <1>0, <1>2, <1>7, <1>8 DEF Applying
<1>10. QED
  BY <1>3, <1>4, <1>6, <1>9 DEF Inv

\* While a file is verified there is no log, and the checksums are those of the pages.
LEMMA VerifiedSum ==
  ASSUME Inv, pc = "verify", NEW p \in Pgno
  PROVE  /\ dbw.chksums[p] = NoSum
         /\ p <= New.n => Resized(sums, New.n, pageN)[p] = sums[p]
<1>1. Typed /\ wal.salt = 0
  BY DEF Inv, Roles
<1>2. dbw.chksums[p] = NoSum
  BY <1>1 DEF Inv, Roles, NewDBWAL
<1>3. New.n \in Nat /\ p \in Nat /\ pageN \in Nat
  <2>1. pageN \in 0..MaxPage /\ New.n \in Pgno
    BY <1>1, NewFacts DEF Typed, TypeOK
  <2>2. QED
    BY <2>1, PageFacts DEF Pgno
<1>4. p <= New.n => p \notin New.n + 1..pageN
  BY <1>3
<1>5. QED
  BY <1>2, <1>4 DEF Resized

\* ApplyLTXNoLock compares the checksum.
LEMMA InvApplyVerify ==
  ASSUME Inv, ApplyVerify
  PROVE  Inv'
<1> DEFINE kept == Resized(sums, New.n, pageN)
           sum(p) == IF p > New.n THEN Absent
                     ELSE IF dbw.chksums[p] # NoSum THEN dbw.chksums[p] ELSE kept[p]
           s == [p \in Pgno |-> sum(p)]
<1>0. /\ Typed /\ Chained /\ pc = "verify" /\ pc' = "idle" /\ Sync(Trim(file, New.n))
      /\ sums' = kept /\ pageN' = New.n
      /\ s = New.post => /\ pos' = [txid |-> Len(ltx), sum |-> New.post]
                         /\ role' = IF role = "opening" THEN "replica" ELSE role
                         /\ index' = UpdatedSHM(New.n)
      /\ s # New.post => role' = "failed" /\ UNCHANGED <<pos, index>>
      /\ wdisk' = Settled /\ UNCHANGED <<wal, ltx, dbw, cl, ck, left>>
  <2>1. Typed /\ Chained /\ Last(ltx) = New
    BY NewFacts DEF Inv
  <2>2. QED
    BY <2>1 DEF ApplyVerify
<1>1. /\ New.n \in Pgno /\ New.n \in 0..MaxPage /\ New.n \in Nat /\ Whole(New.post, New.n)
      /\ New.post \in File /\ \A p \in 1..New.n : p \in Pgno /\ p <= New.n
      /\ \A p \in Pgno : p > New.n <=> ~(p <= New.n)
      /\ \A p \in Pgno : p <= New.n => p \in 1..New.n
  BY <1>0, NewFacts, PageFacts DEF Pgno
<1>2. /\ role \in {"primary", "leaving", "replica", "opening"} /\ ck = NoCkpt /\ wal.salt = 0
      /\ dbw.frameOffsets = NewDBWAL.frameOffsets /\ dbw.chksums = NewDBWAL.chksums
      /\ role \in {"replica", "opening"} => index.mx = 0
  BY <1>0 DEF Inv, Roles, Typed, TypeOK, Logging
<1>3. \A p \in Pgno : p <= New.n => kept[p] = sums[p] /\ dbw.chksums[p] = NoSum
  BY <1>0, VerifiedSum
<1>4. \A p \in Pgno : s[p] = IF p <= New.n THEN sums[p] ELSE Absent
  BY <1>1, <1>3
<1>5. s = New.post <=> Same(sums, New.post, 1..New.n)
  <2>1. s = [p \in Pgno |-> s[p]] /\ New.post = [p \in Pgno |-> New.post[p]]
    BY <1>1 DEF File
  <2>2. ASSUME Same(sums, New.post, 1..New.n), NEW p \in Pgno PROVE s[p] = New.post[p]
    BY <1>1, <1>4, <2>2 DEF Same, Whole
  <2>3. ASSUME s = New.post, NEW p \in 1..New.n PROVE sums[p] = New.post[p]
    BY <1>1, <1>4, <2>3
  <2>4. QED
    BY <2>1, <2>2, <2>3 DEF Same
<1> HIDE DEF s, sum
<1>6. /\ file' \in File /\ disk' \in [Pgno -> SUBSET (Value \cup {Absent})] /\ sums' \in File
      /\ file' = Trim(file, New.n)
  <2>1. file \in File /\ sums \in File
    BY <1>0 DEF Typed, TypeOK
  <2>2. QED
    BY <1>0, <2>1, FileOps, WriteTyped DEF Sync
<1>7. \A p \in 1..New.n : file'[p] = file[p] /\ sums'[p] = sums[p]
  BY <1>0, <1>1, <1>3, <1>6 DEF Trim
<1> HIDE DEF kept
<1>8. wdisk' \subseteq wdisk /\ wdisk' \subseteq Log /\ wal \in wdisk' /\ New' = New /\ Len(wal.fr) = 0
  BY <1>0, <1>2, SettledTyped, LogFacts DEF New
<1>9. Chained' /\ (\A w \in wdisk' : w.salt = 0 => w.fr = <<>>)
  BY <1>0, <1>8 DEF Chained, LTXChain, Typed
<1>10. Used' = Used /\ Seen' = Used /\ Seen = Used
  BY <1>0 DEF Used, Seen
<1>11. CASE s = New.post
  <2>1. /\ pos' = [txid |-> Len(ltx), sum |-> New.post] /\ index' = UpdatedSHM(New.n)
        /\ role' = IF role = "opening" THEN "replica" ELSE role
    BY <1>0, <1>11
  <2>2. role' \in {"primary", "leaving", "replica"}
    BY <1>2, <2>1
  <2>3. pos'.sum = New.post /\ pos' \in [txid : Nat, sum : File]
    BY <1>0, <1>1, <2>1, NewFacts
  <2>4. /\ index'.mx = 0 /\ index'.bf = 0 /\ index'.salt = dbw.salt /\ index'.n = New.n
        /\ index' \in [mx : Nat, bf : Nat, n : 0..MaxPage, salt : Nat]
    <3>1. dbw.salt \in Nat
      BY <1>0 DEF Typed, TypeOK
    <3>2. QED
      BY <1>1, <2>1, <3>1 DEF UpdatedSHM
  <2>5. Typed'
    <3>1. index'.bf <= index'.mx /\ index'.mx <= Len(wal.fr)
      BY <1>8, <2>4
    <3>2. QED
      BY <1>0, <1>1, <1>6, <1>8, <1>9, <2>2, <2>3, <2>4, <3>1 DEF Typed, TypeOK
  <2>6. SaltsSeen'
    BY <1>0, <1>8, <1>10, <2>4 DEF Inv, SaltsSeen
  <2>7. ASSUME NEW p \in 1..New.n PROVE file'[p] = New.post[p] /\ sums'[p] = New.post[p]
    <3>1. sums[p] = New.post[p]
      BY <1>5, <1>11 DEF Same
    <3>2. New.post[p] # Absent
      BY <1>1 DEF Whole
    <3>3. sums[p] \in {file[p], Absent}
      BY <1>0 DEF Inv, Applying
    <3>4. QED
      BY <1>7, <3>1, <3>2, <3>3
  <2>8. Bare'
    <3>1. End' = 0
      BY <1>0, <1>2 DEF End
    <3>2. QED
      BY <1>0, <1>1, <1>2, <2>3, <2>4, <2>5, <2>7, <3>1 DEF Bare, Same
  <2>9. AtRest'
    BY <1>0, <1>1, <1>2, <1>8, <1>9, <2>2, <2>3, <2>6, <2>8 DEF AtRest, Running
  <2>10. QED
    BY <2>9, AtRestInvNext
<1>12. CASE s # New.post
  <2>1. role' = "failed" /\ UNCHANGED <<pos, index>>
    BY <1>0, <1>12
  <2>2. index.mx = 0
    BY <1>0, <1>2, <1>5, <1>12 DEF Inv, Applying
  <2>3. Typed'
    <3>1. index.mx <= Len(wal.fr)
      BY <1>8, <2>2
    <3>2. QED
      BY <1>0, <1>1, <1>6, <1>8, <1>9, <2>1, <3>1 DEF Typed, TypeOK
  <2>4. SaltsSeen'
    BY <1>0, <1>8, <1>10, <2>1 DEF Inv, SaltsSeen
  <2>5. Stopped'
    BY <1>0, <1>2, <1>9, <2>1, <2>2, <2>3, <2>4 DEF Stopped
  <2>6. QED
    BY <2>5, StoppedInvNext
<1>13. QED
  BY <1>11, <1>12

-----------------------------------------------------------------------------
(* Every step keeps it. *)

\* It holds at first.
LEMMA InvInit == Init => Inv
<1>1. SUFFICES ASSUME Init PROVE Inv
  OBVIOUS
<1>2. PICK n \in Pgno :
        LET f == [p \in Pgno |-> IF p <= n THEN [tx |-> 1, n |-> n] ELSE Absent]
        IN  /\ file = f /\ disk = [p \in Pgno |-> {f[p]}]
            /\ wal = NoLog /\ wdisk = {NoLog}
            /\ ltx = <<[n |-> n, pages |-> 1..n, data |-> f, post |-> f,
                        salt |-> 0, off |-> 0, size |-> 0]>>
            /\ index = [mx |-> 0, bf |-> 0, n |-> n, salt |-> 0]
            /\ pos = [txid |-> 1, sum |-> f] /\ pageN = n /\ sums = f /\ dbw = NewDBWAL
            /\ role = "primary" /\ pc = "idle" /\ cl = NoTx /\ ck = NoCkpt /\ left = Budget
  BY <1>1 DEF Init
<1> DEFINE f == [p \in Pgno |-> IF p <= n THEN [tx |-> 1, n |-> n] ELSE Absent]
           l == [n |-> n, pages |-> 1..n, data |-> f, post |-> f, salt |-> 0, off |-> 0, size |-> 0]
<1>3. /\ file = f /\ disk = [p \in Pgno |-> {f[p]}] /\ wal = NoLog /\ wdisk = {NoLog} /\ ltx = <<l>>
      /\ index = [mx |-> 0, bf |-> 0, n |-> n, salt |-> 0]
      /\ pos = [txid |-> 1, sum |-> f] /\ pageN = n /\ sums = f /\ dbw = NewDBWAL
      /\ role = "primary" /\ pc = "idle" /\ cl = NoTx /\ ck = NoCkpt /\ left = Budget
  BY <1>2
<1>4. n \in Nat /\ n >= 1 /\ n \in 0..MaxPage /\ 1..n \subseteq Pgno /\ 1 \in Pgno
  BY PageFacts DEF Pgno
<1>5. Budget \in [tx : Nat, demote : Nat, crash : Nat] /\ Budget.tx \in Nat /\ Budget.tx <= Budget.tx
  BY BudgetAssumption
<1>6. [tx |-> 1, n |-> n] \in Value /\ [tx |-> 1, n |-> n].n = n
  BY <1>5 DEF Value
<1>7. f \in File /\ Whole(f, n)
  <2>1. f \in File
    BY <1>6 DEF File
  <2>2. ASSUME NEW p \in Pgno PROVE p <= n <=> f[p] # Absent
    BY <1>6, ValueIs
  <2>3. f[1].n = n
    BY <1>4, <1>6
  <2>4. QED
    BY <2>1, <2>2, <2>3 DEF Whole
<1> HIDE DEF f
<1>8. l \in LTX /\ l.n = n /\ l.pages = 1..n /\ l.data = f /\ l.post = f /\ l.salt = 0
  BY <1>4, <1>7 DEF LTX
<1> HIDE DEF l
<1>9. ltx \in Seq(LTX) /\ Len(ltx) = 1 /\ ltx[1] = l /\ ltx # <<>> /\ New = l
  <2>1. Len(ltx) = 1 /\ ltx[1] = l
    BY <1>3
  <2>2. ltx \in Seq(LTX)
    BY <1>3, <1>8
  <2>3. QED
    BY <2>1, <2>2, EmptySeq DEF New
<1>10. NoLog \in Log /\ NoLog.salt = 0 /\ NoLog.fr = <<>> /\ Len(NoLog.fr) = 0
  BY EmptySeq DEF NoLog, Log
<1>11. /\ NewDBWAL \in [offset : Nat, salt : Nat, frameOffsets : [Pgno -> Nat],
                        chksums : [Pgno -> Value \cup {Absent, NoSum}]]
       /\ NewDBWAL.salt = 0
  BY DEF NewDBWAL
<1>12. /\ NoTx \in [w : SUBSET Pgno, v : Value \cup {Absent}, at : Nat]
       /\ NoCkpt \in [st : {"idle", "locked", "copy"}, mx : Nat, n : 0..MaxPage, todo : SUBSET Pgno]
  BY PageFacts DEF NoTx, NoCkpt
<1>13. /\ index \in [mx : Nat, bf : Nat, n : 0..MaxPage, salt : Nat]
       /\ index.mx = 0 /\ index.bf = 0 /\ index.n = n /\ index.salt = 0
  BY <1>3, <1>4
<1>14. Typed
  <2>1. disk \in [Pgno -> SUBSET (Value \cup {Absent})]
    BY <1>3, <1>7 DEF File
  <2>2. pos \in [txid : Nat, sum : File] /\ index.bf <= index.mx /\ index.mx <= Len(wal.fr)
    BY <1>3, <1>7, <1>10, <1>13
  <2>3. QED
    BY <1>3, <1>4, <1>5, <1>7, <1>9, <1>10, <1>11, <1>12, <1>13, <2>1, <2>2 DEF Typed, TypeOK
<1>15. SaltsSeen
  <2>1. Seen = Used /\ 0 <= Used
    BY <1>3, <1>14, UsedType DEF Seen
  <2>2. QED
    BY <1>3, <1>8, <1>9, <1>10, <1>11, <1>13, <2>1 DEF SaltsSeen
<1>16. Chained
  <2>1. 2..Len(ltx) = {} /\ 1..Len(ltx) = {1}
    BY <1>9
  <2>2. QED
    BY <1>7, <1>8, <1>9, <2>1 DEF Chained, LTXChain, Same
<1>17. Bare
  <2>1. End = 0
    BY <1>3, <1>10 DEF End
  <2>2. QED
    BY <1>3, <1>13, <1>14, <2>1 DEF Bare, Same
<1>18. AtRest
  BY <1>3, <1>7, <1>8, <1>9, <1>10, <1>15, <1>16, <1>17 DEF AtRest, Running
<1>19. QED
  BY <1>18, AtRestInv

\* It says nothing of a step that changes nothing.
LEMMA InvStutter ==
  ASSUME Inv, UNCHANGED vars
  PROVE  Inv'
<1>1. /\ UNCHANGED <<file, disk, wal, wdisk, ltx, index, pos, pageN, sums, dbw>>
      /\ UNCHANGED <<role, pc, cl, ck, left>>
  BY DEF vars, dbfile, log, memory, locks
<1>2. Typed' /\ SaltsSeen'
  <2>1. Typed'
    BY <1>1 DEF Inv, Typed, TypeOK
  <2>2. SaltsSeen'
    BY <1>1 DEF Inv, SaltsSeen, Seen, Used
  <2>3. QED
    BY <2>1, <2>2
<1>3. Chained' /\ Position' /\ Ends' /\ Transaction'
  BY <1>1, PositionKept, EndsKept
<1>4. Roles' /\ Checkpoint'
  BY <1>1 DEF Inv, Roles, Checkpoint
<1>5. Contents'
  <2>1. Held => Held'
    BY <1>1, HeldKept DEF Behind
  <2>2. Active' = Active
    BY <1>1 DEF Active, Running
  <2>3. QED
    BY <1>1, <2>1, <2>2 DEF Inv, Contents, Same
<1>6. Applying'
  BY <1>1 DEF Inv, Applying, New, Same
<1>7. QED
  BY <1>2, <1>3, <1>4, <1>5, <1>6 DEF Inv

\* The steps of clients and of the node.
LEMMA InvNext ==
  ASSUME Regular, Inv, [Next]_vars
  PROVE  Inv'
<1>1. CASE WriterStep
  <2>1. CASE \E n \in Pgno : \E w \in SUBSET Pgno : BeginWrite(n, w)
    BY <2>1, InvBeginWrite
  <2>2. CASE \E s \in Salts : WriteWALHeader(s)
    BY <2>2, InvWriteWALHeader
  <2>3. CASE WriteWALFrame
    BY <2>3, InvWriteWALFrame
  <2>4. CASE WriteSHM
    BY <2>4, InvWriteSHM
  <2>5. CASE ClientEnds
    BY <2>5, InvClientEnds
  <2>6. CASE CommitSync
    BY <2>6, InvCommitSync
  <2>7. CASE \E room \in Room : CommitWAL(room)
    BY <2>7, InvCommitWAL
  <2>8. QED
    BY <1>1, <2>1, <2>2, <2>3, <2>4, <2>5, <2>6, <2>7 DEF WriterStep
<1>2. CASE CheckpointStep
  <2>1. CASE LockCkpt
    BY <2>1, InvLockCkpt
  <2>2. CASE \E m \in 1..index.mx : BeginCheckpoint(m)
    BY <2>2, InvBeginCheckpoint
  <2>3. CASE \E p \in Pgno : CopyPage(p)
    BY <2>3, InvCopyPage
  <2>4. CASE EndCheckpoint
    BY <2>4, InvEndCheckpoint
  <2>5. CASE AbortCheckpoint
    BY <2>5, InvAbortCheckpoint
  <2>6. CASE TruncateWAL
    BY <2>6, InvTruncateWAL
  <2>7. QED
    BY <1>2, <2>1, <2>2, <2>3, <2>4, <2>5, <2>6 DEF CheckpointStep
<1>3. CASE RecoverStep
  <2>1. CASE CheckpointNothing
    BY <2>1, InvCheckpointNothing
  <2>2. CASE CheckpointPages
    BY <2>2, InvCheckpointPages
  <2>3. CASE CheckpointResize
    BY <2>3, InvCheckpointResize
  <2>4. CASE CheckpointReset
    BY <2>4, InvCheckpointReset
  <2>5. CASE Open
    BY <2>5, InvOpen
  <2>6. CASE InitDatabaseFile
    BY <2>6, InvInitDatabaseFile
  <2>7. QED
    BY <1>3, <2>1, <2>2, <2>3, <2>4, <2>5, <2>6 DEF RecoverStep
<1>4. CASE ApplyStep
  <2>1. CASE \E n \in Pgno : \E w \in SUBSET Pgno : ReceiveLTX(n, w)
    BY <2>1, InvReceiveLTX
  <2>2. CASE ImportStart
    BY <2>2, InvImportStart
  <2>3. CASE \E n \in Pgno : \E whole \in Uploads : ImportToLTX(n, whole)
    <3>1. PICK n \in Pgno, whole \in Uploads : ImportToLTX(n, whole)
      BY <2>3
    <3>2. whole = TRUE
      BY DEF Regular, Uploads
    <3>3. QED
      BY <3>1, <3>2, InvImportToLTX
  <2>4. CASE ApplyPages
    BY <2>4, InvApplyPages
  <2>5. CASE ApplyVerify
    BY <2>5, InvApplyVerify
  <2>6. QED
    BY <1>4, <2>1, <2>2, <2>3, <2>4, <2>5 DEF ApplyStep
<1>5. CASE Demote \/ Promote \/ PowerLoss
  BY <1>5, InvDemote, InvPromote, InvPowerLoss
<1>6. CASE UNCHANGED vars
  BY <1>6, InvStutter
<1>7. QED
  BY <1>1, <1>2, <1>3, <1>4, <1>5, <1>6 DEF Next

\* What regular clients keep.
Kept == Regular => Inv

\* The invariant holds in every behaviour.
LEMMA KeptAlways == Spec => []Kept
<1>1. Init => Kept
  BY InvInit DEF Kept
<1>2. Kept /\ [Next]_vars => Kept'
  BY InvNext DEF Kept, Regular
<1>3. QED
  BY <1>1, <1>2, PTL DEF Spec

-----------------------------------------------------------------------------
(* What it is worth. *)

\* Readers see the position.
LEMMA InvReaders == Inv => ReadersSeePos
<1>1. SUFFICES ASSUME Inv, Running, pc \in {"idle", "begin", "tx", "framed"}
               PROVE  /\ View(file, wal.fr, index.mx) = pos.sum
                      /\ pageN = index.n /\ pageN = Size(pos.sum)
  BY DEF ReadersSeePos
<1>2. /\ Typed /\ Active /\ Unpublished /\ Held /\ Whole(pos.sum, pageN)
  BY <1>1 DEF Inv, Active, Logging, Ends, Published, Contents, Position
<1>3. /\ pageN = index.n /\ pageN = Size(pos.sum) /\ index.mx = End /\ End \in Nat
      /\ pageN \in Nat /\ 1 <= pageN
  BY <1>2, LogFacts, PageFacts DEF Unpublished, Whole, Size, Pgno
<1>4. ASSUME NEW p \in Pgno, p <= pageN PROVE Version(file, wal.fr, index.mx)[p] = pos.sum[p]
  <2>1. p \in 1..pageN
    BY <1>3, <1>4, PageFacts DEF Pgno
  <2>2. CASE p \in PagesIn(wal.fr, 1, index.mx)
    BY <1>2, <1>3, <2>1, <2>2, VersionIs DEF Held, InLog
  <2>3. CASE p \notin PagesIn(wal.fr, 1, index.mx)
    BY <1>2, <1>3, <2>1, <2>3, VersionIs DEF Held, Untouched
  <2>4. QED
    BY <2>2, <2>3
<1>5. \A p \in Pgno : ~(p <= pageN) => pos.sum[p] = Absent
  BY <1>2 DEF Whole
<1>6. pos.sum = [p \in Pgno |-> pos.sum[p]]
  BY <1>2 DEF Typed, TypeOK, File
<1>7. CASE index.mx = 0
  <2>1. PagesIn(wal.fr, 1, index.mx) = {}
    BY <1>7, PagesInNone
  <2>2. \A p \in Pgno : Version(file, wal.fr, index.mx)[p] = file[p]
    BY <2>1, VersionIs
  <2>3. \A p \in Pgno : p <= pageN => file[p] = pos.sum[p]
    BY <1>4, <2>2
  <2>4. Size(file) = pageN
    BY <1>3, <2>3, PageFacts DEF Size
  <2>5. \A p \in Pgno : Content(file)[p] = pos.sum[p]
    BY <1>5, <2>3, <2>4 DEF Content, Trim
  <2>6. Content(file) = [p \in Pgno |-> Content(file)[p]]
    BY DEF Content, Trim
  <2>7. View(file, wal.fr, index.mx) = pos.sum
    BY <1>6, <1>7, <2>5, <2>6 DEF View
  <2>8. QED
    BY <1>3, <2>7
<1>8. CASE index.mx # 0
  <2> DEFINE g == Version(file, wal.fr, index.mx)
  <2>1. wal.fr[index.mx].commit = pageN
    BY <1>2, <1>3, <1>8 DEF Unpublished
  <2>2. View(file, wal.fr, index.mx) = Trim(g, pageN)
    BY <1>8, <2>1 DEF View
  <2>3. \A p \in Pgno : p <= pageN => g[p] = pos.sum[p]
    BY <1>4
  <2> HIDE DEF g
  <2>4. \A p \in Pgno : Trim(g, pageN)[p] = pos.sum[p]
    BY <1>5, <2>3 DEF Trim
  <2>5. Trim(g, pageN) = [p \in Pgno |-> Trim(g, pageN)[p]]
    BY DEF Trim
  <2>6. QED
    BY <1>3, <1>6, <2>2, <2>4, <2>5
<1>9. QED
  BY <1>7, <1>8

\* A transaction is not refused.
LEMMA InvAccepts == Inv => CommitNeverRefused
<1>1. SUFFICES ASSUME Inv, pc = "synced", NextCommit(wal.fr, dbw.offset) # 0
               PROVE  Accepted(NextCommit(wal.fr, dbw.offset))
  BY DEF CommitNeverRefused
<1>2. Published /\ NextCommit(wal.fr, dbw.offset) = index.mx
  BY <1>1, CommitFinds
<1>3. QED
  BY <1>1, <1>2, CommitAccepts

\* The ends agree.
LEMMA InvEnds == Inv => SameEnd
BY DEF Inv, Ends, Active, Logging, Published, Unpublished, End, SameEnd

-----------------------------------------------------------------------------
(* For regular clients, whatever the size of the database and the budget: *)

\* The variables have their types; in particular the end of the log that SQLite
\* keeps in the wal-index, and that of its checkpoints, are never past the frames
\* that are valid.
THEOREM WALTypeCorrect == Spec => [](Regular => TypeOK)
<1>1. Kept => (Regular => TypeOK)
  BY DEF Kept, Inv, Typed
<1>2. QED
  BY <1>1, KeptAlways, PTL

\* Each LTX file that CommitWAL, Import or a primary makes is the change from the
\* database before to the one its checksum is of.
THEOREM WALLTXChain == Spec => [](Regular => LTXChain)
<1>1. Kept => (Regular => LTXChain)
  BY DEF Kept, Inv, Chained
<1>2. QED
  BY <1>1, KeptAlways, PTL

\* A reader that follows the wal-index sees the database at the position.
THEOREM WALReadersSeePos == Spec => [](Regular => ReadersSeePos)
<1>1. Kept => (Regular => ReadersSeePos)
  BY InvReaders DEF Kept
<1>2. QED
  BY <1>1, KeptAlways, PTL

\* SQLite and LiteFS agree on where the log ends.
THEOREM WALSameEnd == Spec => [](Regular => SameEnd)
<1>1. Kept => (Regular => SameEnd)
  BY InvEnds DEF Kept
<1>2. QED
  BY <1>1, KeptAlways, PTL

\* CommitWAL refuses no transaction that SQLite has committed.
THEOREM WALCommitNeverRefused == Spec => [](Regular => CommitNeverRefused)
<1>1. Kept => (Regular => CommitNeverRefused)
  BY InvAccepts DEF Kept
<1>2. QED
  BY <1>1, KeptAlways, PTL

-----------------------------------------------------------------------------
(* What a power loss may leave, if SQLite's connections work one by one and no import *)
(* breaks off.                                                                        *)

\* Where the transaction of LTX file l ends in the log that it names ...
EndOf(l) == l.off + l.size

\* ... if this is log w, and how much of w the file vouches for.
Continues(l, w) == w.salt # 0 /\ w.salt = l.salt
LogEnd(l, w)    == IF Continues(l, w) THEN EndOf(l) ELSE 0

\* Log w has the transaction of l.
Reaches(l, w) ==
  /\ Len(w.fr) <= w.size
  /\ Continues(l, w) => EndOf(l) \in 1..Len(w.fr) /\ w.fr[EndOf(l)].commit = l.n

\* What page p may be once log w is copied to one of the files d may leave.
Val(l, w, d, p) ==
  IF p \in PagesIn(w.fr, 1, LogEnd(l, w)) THEN {w.fr[At(w.fr, LogEnd(l, w), p)].v} ELSE d[p]

\* With those pages, and its own, l has the database its checksum is of: the others
\* are right, and the header does not hide them.
Leads(l, w, d) ==
  \A p \in 1..l.n \ l.pages :
    /\ \A v \in Val(l, w, d, p) : v = l.post[p]
    /\ \A u \in Val(l, w, d, 1) : p <= u.n

\* Logs x and w are the same as far as l vouches for x.
Agree(l, x, w) == w.salt = x.salt /\ \A i \in 1..LogEnd(l, x) : w.fr[i] = x.fr[i]

\* No checkpoint runs beside anything else, nor past the position.
Alone == (pc # "idle" => ck = NoCkpt) /\ (Active => index.bf <= End)

\* What is visible is among it, and every log has what was committed ...
Visible ==
  /\ \A p \in Pgno : file[p] \in disk[p]
  /\ \A w \in wdisk : Reaches(New, w)

\* ... and, with any of the files, leads to the database of the newest LTX file.
AllLead == pc # "import" => \A w \in wdisk : Leads(New, w, disk)

\* The pages that are not in the log, and once it is copied all pages, are synced.
Durable ==
  /\ Active \/ (role = "leaving" /\ pc = "resize") =>
       \A p \in 1..pageN \ PagesIn(wal.fr, 1, End) : disk[p] = {file[p]}
  /\ (Active /\ index.bf = index.mx) \/ (role = "leaving" /\ pc = "reset") =>
       \A p \in 1..pageN : disk[p] = {file[p]}

\* A log that is in use is the one the newest LTX file names, once it has a
\* transaction; all that may be left of it agree.
Linked ==
  wal.salt # 0 =>
    /\ Active \/ role = "leaving" => dbw.salt = wal.salt /\ LogEnd(New, wal) = End
    /\ Active \/ pc \in {"recover", "resize"} => \A w \in wdisk : Agree(New, wal, w)
    /\ role = "opening" => Continues(New, wal) /\ Len(wal.fr) = EndOf(New)
    /\ pc = "synced" => wdisk = {wal}

\* CheckpointNoLock brings the file to where no log is needed.
Opening ==
  /\ role = "down" => wdisk = {wal}
  /\ pc = "resize" => \A p \in Pgno : file[p] \in Val(New, wal, disk, p)
  /\ pc \in {"reset", "init"} => Leads(New, NoLog, disk)

\* The checksums that ApplyLTXNoLock compares are right.
Checked ==
  /\ pc = "apply" => Same(sums, New.post, 1..New.n \ New.pages)
  /\ pc = "verify" => Same(sums, New.post, 1..New.n)

DiskInv ==
  /\ OpenSucceeds /\ Alone /\ Visible /\ AllLead /\ Durable /\ Linked /\ Opening /\ Checked

-----------------------------------------------------------------------------
(* What leads to the database of the newest LTX file. *)

\* A log and files that leave no page but what others leave, or what is right, lead
\* there as well ...
LEMMA LeadsFrom ==
  ASSUME NEW l, NEW w, NEW d, NEW x, NEW e, l.n \in Pgno, Whole(l.post, l.n), Leads(l, w, d),
         \A p \in 1..l.n : \A v \in Val(l, x, e, p) : v \in Val(l, w, d, p) \/ v = l.post[p]
  PROVE  Leads(l, x, e)
<1>1. l.n \in Nat /\ 1 \in 1..l.n /\ l.post[1].n = l.n
  BY PageFacts DEF Pgno, Whole
<1>2. SUFFICES ASSUME NEW p \in 1..l.n \ l.pages
               PROVE  /\ \A v \in Val(l, x, e, p) : v = l.post[p]
                      /\ \A u \in Val(l, x, e, 1) : p <= u.n
  BY DEF Leads
<1>3. /\ \A v \in Val(l, w, d, p) : v = l.post[p]
      /\ \A u \in Val(l, w, d, 1) : p <= u.n
  BY DEF Leads
<1>4. \A v \in Val(l, x, e, p) : v = l.post[p]
  BY <1>3
<1>5. ASSUME NEW u \in Val(l, x, e, 1) PROVE p <= u.n
  <2>1. CASE u \in Val(l, w, d, 1)
    BY <1>3, <2>1
  <2>2. CASE u = l.post[1]
    BY <1>1, <2>2
  <2>3. QED
    BY <1>1, <2>1, <2>2
<1>6. QED
  BY <1>4, <1>5

\* ... and so do those that leave only what is right.
LEMMA LeadsPosted ==
  ASSUME NEW l, NEW x, NEW e, l.n \in Pgno, Whole(l.post, l.n),
         \A p \in 1..l.n : \A v \in Val(l, x, e, p) : v = l.post[p]
  PROVE  Leads(l, x, e)
<1>1. l.n \in Nat /\ 1 \in 1..l.n /\ l.post[1].n = l.n
  BY PageFacts DEF Pgno, Whole
<1>2. \A p \in 1..l.n : \A u \in Val(l, x, e, 1) : p <= u.n
  BY <1>1
<1>3. QED
  BY <1>2 DEF Leads

\* A log that is not used leaves the file.
LEMMA ValNone ==
  \A l, w, d, p : LogEnd(l, w) = 0 => Val(l, w, d, p) = d[p]
<1>1. \A fr : PagesIn(fr, 1, 0) = {}
  BY PagesInNone
<1>2. QED
  BY <1>1 DEF Val

\* Logs that agree leave the same.
LEMMA ValAgree ==
  ASSUME NEW l, NEW x, NEW w, Agree(l, x, w), LogEnd(l, x) \in Nat
  PROVE  LogEnd(l, w) = LogEnd(l, x) /\ \A d, p : Val(l, w, d, p) = Val(l, x, d, p)
<1>1. LogEnd(l, w) = LogEnd(l, x)
  BY DEF Agree, LogEnd, Continues
<1>2. PICK k \in Nat : k = LogEnd(l, x)
  OBVIOUS
<1>3. \A i \in 1..k : w.fr[i] = x.fr[i]
  BY <1>2 DEF Agree
<1>4. PagesIn(w.fr, 1, k) = PagesIn(x.fr, 1, k)
  BY <1>3, PagesInSame
<1>5. \A p : p \in PagesIn(x.fr, 1, k) =>
         At(w.fr, k, p) = At(x.fr, k, p) /\ At(x.fr, k, p) \in 1..k
  <2>1. PagesIn(w.fr, k + 1, k) = {}
    BY <1>2, PagesInNone
  <2>2. ASSUME NEW p PROVE At(w.fr, k, p) = At(x.fr, k, p)
    <3>1. k <= k /\ p \notin PagesIn(w.fr, k + 1, k)
      BY <2>1
    <3>2. QED
      BY <1>3, <3>1, AtSame
  <2>3. ASSUME NEW p, p \in PagesIn(x.fr, 1, k) PROVE At(x.fr, k, p) \in 1..k
    BY <1>2, <2>3, AtIs
  <2>4. QED
    BY <2>2, <2>3
<1>6. ASSUME NEW d, NEW p PROVE Val(l, w, d, p) = Val(l, x, d, p)
  <2>1. CASE p \in PagesIn(x.fr, 1, k)
    <3>1. w.fr[At(w.fr, k, p)] = x.fr[At(x.fr, k, p)]
      BY <1>3, <1>5, <2>1
    <3>2. QED
      BY <1>1, <1>2, <1>4, <2>1, <3>1 DEF Val
  <2>2. CASE p \notin PagesIn(x.fr, 1, k)
    BY <1>1, <1>2, <1>4, <2>2 DEF Val
  <2>3. QED
    BY <2>1, <2>2
<1>7. QED
  BY <1>1, <1>6

\* Where a log is used, and how far.
LEMMA LogEndFacts ==
  ASSUME Typed, Visible, NEW w \in wdisk
  PROVE  /\ LogEnd(New, w) \in Nat /\ LogEnd(New, w) <= Len(w.fr) /\ Len(w.fr) \in Nat
         /\ EndOf(New) \in Nat /\ New.off <= EndOf(New)
         /\ LogEnd(New, w) # 0 <=> Continues(New, w)
<1>1. EndOf(New) \in Nat /\ New.off <= EndOf(New)
  BY NewFacts DEF EndOf
<1>2. Len(w.fr) \in Nat
  BY LenProperties DEF Typed, TypeOK, Log
<1>3. Continues(New, w) => EndOf(New) \in 1..Len(w.fr)
  BY DEF Visible, Reaches
<1>4. QED
  BY <1>1, <1>2, <1>3 DEF LogEnd

-----------------------------------------------------------------------------
(* Transactions and the checkpoints of SQLite keep it. *)

\* Nothing is written.
LEMMA DiskQuiet ==
  ASSUME Inv, DiskInv, UNCHANGED <<file, disk, wal, wdisk, ltx, pageN, dbw>>, Active, Active', Alone',
         index'.bf = index'.mx => index.bf = index.mx,
         pc' = "synced" /\ wal.salt # 0 => pc = "synced"
  PROVE  DiskInv'
<1>1. New' = New /\ End' = End /\ pc # "import"
  BY DEF New, End, Active, Logging
<1>2. OpenSucceeds' /\ Opening' /\ Checked'
  BY DEF OpenSucceeds, Opening, Checked, Active, Running, Logging
<1>3. Visible' /\ AllLead'
  BY <1>1 DEF DiskInv, Visible, AllLead
<1>4. Durable'
  <2>1. \A p \in 1..pageN \ PagesIn(wal.fr, 1, End) : disk[p] = {file[p]}
    BY DEF DiskInv, Durable
  <2>2. index'.bf = index'.mx => \A p \in 1..pageN : disk[p] = {file[p]}
    BY DEF DiskInv, Durable
  <2>3. QED
    BY <1>1, <2>1, <2>2 DEF Durable, Active, Logging
<1>5. Linked'
  BY <1>1 DEF DiskInv, Linked, Active, Running
<1>6. QED
  BY <1>2, <1>3, <1>4, <1>5 DEF DiskInv

\* The log is written behind what was committed, or synced.
LEMMA DiskLog ==
  ASSUME Inv, DiskInv, UNCHANGED <<file, disk, ltx, pageN, dbw, index>>, Active, Active', Alone',
         wal.salt # 0, wal'.salt = wal.salt, \A i \in 1..End : wal'.fr[i] = wal.fr[i],
         Reaches(New, wal'), wal' \in wdisk', wdisk' \subseteq wdisk \cup {wal'},
         pc' = "synced" => wdisk' = {wal'}
  PROVE  DiskInv'
<1>0. /\ Typed /\ Visible /\ wal \in wdisk /\ New' = New /\ End' = End /\ pc # "import"
      /\ dbw.salt = wal.salt /\ LogEnd(New, wal) = End /\ End \in Nat
      /\ \A w \in wdisk : Agree(New, wal, w)
  BY LogFacts DEF Inv, DiskInv, Typed, TypeOK, New, End, Active, Logging, Linked
<1>1. Agree(New, wal, wal')
  BY <1>0 DEF Agree
<1>2. LogEnd(New, wal') = End /\ \A d, p : Val(New, wal', d, p) = Val(New, wal, d, p)
  BY <1>0, <1>1, ValAgree
<1>3. OpenSucceeds' /\ Opening' /\ Checked'
  BY DEF OpenSucceeds, Opening, Checked, Active, Running, Logging
<1>4. Visible'
  BY <1>0 DEF Visible
<1>5. Leads(New, wal', disk)
  <2>1. Leads(New, wal, disk)
    BY <1>0 DEF DiskInv, AllLead
  <2>2. QED
    BY <1>2, <2>1 DEF Leads
<1>6. AllLead'
  BY <1>0, <1>5 DEF DiskInv, AllLead
<1>7. Durable'
  <2>1. PagesIn(wal'.fr, 1, End) = PagesIn(wal.fr, 1, End)
    BY PagesInSame
  <2>2. QED
    BY <1>0, <2>1 DEF DiskInv, Durable, Active, Logging
<1>8. Linked'
  <2>1. ASSUME NEW w \in wdisk' PROVE Agree(New, wal', w)
    BY <1>0, <1>2, <2>1 DEF Agree
  <2>2. QED
    BY <1>0, <1>2, <2>1 DEF Linked, Active, Running
<1>9. QED
  BY <1>3, <1>4, <1>6, <1>7, <1>8 DEF DiskInv

\* A client begins a transaction, publishes it or gives up.
LEMMA DiskClient ==
  ASSUME Clients = {}, Inv, DiskInv,
         (\E n \in Pgno : \E w \in SUBSET Pgno : BeginWrite(n, w)) \/ WriteSHM \/ ClientEnds
  PROVE  DiskInv'
<1>0. /\ Typed /\ UNCHANGED <<file, disk, wal, wdisk, ltx, pageN, dbw, role, ck>>
      /\ pc' \in {"begin", "unlock"} /\ pc \in {"idle", "begin", "tx", "framed"}
      /\ (pc = "idle" => ck = NoCkpt /\ role = "primary")
  BY DEF Inv, BeginWrite, WriteSHM, ClientEnds, dbfile, log, memory
<1>1. Active /\ Active' /\ ck = NoCkpt /\ End' = End /\ index.bf <= End
  BY <1>0, WriterRuns DEF Inv, DiskInv, Alone, Active, Running, Logging, End
<1>2. index'.bf = index.bf /\ (index'.mx = index'.bf => index.mx = index.bf)
  <2>1. CASE pc = "framed"
    <3>0. ClientEnds => index' = index
      BY DEF ClientEnds
    <3>1. \A n, w : ~BeginWrite(n, w)
      BY <2>1 DEF BeginWrite
    <3>2. CASE WriteSHM
      <4>1. /\ index \in [mx : Nat, bf : Nat, n : 0..MaxPage, salt : Nat] /\ index.bf <= index.mx
            /\ cl.at \in Nat
        BY <1>0 DEF Typed, TypeOK
      <4>2. index' = [index EXCEPT !.mx = cl.at, !.n = cl.v.n] /\ cl.at > index.mx
        BY <2>1, <3>2 DEF WriteSHM, Inv, Transaction
      <4>3. index'.bf = index.bf /\ index'.mx = cl.at
        BY <4>1, <4>2
      <4>4. QED
        BY <4>1, <4>2, <4>3
    <3>3. QED
      BY <3>0, <3>1, <3>2
  <2>2. CASE pc # "framed"
    <3>1. index' = index
      BY <2>2 DEF BeginWrite, WriteSHM, ClientEnds
    <3>2. QED
      BY <3>1
  <2>3. QED
    BY <2>1, <2>2
<1>3. Alone'
  BY <1>0, <1>1, <1>2 DEF Alone
<1>4. QED
  BY <1>0, <1>1, <1>2, <1>3, DiskQuiet

\* The CKPT lock is taken or given up.
LEMMA DiskLockCkpt ==
  ASSUME Clients = {}, Inv, DiskInv, LockCkpt \/ AbortCheckpoint
  PROVE  DiskInv'
<1>0. UNCHANGED <<file, disk, wal, wdisk, ltx, pageN, dbw, role, pc, index>>
  BY DEF LockCkpt, AbortCheckpoint, dbfile, log, memory
<1>1. Active
  <2>1. CASE LockCkpt
    BY <2>1 DEF LockCkpt, TryLockCkpt, Active, Logging
  <2>2. CASE AbortCheckpoint
    BY <2>2, CheckpointRuns DEF AbortCheckpoint
  <2>3. QED
    BY <2>1, <2>2
<1>2. Active' /\ End' = End
  BY <1>0, <1>1 DEF Active, Running, End
<1>3. Alone'
  BY <1>0, <1>1, <1>2 DEF DiskInv, Alone, LockCkpt, TryLockCkpt, AbortCheckpoint
<1>4. QED
  BY <1>0, <1>1, <1>2, <1>3, DiskQuiet

\* A header is written: what is on the disk is the database.
LEMMA DiskHeader ==
  ASSUME Clients = {}, Inv, Inv', DiskInv, NEW s \in Salts, WriteWALHeader(s)
  PROVE  DiskInv'
<1> DEFINE x == [wal EXCEPT !.salt = s, !.fr = IF s = wal.salt THEN @ ELSE <<>>]
<1>0. /\ Typed /\ Typed' /\ pc = "begin" /\ pc' = "tx" /\ role = "primary" /\ role' = "primary"
      /\ index.bf = index.mx /\ SyncLog(x)
      /\ UNCHANGED <<file, disk, ltx, pageN, pos, ck>> /\ dbw' = HeaderWritten(s)
      /\ index' = [index EXCEPT !.mx = 0, !.bf = 0, !.salt = s]
  BY DEF Inv, WriteWALHeader, dbfile
<1>1. /\ Active /\ Active' /\ Unpublished /\ ck = NoCkpt /\ New' = New
      /\ Same(file, pos.sum, 1..pageN) /\ Whole(pos.sum, pageN) /\ pos.sum = New.post
  <2>1. /\ Active /\ Active' /\ Unpublished /\ Whole(pos.sum, pageN) /\ pos.sum = New.post
        /\ New' = New
    BY <1>0 DEF Inv, Ends, Active, Running, Logging, Published, Position, New
  <2>2. QED
    BY <1>0, <2>1, AllCopied
<1>2. /\ wal \in Log /\ wal \in wdisk /\ wal.salt \in Nat /\ Len(wal.fr) \in Nat /\ wal.size \in Nat
      /\ index \in [mx : Nat, bf : Nat, n : 0..MaxPage, salt : Nat]
  BY <1>0, LogFacts DEF Typed, TypeOK
<1>3. /\ cl.v.tx = Used /\ Used \in Nat /\ Used >= 1 /\ Seen = Used - 1
      /\ New.salt <= Used - 1 /\ New.salt \in Nat
  <2>1. /\ cl.v.tx = Used /\ Used \in Nat /\ Used >= 1 /\ Seen = Used - 1
    BY <1>0, UsedType DEF Inv, SaltsSeen, Seen
  <2>2. Len(ltx) \in 1..Len(ltx) /\ New.salt \in Nat
    BY <1>0, NewFacts
  <2>3. QED
    BY <2>1, <2>2 DEF Inv, SaltsSeen, New
<1>4. s # 0 /\ (s = cl.v.tx \/ (s = wal.salt /\ index.mx = 0))
  BY <1>2, <1>3 DEF Salts
<1>5. x \in Log /\ x.salt = s /\ Len(x.fr) <= x.size
  <2>1. x \in Log /\ x.salt = s /\ x.size = wal.size /\ x.fr = IF s = wal.salt THEN wal.fr ELSE <<>>
    BY <1>2, <1>3, <1>4, EmptySeq DEF Log, Salts
  <2>2. Len(wal.fr) <= wal.size
    BY <1>2 DEF DiskInv, Visible, Reaches
  <2>3. Len(<<>>) = 0
    BY EmptySeq
  <2>4. QED
    BY <1>2, <2>1, <2>2, <2>3
<1> HIDE DEF x
<1>6. wdisk' = {wal'} /\ wal'.salt = s /\ wal'.fr = x.fr /\ wal'.size = x.size
  BY <1>0, <1>4, <1>5, SyncLogTyped
<1>7. ~Continues(New, wal')
  <2>1. CASE s = cl.v.tx
    <3>1. s # New.salt
      BY <1>3, <2>1
    <3>2. QED
      BY <1>6, <3>1 DEF Continues
  <2>2. CASE s = wal.salt /\ index.mx = 0
    <3>1. LogEnd(New, wal) = 0
      BY <1>1, <1>4, <2>2 DEF DiskInv, Linked, Unpublished
    <3>2. ~Continues(New, wal)
      BY <1>0, <1>2, <3>1, LogEndFacts DEF DiskInv
    <3>3. QED
      BY <1>6, <2>2, <3>2 DEF Continues
  <2>3. QED
    BY <1>4, <2>1, <2>2
<1>8. LogEnd(New, wal') = 0 /\ Reaches(New, wal')
  BY <1>5, <1>6, <1>7 DEF LogEnd, Reaches
<1>9. \A p \in 1..pageN : disk[p] = {file[p]}
  BY <1>0, <1>1 DEF DiskInv, Durable
<1>10. New.n = pageN /\ New.n \in Pgno /\ Whole(New.post, New.n)
  <2>1. Whole(New.post, New.n) /\ New.n \in Pgno
    BY <1>0, NewFacts DEF Inv
  <2>2. New.n = pageN
    BY <1>1, <2>1 DEF Whole
  <2>3. QED
    BY <2>1, <2>2
<1>11. Leads(New, wal', disk)
  <2>1. ASSUME NEW p \in 1..New.n, NEW v \in Val(New, wal', disk, p) PROVE v = New.post[p]
    <3>1. v \in disk[p]
      BY <1>8, ValNone
    <3>2. QED
      BY <1>1, <1>9, <1>10, <3>1 DEF Same
  <2>2. QED
    BY <1>10, <2>1, LeadsPosted
<1>12. /\ index'.mx = 0 /\ index'.bf = 0 /\ dbw'.offset = 0 /\ dbw'.salt = s /\ End' = 0
  <2>1. index'.mx = 0 /\ index'.bf = 0 /\ dbw'.offset = 0 /\ dbw'.salt = s
    BY <1>0, <1>2 DEF HeaderWritten, NewDBWAL
  <2>2. QED
    BY <2>1 DEF End
<1>13. OpenSucceeds' /\ Opening' /\ Checked' /\ Alone'
  BY <1>0, <1>1, <1>12 DEF OpenSucceeds, Opening, Checked, Alone
<1>14. Visible' /\ AllLead'
  BY <1>0, <1>1, <1>6, <1>8, <1>11 DEF DiskInv, Visible, AllLead
<1>15. Durable'
  BY <1>0, <1>9 DEF Durable
<1>16. Linked'
  <2>1. Agree(New, wal', wal')
    BY DEF Agree
  <2>2. QED
    BY <1>0, <1>1, <1>6, <1>8, <1>12, <2>1 DEF Linked
<1>17. QED
  BY <1>13, <1>14, <1>15, <1>16 DEF DiskInv

\* A frame is written behind the end of the log.
LEMMA DiskFrame ==
  ASSUME Clients = {}, Inv, Inv', DiskInv, WriteWALFrame
  PROVE  DiskInv'
<1> DEFINE p == CHOOSE q \in cl.w : \A r \in cl.w : q <= r
           e == [p |-> p, v |-> cl.v, commit |-> IF cl.w = {p} THEN cl.v.n ELSE 0]
           g == Append(SubSeq(wal.fr, 1, cl.at), e)
           z == IF wal.size > cl.at THEN wal.size ELSE cl.at + 1
           x == [wal EXCEPT !.fr = g, !.size = z]
<1>0. /\ Typed /\ pc \in {"begin", "tx"} /\ pc' \in {"framed", "tx"}
      /\ role = "primary" /\ (pc = "begin" => index.mx > 0)
      /\ UNCHANGED <<file, disk, ltx, index, pageN, dbw, role, ck>>
      /\ wal' = x /\ wdisk' = wdisk \cup {wal'} /\ cl'.at = cl.at + 1
  BY DEF Inv, WriteWALFrame, WriteLog, dbfile, memory, Typed, TypeOK
<1> HIDE DEF x, g, z, e
<1>1. Active /\ Active' /\ Unpublished /\ Transaction /\ ck = NoCkpt /\ index.bf <= End
  BY <1>0 DEF Inv, DiskInv, Alone, Ends, Active, Running, Logging, Published
<1>2. /\ wal \in Log /\ Len(wal.fr) \in Nat /\ wal.size \in Nat /\ wal.fr \in Seq(Frame)
      /\ index.mx \in Nat /\ End \in Nat /\ cl.at \in Nat /\ wal \in wdisk
  BY <1>0, LogFacts DEF Typed, TypeOK
<1>3. cl.at \in index.mx..Len(wal.fr) /\ End <= cl.at /\ cl.at <= Len(wal.fr)
  BY <1>0, <1>1, <1>2 DEF Transaction, Unpublished
<1>4. wal.salt # 0
  <2>1. pc = "tx" \/ index.mx # 0
    BY <1>0, <1>2
  <2>2. QED
    BY <1>0, <1>1, <2>1, LogFacts DEF Transaction, Unpublished, End
<1>5. Len(g) = cl.at + 1 /\ \A i \in 1..cl.at : g[i] = wal.fr[i]
  <2>1. PICK h : h = SubSeq(wal.fr, 1, cl.at)
    OBVIOUS
  <2>2. h \in Seq(Frame) /\ Len(h) = cl.at /\ \A i \in 1..cl.at : h[i] = wal.fr[i]
    BY <1>2, <1>3, <2>1, SubSeqProperties
  <2>3. g = Append(h, e) /\ h \in Seq(Frame \cup {e}) /\ e \in Frame \cup {e}
    BY <2>1, <2>2 DEF g
  <2>4. Len(g) = Len(h) + 1 /\ \A i \in 1..Len(h) : g[i] = h[i]
    BY <2>3, AppendProperties
  <2>5. QED
    BY <2>2, <2>4
<1>6. wal'.salt = wal.salt /\ wal'.fr = g /\ wal'.size = z
  BY <1>0, <1>2 DEF Log, x
<1>7. /\ \A i \in 1..End : wal'.fr[i] = wal.fr[i]
      /\ End <= Len(wal'.fr) /\ Len(wal'.fr) <= wal'.size
  <2>1. \A i \in 1..End : i \in 1..cl.at
    BY <1>2, <1>3
  <2>2. End <= cl.at + 1 /\ cl.at + 1 <= z
    BY <1>2, <1>3 DEF z
  <2>3. QED
    BY <1>5, <1>6, <2>1, <2>2
<1>8. Reaches(New, wal')
  <2>1. Continues(New, wal') => EndOf(New) = End /\ Continues(New, wal)
    BY <1>1, <1>4, <1>6 DEF DiskInv, Linked, Continues, LogEnd
  <2>2. Continues(New, wal) => EndOf(New) \in 1..Len(wal.fr) /\ wal.fr[EndOf(New)].commit = New.n
    BY <1>2 DEF DiskInv, Visible, Reaches
  <2>3. ASSUME Continues(New, wal')
        PROVE  EndOf(New) \in 1..Len(wal'.fr) /\ wal'.fr[EndOf(New)].commit = New.n
    <3>1. End \in 1..End /\ EndOf(New) = End
      BY <1>2, <2>1, <2>2, <2>3
    <3>2. Len(wal'.fr) \in Nat
      BY <1>2, <1>5, <1>6
    <3>3. QED
      BY <1>7, <2>1, <2>2, <2>3, <3>1, <3>2
  <2>4. QED
    BY <1>7, <2>3 DEF Reaches
<1>9. Alone'
  <2>1. End' = End
    BY <1>0, <1>6 DEF End
  <2>2. QED
    BY <1>0, <1>1, <2>1 DEF Alone
<1>10. wal' \in wdisk' /\ wdisk' \subseteq wdisk \cup {wal'} /\ pc' # "synced"
  BY <1>0
<1>11. UNCHANGED <<file, disk, ltx, pageN, dbw, index>>
  BY <1>0
<1>12. wal'.salt = wal.salt /\ \A i \in 1..End : wal'.fr[i] = wal.fr[i]
  BY <1>6, <1>7
<1>13. QED
  BY <1>1, <1>4, <1>8, <1>9, <1>10, <1>11, <1>12, DiskLog

\* The log is synced.
LEMMA DiskSynced ==
  ASSUME Inv, DiskInv, UNCHANGED <<file, disk, ltx, pageN, dbw, index>>, Active, Active', Alone',
         wal.salt # 0, SyncLog(wal)
  PROVE  DiskInv'
<1>1. wal'.salt = wal.salt /\ wal'.fr = wal.fr /\ wal'.size = wal.size /\ wdisk' = {wal'}
  BY LogFacts, SyncLogTyped DEF Inv
<1>2. Reaches(New, wal')
  <2>1. Reaches(New, wal)
    BY DEF Inv, Typed, TypeOK, DiskInv, Visible
  <2>2. QED
    BY <1>1, <2>1 DEF Reaches, Continues
<1>3. QED
  BY <1>1, <1>2, DiskLog

\* CommitWAL syncs the log.
LEMMA DiskCommitSync ==
  ASSUME Clients = {}, Inv, DiskInv, CommitSync
  PROVE  DiskInv'
<1>0. /\ Typed /\ pc = "unlock" /\ pc' = "synced"
      /\ (wal.salt = 0 => UNCHANGED log) /\ (wal.salt # 0 => SyncLog(wal))
      /\ UNCHANGED <<file, disk, ltx, index, pageN, dbw, role, ck>>
  BY DEF Inv, CommitSync, dbfile, memory
<1>1. Active /\ Active' /\ ck = NoCkpt /\ index.bf <= End
  BY <1>0, WriterRuns DEF Inv, DiskInv, Alone, Active, Running, Logging
<1>2. CASE wal.salt = 0
  <2>1. UNCHANGED <<wal, wdisk>> /\ End' = End
    BY <1>0, <1>2 DEF log, End
  <2>2. Alone'
    BY <1>0, <1>1, <2>1 DEF Alone
  <2>3. QED
    BY <1>0, <1>1, <1>2, <2>1, <2>2, DiskQuiet
<1>3. CASE wal.salt # 0
  <2>1. End' = End
    BY <1>0, <1>3, SyncLogTyped, LogFacts DEF End
  <2>2. Alone'
    BY <1>0, <1>1, <2>1 DEF Alone
  <2>3. QED
    BY <1>0, <1>1, <1>3, <2>2, DiskSynced
<1>4. QED
  BY <1>2, <1>3

\* A checkpoint runs between transactions, on a log with some.
LEMMA CheckpointAlone ==
  ASSUME Inv, DiskInv, ck # NoCkpt
  PROVE  /\ pc = "idle" /\ Active /\ Unpublished /\ Held /\ wal.salt # 0 /\ index.bf < index.mx
         /\ index.mx = End /\ LogEnd(New, wal) = End /\ \A w \in wdisk : Agree(New, wal, w)
<1>1. Typed /\ pc = "idle" /\ Active /\ Held /\ index.bf < index.mx
  BY CheckpointRuns DEF Inv, DiskInv, Alone
<1>2. Unpublished
  BY <1>1 DEF Inv, Ends, Published
<1>3. wal.salt # 0
  <2>1. index.mx # 0
    BY <1>1, LogFacts
  <2>2. QED
    BY <1>2, <2>1 DEF Unpublished, End
<1>4. QED
  BY <1>1, <1>2, <1>3 DEF Unpublished, DiskInv, Linked

\* SQLite's checkpoint syncs it.
LEMMA DiskBeginCheckpoint ==
  ASSUME Clients = {}, Inv, DiskInv, NEW m, BeginCheckpoint(m)
  PROVE  DiskInv'
<1>0. /\ Typed /\ ck # NoCkpt /\ SyncLog(wal)
      /\ UNCHANGED <<file, disk, ltx, index, pageN, dbw, role, pc>>
  BY DEF Inv, BeginCheckpoint, dbfile, memory, NoCkpt
<1>1. Active /\ pc = "idle" /\ wal.salt # 0 /\ index.bf <= End
  BY <1>0, CheckpointAlone DEF DiskInv, Alone
<1>2. Active' /\ End' = End
  BY <1>0, <1>1, SyncLogTyped, LogFacts DEF Active, Running, End
<1>3. Alone'
  BY <1>0, <1>1, <1>2 DEF Alone
<1>4. QED
  BY <1>0, <1>1, <1>2, <1>3, DiskSynced

\* Pages that are in the log are written to the file: the log still has them.
LEMMA LeadsWrite ==
  ASSUME Typed, Chained, Visible, NEW S, NEW g, Write(Overlay(file, S, g)), NEW w \in wdisk,
         S \subseteq PagesIn(wal.fr, 1, LogEnd(New, wal)), Agree(New, wal, w), Leads(New, w, disk)
  PROVE  Leads(New, w, disk')
<1>1. LogEnd(New, wal) \in Nat
  BY LogEndFacts DEF Typed, TypeOK
<1>2. PICK k \in Nat : k = LogEnd(New, wal)
  BY <1>1
<1>3. LogEnd(New, w) = k
  BY <1>1, <1>2, ValAgree
<1>4. PagesIn(w.fr, 1, k) = PagesIn(wal.fr, 1, k)
  BY <1>2, PagesInSame DEF Agree
<1>5. New.n \in Pgno /\ Whole(New.post, New.n) /\ \A p \in 1..New.n : p \in Pgno
  BY NewFacts, PageFacts DEF Pgno
<1>6. ASSUME NEW p \in 1..New.n PROVE Val(New, w, disk', p) = Val(New, w, disk, p)
  <2>1. CASE p \in PagesIn(w.fr, 1, k)
    BY <1>3, <2>1 DEF Val
  <2>2. CASE p \notin PagesIn(w.fr, 1, k)
    <3>1. p \notin S /\ p \in Pgno
      BY <1>2, <1>4, <1>5, <2>2
    <3>2. disk'[p] = disk[p]
      <4>1. disk'[p] = disk[p] \cup {file[p]} /\ file[p] \in disk[p]
        BY <3>1 DEF Write, Overlay, Visible
      <4>2. QED
        BY <4>1
    <3>3. QED
      BY <1>3, <2>2, <3>2 DEF Val
  <2>3. QED
    BY <2>1, <2>2
<1>7. QED
  BY <1>5, <1>6, LeadsFrom

\* SQLite copies a page.
LEMMA DiskCopyPage ==
  ASSUME Clients = {}, Inv, DiskInv, NEW p \in Pgno, CopyPage(p)
  PROVE  DiskInv'
<1> DEFINE g == Version(file, wal.fr, ck.mx)
<1>0. /\ Typed /\ Chained /\ Visible /\ ck.st = "copy" /\ ck # NoCkpt /\ p \in ck.todo
      /\ Write(Overlay(file, {p}, g)) /\ UNCHANGED <<wal, wdisk, ltx, index, pageN, dbw, role, pc>>
  BY DEF Inv, DiskInv, CopyPage, WritePages, NoCkpt, log
<1>1. /\ pc = "idle" /\ Active /\ Unpublished /\ wal.salt # 0 /\ index.bf < index.mx
      /\ index.mx = End /\ LogEnd(New, wal) = End /\ \A w \in wdisk : Agree(New, wal, w)
  BY <1>0, CheckpointAlone
<1> HIDE DEF g
<1>2. p \in PagesIn(wal.fr, 1, End)
  <2>1. ck.mx \in index.bf + 1..index.mx /\ ck.todo \subseteq PagesIn(wal.fr, index.bf + 1, ck.mx)
    BY <1>0 DEF Inv, Checkpoint
  <2>2. index.bf \in Nat /\ index.mx \in Nat
    BY <1>0, LogFacts
  <2>3. \A j \in index.bf + 1..ck.mx : j \in 1..End
    BY <1>1, <2>1, <2>2
  <2>4. QED
    BY <1>0, <2>1, <2>3 DEF PagesIn
<1>3. Active' /\ End' = End /\ New' = New
  BY <1>0, <1>1 DEF Active, Running, End, New
<1>4. \A q \in Pgno : /\ file'[q] = Overlay(file, {p}, g)[q] /\ disk'[q] = disk[q] \cup {file'[q]}
                      /\ q # p => file'[q] = file[q]
  BY <1>0 DEF Write, Overlay
<1>5. OpenSucceeds' /\ Opening' /\ Checked' /\ Alone'
  BY <1>0, <1>1, <1>3 DEF DiskInv, OpenSucceeds, Opening, Checked, Alone, Active, Running
<1>6. Visible'
  BY <1>0, <1>3, <1>4 DEF Visible
<1>7. AllLead'
  <2>1. ASSUME NEW w \in wdisk PROVE Leads(New, w, disk')
    <3>1. Leads(New, w, disk) /\ Agree(New, wal, w)
      BY <1>1 DEF DiskInv, AllLead
    <3>2. {p} \subseteq PagesIn(wal.fr, 1, LogEnd(New, wal))
      BY <1>1, <1>2
    <3>3. QED
      BY <1>0, <3>1, <3>2, LeadsWrite
  <2>2. QED
    BY <1>0, <1>3, <2>1 DEF AllLead
<1>8. Durable'
  <2>1. ASSUME NEW q \in 1..pageN \ PagesIn(wal.fr, 1, End) PROVE disk'[q] = {file'[q]}
    <3>1. q \in Pgno
      <4>1. pageN \in 0..MaxPage
        BY <1>0 DEF Typed, TypeOK
      <4>2. QED
        BY <4>1, PageFacts DEF Pgno
    <3>2. disk[q] = {file[q]} /\ q # p
      BY <1>1, <1>2 DEF DiskInv, Durable
    <3>3. QED
      BY <1>4, <3>1, <3>2
  <2>2. index.bf # index.mx
    BY <1>0, <1>1, LogFacts
  <2>3. QED
    BY <1>0, <1>1, <1>3, <2>1, <2>2 DEF Durable
<1>9. Linked'
  BY <1>0, <1>1, <1>3 DEF DiskInv, Linked, Active, Running
<1>10. QED
  BY <1>5, <1>6, <1>7, <1>8, <1>9 DEF DiskInv

\* The pages of a database are pages.
LEMMA PagesBelow == \A n \in Pgno : \A p \in 1..n : p \in Pgno
BY PageFacts DEF Pgno

\* The newest LTX file has a database ...
LEMMA NewWhole == Inv => New.n \in Pgno /\ Whole(New.post, New.n) /\ New.pages \subseteq 1..New.n
BY NewFacts DEF Inv

\* ... and after a step.
LEMMA NewWholeNext ==
  (Inv => New.n \in Pgno /\ Whole(New.post, New.n) /\ New.pages \subseteq 1..New.n)'
BY NewWhole, PTL

\* A file that is added is the newest one.
LEMMA NewAppended ==
  ASSUME Typed, NEW l, ltx' = Append(ltx, l)
  PROVE  New' = l
<1>1. ltx \in Seq(LTX) /\ Len(ltx) \in Nat
  BY NewFacts DEF Typed, TypeOK
<1>2. ltx \in Seq(LTX \cup {l}) /\ l \in LTX \cup {l}
  BY <1>1
<1>3. Len(ltx') = Len(ltx) + 1 /\ ltx'[Len(ltx) + 1] = l
  BY <1>2, AppendProperties
<1>4. QED
  BY <1>3 DEF New

\* CommitWAL makes an LTX file of what is synced.
LEMMA DiskCommitWAL ==
  ASSUME Clients = {}, Inv, Inv', DiskInv, NEW room \in Room, CommitWAL(room)
  PROVE  DiskInv'
<1>0. /\ Typed /\ pc = "synced" /\ pc' = "idle" /\ room = TRUE
      /\ UNCHANGED <<file, disk, wal, index, role, ck>>
  BY DEF Inv, CommitWAL, Room, dbfile
<1>1. Active /\ Active' /\ ck = NoCkpt /\ index.bf <= End /\ role' # "failed"
  BY <1>0, WriterRuns DEF Inv, DiskInv, Alone, Active, Running, Logging
<1>2. CASE Unpublished
  <2>1. UNCHANGED <<ltx, dbw, pageN, wdisk>>
    BY <1>0, <1>2, CommitFinds DEF CommitWAL
  <2>2. Alone'
    BY <1>0, <1>1, <2>1 DEF Alone, End
  <2>3. QED
    BY <1>0, <1>1, <2>1, <2>2, DiskQuiet
<1>3. CASE Published
  <2>0. /\ NextCommit(wal.fr, dbw.offset) = index.mx /\ dbw.offset = End /\ wal.salt # 0
        /\ wal.fr[index.mx].commit = index.n /\ index.mx # 0 /\ index.mx = Len(wal.fr) /\ End < index.mx
        /\ dbw.salt = wal.salt /\ wdisk = {wal} /\ Accepted(index.mx)
    BY <1>0, <1>1, <1>3, CommitFinds, CommitAccepts, LogFacts DEF Published, DiskInv, Linked
  <2>1. PICK d, post :
          ltx' = Append(ltx, [n |-> index.n, pages |-> TxPages, data |-> d, post |-> post,
                              salt |-> dbw.salt, off |-> End, size |-> index.mx - End])
    BY <1>0, <2>0 DEF CommitWAL, TxPages
  <2>2. wdisk' = {wal} /\ pageN' = index.n /\ dbw'.offset = index.mx /\ dbw'.salt = dbw.salt
    <3>1. wdisk' = Settled /\ pageN' = index.n
      BY <1>0, <2>0 DEF CommitWAL
    <3>2. dbw \in [offset : Nat, salt : Nat, frameOffsets : [Pgno -> Nat],
                   chksums : [Pgno -> Value \cup {Absent, NoSum}]]
      BY <1>0 DEF Typed, TypeOK
    <3> DEFINE offs == Overlay(dbw.frameOffsets, TxPages, [p \in Pgno |-> At(wal.fr, index.mx, p)])
               chks == Overlay(dbw.chksums, TxPages \cup index.n + 1..pageN, Trim(TxData, index.n))
    <3>3. dbw' = [dbw EXCEPT !.offset = index.mx, !.frameOffsets = offs, !.chksums = chks]
      BY <1>0, <2>0, Zenon DEF CommitWAL, TxPages, TxData, At
    <3> HIDE DEF offs, chks
    <3>4. dbw'.offset = index.mx /\ dbw'.salt = dbw.salt
      BY <3>2, <3>3
    <3>5. wdisk' = {wal}
      BY <2>0, <3>1 DEF Settled
    <3>6. QED
      BY <3>1, <3>4, <3>5
  <2>3. /\ New'.n = index.n /\ New'.pages = TxPages /\ New'.salt = wal.salt
        /\ New'.off = End /\ New'.size = index.mx - End
    <3> DEFINE l == [n |-> index.n, pages |-> TxPages, data |-> d, post |-> post,
                     salt |-> dbw.salt, off |-> End, size |-> index.mx - End]
    <3>1. /\ l.n = index.n /\ l.pages = TxPages /\ l.salt = dbw.salt /\ l.off = End
          /\ l.size = index.mx - End
      OBVIOUS
    <3> HIDE DEF l
    <3>2. ltx' = Append(ltx, l)
      BY <2>1 DEF l
    <3>3. New' = l
      BY <1>0, <3>2, NewAppended
    <3>4. QED
      BY <2>0, <3>1, <3>3
  <2>4. index.mx \in Nat /\ End \in Nat /\ index.bf \in Nat /\ wal.salt \in Nat
    BY <1>0, LogFacts
  <2>5. EndOf(New') = index.mx /\ Continues(New', wal) /\ LogEnd(New', wal) = index.mx /\ End' = index.mx
    <3>1. EndOf(New') = index.mx
      BY <2>3, <2>4 DEF EndOf
    <3>2. QED
      BY <1>0, <2>0, <2>2, <2>3, <3>1 DEF Continues, LogEnd, End
  <2>6. Reaches(New', wal)
    <3>1. Len(wal.fr) <= wal.size
      BY <2>0 DEF DiskInv, Visible, Reaches
    <3>2. index.mx \in 1..Len(wal.fr)
      BY <2>0, <2>4
    <3>3. QED
      BY <2>0, <2>3, <2>5, <3>1, <3>2 DEF Reaches
  <2>7. ASSUME NEW p \in 1..index.n \ PagesIn(wal.fr, 1, index.mx) PROVE disk[p] = {file[p]}
    <3>1. p \notin TxPages /\ p \notin PagesIn(wal.fr, 1, End)
      <4>1. End + 1..index.mx \subseteq 1..index.mx /\ 1..End \subseteq 1..index.mx
        BY <2>0, <2>4
      <4>2. QED
        BY <4>1 DEF TxPages, PagesIn
    <3>2. p \in 1..pageN
      BY <1>0, <1>3, <3>1, CommitReads
    <3>3. QED
      BY <1>1, <3>1, <3>2 DEF DiskInv, Durable
  <2>8. Held' /\ pos'.sum = New'.post /\ Whole(New'.post, New'.n) /\ New'.n \in Pgno
    <3>1. Held' /\ pos'.sum = New'.post
      BY <1>0, <1>1 DEF Inv, Contents, Position, Active
    <3>2. QED
      BY <3>1, NewWholeNext
  <2>9. Leads(New', wal, disk)
    <3>1. ASSUME NEW p \in 1..index.n, NEW v \in Val(New', wal, disk, p) PROVE v = New'.post[p]
      <4>1. CASE p \in PagesIn(wal.fr, 1, index.mx)
        <5>1. v = wal.fr[At(wal.fr, index.mx, p)].v
          BY <2>5, <3>1, <4>1 DEF Val
        <5>2. wal.fr[At(wal.fr, index.mx, p)].v = pos'.sum[p]
          BY <1>0, <2>2, <2>5, <2>8, <4>1 DEF Held, InLog
        <5>3. QED
          BY <2>8, <5>1, <5>2
      <4>2. CASE p \notin PagesIn(wal.fr, 1, index.mx)
        <5>1. v \in disk[p]
          BY <2>5, <3>1, <4>2 DEF Val
        <5>2. v = file[p]
          BY <2>7, <4>2, <5>1
        <5>3. file[p] = pos'.sum[p]
          BY <1>0, <2>2, <2>8, <4>2 DEF Held, Untouched
        <5>4. QED
          BY <2>8, <5>2, <5>3
      <4>3. QED
        BY <4>1, <4>2
    <3>2. QED
      BY <2>3, <2>8, <3>1, LeadsPosted
  <2>10. OpenSucceeds' /\ Opening' /\ Checked'
    BY <1>0, <1>1 DEF OpenSucceeds, Opening, Checked, Active, Running
  <2>11. Alone'
    BY <1>0, <1>1, <2>0, <2>4, <2>5 DEF Alone
  <2>12. Visible' /\ AllLead'
    BY <1>0, <2>2, <2>6, <2>9 DEF DiskInv, Visible, AllLead
  <2>13. Durable'
    <3>1. index.bf # index.mx
      BY <1>1, <2>0, <2>4
    <3>2. QED
      BY <1>0, <2>2, <2>5, <2>7, <3>1 DEF Durable
  <2>14. Linked'
    <3>1. Agree(New', wal, wal)
      BY DEF Agree
    <3>2. QED
      BY <1>0, <1>1, <2>0, <2>2, <2>5, <3>1 DEF Linked, Active, Running
  <2>15. QED
    BY <2>10, <2>11, <2>12, <2>13, <2>14 DEF DiskInv
<1>4. QED
  BY <1>0, <1>2, <1>3, CommitFinds

\* SQLite's checkpoint ends: if all of the log is in the file, the file is synced.
LEMMA DiskEndCheckpoint ==
  ASSUME Clients = {}, Inv, Inv', DiskInv, EndCheckpoint
  PROVE  DiskInv'
<1>0. /\ Typed /\ Chained /\ Visible /\ ck.st = "copy" /\ ck # NoCkpt /\ ck' = NoCkpt
      /\ index' = [index EXCEPT !.bf = ck.mx]
      /\ UNCHANGED <<wal, ltx, pageN, dbw, pos, role, pc>>
      /\ ck.mx = index.mx => Sync(Trim(file, pageN)) /\ wdisk' = Settled
      /\ ck.mx # index.mx => UNCHANGED <<file, disk, wdisk>>
  BY DEF Inv, DiskInv, EndCheckpoint, memory, dbfile, NoCkpt
<1>1. /\ pc = "idle" /\ Active /\ Unpublished /\ wal.salt # 0 /\ index.bf < index.mx
      /\ index.mx = End /\ LogEnd(New, wal) = End /\ \A w \in wdisk : Agree(New, wal, w)
  BY <1>0, CheckpointAlone
<1>2. Active' /\ End' = End /\ New' = New
  BY <1>0, <1>1 DEF Active, Running, End, New
<1>3. index'.bf = ck.mx /\ index'.mx = index.mx /\ ck.mx <= index.mx
  <2>1. index \in [mx : Nat, bf : Nat, n : 0..MaxPage, salt : Nat]
    BY <1>0 DEF Typed, TypeOK
  <2>2. ck.mx \in index.bf + 1..index.mx
    BY <1>0 DEF Inv, Checkpoint
  <2>3. QED
    BY <1>0, <2>1, <2>2
<1>4. Alone'
  BY <1>0, <1>1, <1>2, <1>3 DEF Alone
<1>5. CASE ck.mx # index.mx
  BY <1>0, <1>1, <1>2, <1>3, <1>4, <1>5, DiskQuiet
<1>6. CASE ck.mx = index.mx
  <2>1. wdisk' \subseteq wdisk /\ file' = Trim(file, pageN) /\ \A p \in Pgno : disk'[p] = {file'[p]}
    BY <1>0, <1>6, SettledTyped DEF Sync
  <2>2. \A p \in 1..pageN : p \in Pgno /\ file'[p] = file[p]
    <3>1. pageN \in 0..MaxPage
      BY <1>0 DEF Typed, TypeOK
    <3>2. \A p \in 1..pageN : p \in Pgno /\ p <= pageN
      BY <3>1, PageFacts DEF Pgno
    <3>3. QED
      BY <2>1, <3>2 DEF Trim
  <2>3. OpenSucceeds' /\ Opening' /\ Checked'
    BY <1>0, <1>1, <1>2 DEF OpenSucceeds, Opening, Checked, Active, Running
  <2>4. Visible'
    BY <1>0, <1>2, <2>1 DEF Visible
  <2>5. /\ New.n \in Pgno /\ Whole(New.post, New.n) /\ New.n = pageN
    <3>1. New.n \in Pgno /\ Whole(New.post, New.n)
      BY <1>0, NewFacts
    <3>2. Whole(New.post, pageN)
      BY <1>1 DEF Inv, Position, Active
    <3>3. QED
      BY <3>1, <3>2 DEF Whole
  <2>6. ASSUME NEW w \in wdisk PROVE Leads(New, w, disk')
    <3>1. Leads(New, w, disk)
      BY <1>1 DEF DiskInv, AllLead
    <3>2. ASSUME NEW p \in 1..New.n, NEW v \in Val(New, w, disk', p)
          PROVE  v \in Val(New, w, disk, p) \/ v = New.post[p]
      <4>1. CASE p \in PagesIn(w.fr, 1, LogEnd(New, w))
        BY <3>2, <4>1 DEF Val
      <4>2. CASE p \notin PagesIn(w.fr, 1, LogEnd(New, w))
        <5>1. v = file[p] /\ p \in Pgno
          BY <2>1, <2>2, <2>5, <3>2, <4>2 DEF Val
        <5>2. QED
          BY <1>0, <4>2, <5>1 DEF Val, Visible
      <4>3. QED
        BY <4>1, <4>2
    <3>3. QED
      BY <2>5, <3>1, <3>2, LeadsFrom
  <2>7. AllLead'
    BY <1>0, <1>2, <2>1, <2>6 DEF AllLead
  <2>8. Durable'
    BY <1>0, <2>1, <2>2 DEF Durable
  <2>9. Linked'
    BY <1>0, <1>1, <1>2, <2>1 DEF DiskInv, Linked, Active, Running
  <2>10. QED
    BY <1>4, <2>3, <2>4, <2>7, <2>8, <2>9 DEF DiskInv
<1>7. QED
  BY <1>5, <1>6

\* The log is truncated: all of it is in the file, on the disk.
LEMMA DiskTruncateWAL ==
  ASSUME Clients = {}, Inv, Inv', DiskInv, TruncateWAL
  PROVE  DiskInv'
<1>0. /\ Typed /\ Running /\ pc = "idle" /\ ck = NoCkpt /\ index.bf = index.mx /\ ClearLog
      /\ index' = [index EXCEPT !.mx = 0, !.bf = 0, !.salt = 0]
      /\ UNCHANGED <<file, disk, ltx, pos, pageN, role, pc, ck>>
  BY DEF Inv, TruncateWAL, dbfile, locks
<1>1. Active /\ Active' /\ Unpublished /\ New' = New
  BY <1>0 DEF Inv, Ends, Active, Running, Logging, Published, New
<1>2. /\ wdisk' = wdisk \cup {wal'} /\ wal'.salt = 0 /\ Len(wal'.fr) = 0 /\ wal'.size = 0
      /\ End' = 0
  BY <1>0, ClearLogTyped DEF End
<1>3. index'.mx = 0 /\ index'.bf = 0
  BY <1>0 DEF Typed, TypeOK
<1>4. Same(file, New.post, 1..pageN) /\ New.n = pageN /\ New.n \in Pgno /\ Whole(New.post, New.n)
  <2>1. Same(file, pos.sum, 1..pageN) /\ Whole(pos.sum, pageN) /\ pos.sum = New.post
    BY <1>0, <1>1, AllCopied DEF Inv, Position, Active
  <2>2. New.n \in Pgno /\ Whole(New.post, New.n)
    BY NewWhole
  <2>3. QED
    BY <2>1, <2>2 DEF Whole
<1>5. \A p \in 1..pageN : disk[p] = {file[p]}
  BY <1>0, <1>1 DEF DiskInv, Durable
<1>6. LogEnd(New, wal') = 0 /\ Reaches(New, wal')
  BY <1>2 DEF LogEnd, Reaches, Continues
<1>7. Leads(New, wal', disk)
  <2>1. ASSUME NEW p \in 1..New.n, NEW v \in Val(New, wal', disk, p) PROVE v = New.post[p]
    <3>1. v \in disk[p]
      BY <1>6, ValNone
    <3>2. QED
      BY <1>4, <1>5, <3>1 DEF Same
  <2>2. QED
    BY <1>4, <2>1, LeadsPosted
<1>8. OpenSucceeds' /\ Opening' /\ Checked' /\ Alone'
  BY <1>0, <1>1, <1>2, <1>3 DEF OpenSucceeds, Opening, Checked, Alone, Active, Running
<1>9. Visible' /\ AllLead'
  BY <1>0, <1>1, <1>2, <1>6, <1>7 DEF DiskInv, Visible, AllLead
<1>10. Durable' /\ Linked'
  BY <1>0, <1>2, <1>5 DEF Durable, Linked
<1>11. QED
  BY <1>8, <1>9, <1>10 DEF DiskInv

-----------------------------------------------------------------------------
(* Recovery keeps it. *)

\* The node changes its role: an import may go on.
LEMMA DiskRole ==
  ASSUME Clients = {}, Inv, DiskInv, Demote \/ Promote
  PROVE  DiskInv'
<1>0. /\ UNCHANGED <<file, disk, wal, wdisk, ltx, index, pageN, sums, dbw, pc, ck>>
      /\ (role = "primary" /\ role' = "leaving") \/ (role = "replica" /\ role' = "primary" /\ pc = "idle")
  BY DEF Demote, Promote, dbfile, log, memory, locks
<1>1. New' = New /\ End' = End /\ Running /\ Running'
  BY <1>0 DEF New, End, Running
<1>2. Active' = Active
  BY <1>0, <1>1 DEF Active
<1>3. Alone'
  BY <1>0, <1>1, <1>2 DEF DiskInv, Alone
<1>4. CASE Active
  BY <1>0, <1>2, <1>3, <1>4, DiskQuiet
<1>5. CASE ~Active
  <2>1. wal.salt = 0 /\ pc \in {"import", "apply", "verify"}
    BY <1>0, <1>1, <1>5 DEF Active, Logging, Inv, Typed, TypeOK, Roles
  <2>2. OpenSucceeds' /\ Opening' /\ Checked'
    BY <1>0, <1>1, <2>1 DEF DiskInv, OpenSucceeds, Opening, Checked
  <2>3. Visible' /\ AllLead'
    BY <1>0, <1>1 DEF DiskInv, Visible, AllLead
  <2>4. Durable' /\ Linked'
    BY <1>0, <1>2, <1>5, <2>1 DEF Durable, Linked
  <2>5. QED
    BY <1>3, <2>2, <2>3, <2>4 DEF DiskInv
<1>6. QED
  BY <1>4, <1>5

\* No log, or an empty one, leads where the file does.
LEMMA LeadsNone ==
  ASSUME NEW l, NEW w, NEW x, NEW d, LogEnd(l, w) = 0, LogEnd(l, x) = 0, Leads(l, w, d)
  PROVE  Leads(l, x, d)
<1>1. \A p : Val(l, x, d, p) = Val(l, w, d, p)
  BY ValNone
<1>2. QED
  BY <1>1 DEF Leads

\* There is no log to copy.
LEMMA DiskCheckpointNothing ==
  ASSUME Clients = {}, Inv, Inv', DiskInv, CheckpointNothing
  PROVE  DiskInv'
<1>0. /\ Typed /\ CanCheckpoint /\ wal.salt = 0 /\ index' \in {index, UpdatedSHM(pageN)} /\ Recovered
      /\ UNCHANGED <<file, disk, wal, wdisk, ltx, pageN, dbw, ck>>
  BY DEF Inv, CheckpointNothing, dbfile, log, memory
<1>1. New' = New /\ End' = 0 /\ End = 0 /\ ck = NoCkpt
  BY <1>0, CheckpointWhere DEF New, End
<1>2. CASE role = "leaving"
  <2>1. /\ pc = "idle" /\ Active /\ Unpublished /\ role' = "replica" /\ pc' = "idle"
    BY <1>0, <1>2, CheckpointWhere DEF Recovered
  <2>2. Active'
    BY <2>1 DEF Active, Running, Logging
  <2>3. index.mx = 0 /\ index.bf = 0
    <3>1. index.mx = 0
      BY <1>1, <2>1 DEF Unpublished
    <3>2. index.bf \in Nat /\ index.bf <= index.mx
      BY <1>0 DEF Typed, TypeOK
    <3>3. QED
      BY <3>1, <3>2
  <2>4. index'.bf = 0
    BY <1>0, <2>3 DEF UpdatedSHM
  <2>5. Alone'
    BY <1>0, <1>1, <2>1, <2>4 DEF Alone
  <2>6. QED
    BY <1>0, <2>1, <2>2, <2>3, <2>5, DiskQuiet
<1>3. CASE role # "leaving"
  <2>1. role = "opening" /\ pc = "recover" /\ role' = "opening" /\ pc' = "init" /\ ~Active'
    BY <1>0, <1>3, CheckpointWhere DEF Recovered, Active, Running
  <2>2. Leads(New, NoLog, disk)
    <3>1. LogEnd(New, wal) = 0 /\ LogEnd(New, NoLog) = 0
      BY <1>0 DEF LogEnd, Continues, NoLog
    <3>2. Leads(New, wal, disk)
      BY <1>0, <2>1 DEF DiskInv, AllLead, Typed, TypeOK
    <3>3. QED
      BY <3>1, <3>2, LeadsNone
  <2>3. OpenSucceeds' /\ Opening' /\ Checked' /\ Alone'
    BY <1>0, <1>1, <2>1, <2>2 DEF OpenSucceeds, Opening, Checked, Alone
  <2>4. Visible' /\ AllLead'
    BY <1>0, <1>1, <2>1 DEF DiskInv, Visible, AllLead
  <2>5. Durable' /\ Linked'
    BY <1>0, <2>1 DEF Durable, Linked
  <2>6. QED
    BY <2>3, <2>4, <2>5 DEF DiskInv
<1>4. QED
  BY <1>2, <1>3

\* CheckpointNoLock copies as much of the log as the newest LTX file vouches for.
LEMMA RecoverEnd ==
  ASSUME Inv, DiskInv, wal.salt # 0, CanCheckpoint \/ pc = "resize"
  PROVE  LastCommit(wal.fr) = LogEnd(New, wal) /\ LogEnd(New, wal) \in 0..Len(wal.fr)
<1>0. Typed /\ Roles /\ Visible /\ wal \in wdisk
  BY DEF Inv, DiskInv, Typed, TypeOK
<1>1. LogEnd(New, wal) \in Nat /\ LogEnd(New, wal) <= Len(wal.fr) /\ Len(wal.fr) \in Nat
  BY <1>0, LogEndFacts
<1>2. CASE role = "leaving"
  <2>1. Unpublished /\ pc \in {"idle", "resize"}
    BY <1>2, CheckpointWhere DEF Inv, Ends
  <2>2. pageN \in Pgno
    BY <1>2, <2>1 DEF Inv, Position, Running, Whole
  <2>3. LastCommit(wal.fr) = End /\ LogEnd(New, wal) = End
    BY <1>0, <1>2, <2>1, <2>2, LastCommitEnd DEF DiskInv, Linked
  <2>4. QED
    BY <1>1, <2>3
<1>3. CASE role # "leaving"
  <2>1. role = "opening"
    <3>1. pc \in {"recover", "resize"}
      BY <1>3 DEF CanCheckpoint
    <3>2. QED
      BY <1>0, <1>3, <3>1 DEF Roles, Typed, TypeOK
  <2>2. Continues(New, wal) /\ Len(wal.fr) = EndOf(New)
    BY <2>1 DEF DiskInv, Linked
  <2>3. EndOf(New) \in 1..Len(wal.fr) /\ wal.fr[EndOf(New)].commit = New.n
    BY <1>0, <2>2 DEF Visible, Reaches
  <2>4. New.n # 0
    BY NewWhole, PageFacts DEF Pgno
  <2>5. PICK e \in 0..Len(wal.fr) : e = Len(wal.fr) /\ wal.fr[e].commit # 0
    BY <1>1, <2>2, <2>3, <2>4
  <2>6. \A i \in e + 1..Len(wal.fr) : wal.fr[i].commit = 0
    BY <1>1, <2>5
  <2>7. LastCommit(wal.fr) = e
    BY <1>1, <2>5, <2>6, LastCommitIs
  <2>8. LogEnd(New, wal) = EndOf(New)
    BY <2>2 DEF LogEnd
  <2>9. QED
    BY <1>1, <2>2, <2>5, <2>7, <2>8
<1>4. QED
  BY <1>2, <1>3

\* CheckpointNoLock copies the log.
LEMMA DiskCheckpointPages ==
  ASSUME Clients = {}, Inv, Inv', DiskInv, CheckpointPages
  PROVE  DiskInv'
<1> DEFINE e == LogEnd(New, wal)
           S == PagesIn(wal.fr, 1, e)
           g == Version(file, wal.fr, e)
<1>0. /\ Typed /\ Chained /\ Visible /\ CanCheckpoint /\ wal.salt # 0 /\ pc' = "resize"
      /\ UNCHANGED <<wal, wdisk, ltx, index, pageN, dbw, role, ck>>
  BY DEF Inv, DiskInv, CheckpointPages, log
<1>1. Write(Overlay(file, S, g))
  BY <1>0, RecoverEnd DEF CheckpointPages, CheckpointEnd, WritePages
<1>2. /\ New' = New /\ End' = End /\ ck = NoCkpt /\ pc # "import"
      /\ \A w \in wdisk : Agree(New, wal, w)
      /\ \/ role = "leaving" /\ pc = "idle" /\ Active /\ e = End
         \/ role = "opening" /\ pc = "recover"
  BY <1>0, CheckpointWhere DEF New, End, DiskInv, Linked
<1> HIDE DEF e, g
<1>3. \A p \in Pgno : /\ file'[p] = Overlay(file, S, g)[p] /\ disk'[p] = disk[p] \cup {file'[p]}
                      /\ (p \in S => file'[p] = g[p]) /\ (p \notin S => file'[p] = file[p])
  BY <1>1 DEF Write, Overlay
<1>4. ~Active'
  BY <1>0 DEF Active, Logging
<1>5. \A p \in Pgno : p \in S => g[p] = wal.fr[At(wal.fr, e, p)].v
  BY VersionIs DEF g
<1>6. OpenSucceeds' /\ Checked' /\ Alone'
  BY <1>0, <1>2, <1>4 DEF OpenSucceeds, Checked, Alone
<1>7. Visible'
  BY <1>0, <1>2, <1>3 DEF Visible
<1>8. AllLead'
  <2>1. ASSUME NEW w \in wdisk PROVE Leads(New, w, disk')
    <3>1. Leads(New, w, disk) /\ Agree(New, wal, w)
      BY <1>2 DEF DiskInv, AllLead
    <3>2. S \subseteq PagesIn(wal.fr, 1, LogEnd(New, wal))
      BY DEF e
    <3> HIDE DEF S
    <3>3. QED
      BY <1>0, <1>1, <3>1, <3>2, LeadsWrite
  <2>2. QED
    BY <1>0, <1>2, <2>1 DEF AllLead
<1>9. Opening'
  <2>1. ASSUME NEW p \in Pgno PROVE file'[p] \in Val(New, wal, disk', p)
    <3>1. CASE p \in S
      BY <1>3, <1>5, <3>1 DEF Val, e
    <3>2. CASE p \notin S
      BY <1>3, <3>2 DEF Val, e
    <3>3. QED
      BY <3>1, <3>2
  <2>2. QED
    BY <1>0, <1>2, <2>1 DEF Opening
<1>10. Durable'
  <2>1. ASSUME role = "leaving", NEW p \in 1..pageN \ PagesIn(wal.fr, 1, End) PROVE disk'[p] = {file'[p]}
    <3>1. p \in Pgno
      <4>1. pageN \in 0..MaxPage
        BY <1>0 DEF Typed, TypeOK
      <4>2. QED
        BY <4>1, PageFacts DEF Pgno
    <3>2. disk[p] = {file[p]} /\ p \notin S
      BY <1>2, <2>1 DEF DiskInv, Durable
    <3>3. QED
      BY <1>3, <3>1, <3>2
  <2>2. QED
    BY <1>0, <1>2, <1>4, <2>1 DEF Durable
<1>11. Linked'
  BY <1>0, <1>2, <1>4 DEF DiskInv, Linked
<1>12. QED
  BY <1>6, <1>7, <1>8, <1>9, <1>10, <1>11 DEF DiskInv

\* CheckpointNoLock resizes and syncs the file: it is what the log made of it.
LEMMA DiskCheckpointResize ==
  ASSUME Clients = {}, Inv, Inv', DiskInv, CheckpointResize
  PROVE  DiskInv'
<1> DEFINE e == LogEnd(New, wal)
           n == wal.fr[e].commit
<1>0. /\ Typed /\ Visible /\ pc = "resize" /\ pc' = "reset" /\ wal.salt # 0 /\ ck = NoCkpt
      /\ UNCHANGED <<wal, ltx, index, dbw, role, ck>> /\ wal \in wdisk
  BY DEF Inv, DiskInv, CheckpointResize, Roles, Logging, Typed, TypeOK
<1>1. /\ e = 0 => UNCHANGED <<file, disk, pageN, wdisk>>
      /\ e # 0 => Sync(Trim(file, n)) /\ wdisk' = Settled
  BY <1>0, RecoverEnd DEF CheckpointResize, dbfile
<1>2. /\ New' = New /\ End' = End /\ ~Active' /\ Leads(New, wal, disk) /\ e \in Nat
      /\ \A w \in wdisk : Agree(New, wal, w)
  BY <1>0, LogEndFacts DEF New, End, Active, Logging, DiskInv, AllLead, Linked
<1>3. New.n \in Pgno /\ Whole(New.post, New.n) /\ \A p \in 1..New.n : p \in Pgno /\ p <= New.n
  BY NewWhole, PageFacts DEF Pgno
<1>4. e # 0 => n = New.n
  <2>1. e # 0 => Continues(New, wal) /\ e = EndOf(New)
    BY DEF LogEnd
  <2>2. QED
    BY <1>0, <2>1 DEF Visible, Reaches
<1> HIDE DEF e, n
<1>5. wdisk' \subseteq wdisk
  BY <1>0, <1>1, SettledTyped
<1>6. OpenSucceeds' /\ Checked' /\ Alone'
  BY <1>0, <1>2 DEF DiskInv, OpenSucceeds, Checked, Alone
<1>7. Linked'
  BY <1>0, <1>2 DEF DiskInv, Linked
<1>8. LogEnd(New, NoLog) = 0
  BY DEF LogEnd, Continues, NoLog
<1>9. CASE e = 0
  <2>1. Leads(New, NoLog, disk)
    BY <1>2, <1>8, <1>9, LeadsNone DEF e
  <2>2. Opening'
    BY <1>0, <1>1, <1>2, <1>9, <2>1 DEF DiskInv, Opening
  <2>3. Visible' /\ AllLead'
    BY <1>0, <1>1, <1>2, <1>9 DEF DiskInv, Visible, AllLead
  <2>4. Durable'
    <3>1. role = "leaving" => \A p \in 1..pageN : disk[p] = {file[p]}
      <4>1. PagesIn(wal.fr, 1, 0) = {}
        BY PagesInNone
      <4>2. role = "leaving" => End = 0
        BY <1>0, <1>9 DEF DiskInv, Linked, e
      <4>3. role = "leaving" => \A p \in 1..pageN \ PagesIn(wal.fr, 1, End) : disk[p] = {file[p]}
        BY <1>0 DEF DiskInv, Durable
      <4>4. QED
        BY <4>1, <4>2, <4>3
    <3>2. QED
      BY <1>0, <1>1, <1>2, <1>9, <3>1 DEF Durable
  <2>5. QED
    BY <1>6, <1>7, <2>2, <2>3, <2>4 DEF DiskInv
<1>10. CASE e # 0
  <2>1. file' = Trim(file, New.n) /\ \A p \in Pgno : disk'[p] = {file'[p]}
    BY <1>1, <1>4, <1>10 DEF Sync
  <2>2. \A p \in 1..New.n : disk'[p] = {file[p]} /\ file[p] \in Val(New, wal, disk, p)
    BY <1>0, <1>3, <2>1 DEF Trim, DiskInv, Opening
  <2>3. Visible'
    BY <1>0, <1>2, <1>5, <2>1 DEF Visible
  <2>4. ASSUME NEW w \in wdisk PROVE Leads(New, w, disk')
    <3>1. \A p : Val(New, w, disk, p) = Val(New, wal, disk, p)
      BY <1>2, ValAgree DEF e
    <3>2. ASSUME NEW p \in 1..New.n, NEW v \in Val(New, w, disk', p) PROVE v \in Val(New, wal, disk, p)
      <4>1. CASE p \in PagesIn(w.fr, 1, LogEnd(New, w))
        <5>1. v \in Val(New, w, disk, p)
          BY <3>2, <4>1 DEF Val
        <5>2. QED
          BY <3>1, <5>1
      <4>2. CASE p \notin PagesIn(w.fr, 1, LogEnd(New, w))
        BY <2>2, <3>2, <4>2 DEF Val
      <4>3. QED
        BY <4>1, <4>2
    <3>3. QED
      BY <1>2, <1>3, <3>2, LeadsFrom
  <2>5. AllLead'
    BY <1>2, <1>5, <2>4 DEF AllLead
  <2>6. Leads(New, NoLog, disk')
    <3>1. \A p \in 1..New.n : \A v \in Val(New, NoLog, disk', p) : v \in Val(New, wal, disk, p)
      BY <1>8, <2>2, ValNone
    <3>2. QED
      BY <1>2, <1>3, <3>1, LeadsFrom
  <2>7. Opening'
    <3>1. role # "down"
      BY <1>0 DEF Inv, Roles
    <3>2. QED
      BY <1>0, <1>2, <2>6, <3>1 DEF Opening
  <2>8. Durable'
    <3>1. \A p \in 1..pageN' : p \in Pgno
      <4>1. pageN' \in 0..MaxPage
        BY DEF Inv, Typed, TypeOK
      <4>2. QED
        BY <4>1, PageFacts DEF Pgno
    <3>2. QED
      BY <1>0, <1>2, <2>1, <3>1 DEF Durable
  <2>9. QED
    BY <1>6, <1>7, <2>3, <2>5, <2>7, <2>8 DEF DiskInv
<1>11. QED
  BY <1>9, <1>10

\* CheckpointNoLock truncates the log.
LEMMA DiskCheckpointReset ==
  ASSUME Clients = {}, Inv, Inv', DiskInv, CheckpointReset
  PROVE  DiskInv'
<1>0. /\ Typed /\ pc = "reset" /\ ClearLog /\ index' = UpdatedSHM(pageN) /\ Recovered
      /\ UNCHANGED <<file, disk, ltx, pageN, ck>>
  BY DEF Inv, CheckpointReset, dbfile
<1>1. role \in {"leaving", "opening"} /\ ck = NoCkpt
  BY <1>0 DEF Inv, Roles, Typed, TypeOK, Logging
<1>2. /\ wdisk' = wdisk \cup {wal'} /\ wal'.salt = 0 /\ Len(wal'.fr) = 0 /\ wal'.size = 0
      /\ End' = 0 /\ New' = New /\ index'.bf = 0
  BY <1>0, ClearLogTyped DEF End, New, UpdatedSHM
<1>3. /\ role' \in {"replica", "opening"} /\ pc' \in {"idle", "init"}
      /\ Active' => role = "leaving" /\ pc' = "idle"
  BY <1>0, <1>1 DEF Recovered, Active, Running, Logging
<1>4. LogEnd(New, wal') = 0 /\ Reaches(New, wal') /\ LogEnd(New, NoLog) = 0
  BY <1>2 DEF LogEnd, Reaches, Continues, NoLog
<1>5. Leads(New, NoLog, disk)
  BY <1>0 DEF DiskInv, Opening
<1>6. Leads(New, wal', disk)
  BY <1>4, <1>5, LeadsNone
<1>7. OpenSucceeds' /\ Opening' /\ Checked' /\ Alone'
  BY <1>0, <1>1, <1>2, <1>3, <1>5 DEF OpenSucceeds, Opening, Checked, Alone
<1>8. Visible' /\ AllLead'
  BY <1>0, <1>2, <1>4, <1>6 DEF DiskInv, Visible, AllLead
<1>9. Durable' /\ Linked'
  BY <1>0, <1>2, <1>3 DEF DiskInv, Durable, Linked
<1>10. QED
  BY <1>7, <1>8, <1>9 DEF DiskInv

\* The power fails, but not in an import.
LEMMA DiskPowerLoss ==
  ASSUME Clients = {}, Inv, Inv', DiskInv, PowerLoss
  PROVE  DiskInv'
<1>0. Typed /\ pc # "import" /\ role' = "down" /\ pc' = "idle" /\ ck' = NoCkpt /\ UNCHANGED ltx
  BY DEF Inv, PowerLoss
<1>1. PICK f \in [Pgno -> UNION {disk[p] : p \in Pgno}] : (\A p \in Pgno : f[p] \in disk[p]) /\ Sync(f)
  BY DEF PowerLoss
<1>2. PICK w \in wdisk : SyncLog(w)
  BY DEF PowerLoss
<1>3. w \in Log /\ (w.salt = 0 => w.fr = <<>>)
  BY <1>0 DEF Typed, TypeOK
<1>4. wal'.salt = w.salt /\ wal'.fr = w.fr /\ wal'.size = w.size /\ wdisk' = {wal'}
  BY <1>2, <1>3, SyncLogTyped
<1>5. New' = New /\ ~Active' /\ \A p \in Pgno : file'[p] = f[p] /\ disk'[p] = {f[p]}
  BY <1>0, <1>1 DEF New, Active, Running, Sync
<1>6. Reaches(New, w) /\ Leads(New, w, disk)
  BY <1>0 DEF DiskInv, Visible, AllLead
<1>7. Reaches(New, wal') /\ LogEnd(New, wal') = LogEnd(New, w)
  BY <1>4, <1>6 DEF Reaches, Continues, LogEnd
<1>8. New.n \in Pgno /\ Whole(New.post, New.n) /\ \A p \in 1..New.n : p \in Pgno
  <2>1. New.n \in Pgno /\ Whole(New.post, New.n)
    BY NewWhole
  <2>2. \A p \in 1..New.n : p \in Pgno
    BY <2>1, PagesBelow
  <2>3. QED
    BY <2>1, <2>2
<1>9. Leads(New, wal', disk')
  <2>1. \A p \in 1..New.n : \A v \in Val(New, wal', disk', p) : v \in Val(New, w, disk, p)
    BY <1>1, <1>4, <1>5, <1>7, <1>8 DEF Val
  <2>2. QED
    BY <1>6, <1>8, <2>1, LeadsFrom
<1>10. OpenSucceeds' /\ Opening' /\ Checked' /\ Alone' /\ Durable' /\ Linked'
  BY <1>0, <1>4, <1>5 DEF OpenSucceeds, Opening, Checked, Alone, Durable, Linked
<1>11. Visible' /\ AllLead'
  BY <1>4, <1>5, <1>7, <1>9 DEF Visible, AllLead
<1>12. QED
  BY <1>10, <1>11 DEF DiskInv

\* DB.Open: a log with the last transaction is cut behind it, another one is removed.
LEMMA DiskOpen ==
  ASSUME Clients = {}, Inv, Inv', DiskInv, Open
  PROVE  DiskInv'
<1>0. /\ Typed /\ Visible /\ role = "down" /\ SyncWALToLTX /\ ck = NoCkpt /\ wdisk = {wal}
      /\ UNCHANGED <<file, disk, ltx, ck>> /\ Last(ltx) = New /\ pc = "idle" /\ pc # "import"
  BY NewFacts DEF Inv, Open, Roles, DiskInv, Opening, dbfile
<1>1. /\ wal \in Log /\ wal.fr \in Seq(Frame) /\ Len(wal.fr) \in Nat /\ wal.size \in Nat
      /\ wal.salt \in Nat /\ wal.gen \in Nat
      /\ New.off \in Nat /\ New.size \in Nat /\ EndOf(New) \in Nat /\ New.off <= EndOf(New)
  BY <1>0, LogFacts, NewFacts, LogEndFacts
<1>2. Reaches(New, wal) /\ Leads(New, wal, disk)
  BY <1>0 DEF DiskInv, Visible, AllLead
<1>3. ~ShortWAL
  <2>1. ASSUME wal.salt # 0, wal.salt = New.salt PROVE ~(wal.size < New.off)
    <3>1. EndOf(New) \in 1..Len(wal.fr) /\ Len(wal.fr) <= wal.size
      BY <1>2, <2>1 DEF Reaches, Continues
    <3>2. QED
      BY <1>1, <3>1
  <2>2. QED
    BY <1>0, <2>1 DEF ShortWAL
<1>4. role' = "opening" /\ pc' = "recover"
  BY <1>3 DEF Open
<1>5. New' = New /\ ~Active' /\ wal \in wdisk
  BY <1>0, <1>4 DEF New, Active, Logging
<1>6. OpenSucceeds' /\ Opening' /\ Checked' /\ Alone' /\ Durable'
  BY <1>0, <1>4, <1>5 DEF OpenSucceeds, Opening, Checked, Alone, Durable
<1>7. SUFFICES /\ wdisk' \subseteq {wal, wal'} /\ Reaches(New, wal') /\ Leads(New, wal', disk)
               /\ Linked'
  <2>1. SUFFICES ASSUME wdisk' \subseteq {wal, wal'}, Reaches(New, wal'), Leads(New, wal', disk),
                        Linked'
                 PROVE  DiskInv'
    OBVIOUS
  <2>2. Visible' /\ AllLead'
    BY <1>0, <1>2, <1>5, <2>1 DEF Visible, AllLead
  <2>3. QED
    BY <1>6, <2>1, <2>2 DEF DiskInv
<1>8. CASE wal.salt = 0
  <2>1. wal' = wal /\ wdisk' = wdisk
    BY <1>0, <1>8 DEF SyncWALToLTX, log
  <2>2. QED
    BY <1>0, <1>2, <1>8, <2>1 DEF Linked
<1>9. CASE wal.salt # 0 /\ wal.salt # New.salt
  <2>1. ClearLog
    BY <1>0, <1>9 DEF SyncWALToLTX
  <2>2. wdisk' = wdisk \cup {wal'} /\ wal'.salt = 0 /\ Len(wal'.fr) = 0 /\ wal'.size = 0
    BY <1>0, <2>1, ClearLogTyped
  <2>3. LogEnd(New, wal) = 0 /\ LogEnd(New, wal') = 0 /\ Reaches(New, wal')
    BY <1>9, <2>2 DEF LogEnd, Continues, Reaches
  <2>4. Leads(New, wal', disk)
    BY <1>2, <2>3, LeadsNone
  <2>5. QED
    BY <1>0, <2>2, <2>3, <2>4 DEF Linked
<1>10. CASE wal.salt # 0 /\ wal.salt = New.salt
  <2>0. /\ Continues(New, wal) /\ LogEnd(New, wal) = EndOf(New)
        /\ EndOf(New) \in 1..Len(wal.fr) /\ wal.fr[EndOf(New)].commit = New.n
        /\ Len(wal.fr) <= wal.size
    BY <1>2, <1>10 DEF Continues, LogEnd, Reaches
  <2>1. CASE ~(wal.size > EndOf(New))
    <3>1. wal' = wal /\ wdisk' = wdisk
      BY <1>0, <1>10, <2>1 DEF SyncWALToLTX, EndOf, log
    <3>2. Len(wal.fr) = EndOf(New)
      BY <1>1, <2>0, <2>1
    <3>3. Agree(New, wal, wal)
      BY DEF Agree
    <3>4. QED
      BY <1>0, <1>2, <1>4, <1>5, <2>0, <3>1, <3>2, <3>3 DEF Linked
  <2>2. CASE wal.size > EndOf(New)
    <3> DEFINE h == SubSeq(wal.fr, 1, EndOf(New))
    <3>1. WriteLog([wal EXCEPT !.gen = @ + 1, !.size = EndOf(New), !.fr = h])
      <4>1. ~(Len(wal.fr) < EndOf(New))
        BY <1>1, <2>0
      <4>2. QED
        BY <1>0, <1>10, <2>2, <4>1 DEF SyncWALToLTX, EndOf
    <3>2. Len(h) = EndOf(New) /\ \A i \in 1..EndOf(New) : h[i] = wal.fr[i]
      BY <1>1, <2>0, SubSeqProperties
    <3> HIDE DEF h
    <3>3. wal'.salt = wal.salt /\ wal'.fr = h /\ wal'.size = EndOf(New) /\ wdisk' = wdisk \cup {wal'}
      BY <1>1, <3>1 DEF WriteLog, Log
    <3>4. Continues(New, wal') /\ LogEnd(New, wal') = EndOf(New)
      BY <2>0, <3>3 DEF Continues, LogEnd
    <3>5. Agree(New, wal', wal) /\ Agree(New, wal', wal') /\ Agree(New, wal, wal')
      BY <2>0, <3>2, <3>3, <3>4 DEF Agree
    <3>6. Reaches(New, wal')
      <4>1. EndOf(New) \in 1..EndOf(New) /\ EndOf(New) <= EndOf(New)
        BY <1>1, <2>0
      <4>2. QED
        BY <2>0, <3>2, <3>3, <4>1 DEF Reaches
    <3>7. Leads(New, wal', disk)
      <4>1. \A p : Val(New, wal', disk, p) = Val(New, wal, disk, p)
        BY <1>1, <2>0, <3>5, ValAgree
      <4>2. QED
        BY <1>2, <4>1 DEF Leads
    <3>8. QED
      BY <1>0, <1>4, <1>5, <3>2, <3>3, <3>4, <3>5, <3>6, <3>7 DEF Linked
  <2>3. QED
    BY <2>1, <2>2
<1>11. QED
  BY <1>8, <1>9, <1>10

\* DB.Open reads the checksums of the file.
LEMMA DiskInitDatabaseFile ==
  ASSUME Clients = {}, Inv, Inv', DiskInv, InitDatabaseFile
  PROVE  DiskInv'
<1>0. /\ Typed /\ pc = "init" /\ pc' = "apply" /\ sums' = Content(file)
      /\ UNCHANGED <<file, disk, wal, wdisk, ltx, index, dbw, role, ck>>
      /\ wal.salt = 0 /\ ck = NoCkpt /\ role = "opening"
  BY DEF Inv, InitDatabaseFile, Roles, Logging, dbfile, log, Typed, TypeOK
<1>1. New' = New /\ ~Active'
  BY <1>0 DEF New, Active, Logging
<1>2. New.n \in Pgno /\ \A p \in 1..New.n : p \in Pgno
  <2>1. New.n \in Pgno
    BY NewWhole
  <2>2. QED
    BY <2>1, PageFacts DEF Pgno
<1>3. ASSUME NEW p \in 1..New.n \ New.pages PROVE sums'[p] = New.post[p]
  <2>1. LogEnd(New, NoLog) = 0
    BY DEF LogEnd, Continues, NoLog
  <2>2. \A q : Val(New, NoLog, disk, q) = disk[q]
    BY <2>1, ValNone
  <2>3. file[p] \in disk[p] /\ file[1] \in disk[1] /\ p \in Pgno
    BY <1>2, PageFacts DEF DiskInv, Visible
  <2>4. file[p] = New.post[p] /\ p <= file[1].n
    BY <1>0, <2>2, <2>3 DEF DiskInv, Opening, Leads
  <2>5. QED
    BY <1>0, <2>3, <2>4 DEF Content, Trim, Size
<1>4. OpenSucceeds' /\ Opening' /\ Alone' /\ Durable' /\ Linked'
  BY <1>0, <1>1 DEF OpenSucceeds, Opening, Alone, Durable, Linked
<1>5. Checked'
  BY <1>0, <1>1, <1>3 DEF Checked, Same
<1>6. Visible' /\ AllLead'
  BY <1>0, <1>1 DEF DiskInv, Visible, AllLead
<1>7. QED
  BY <1>4, <1>5, <1>6 DEF DiskInv

-----------------------------------------------------------------------------
(* Received and imported files keep it. *)

\* A file of another log, or of none, is added: the pages it lacks are right.
LEMMA DiskForeign ==
  ASSUME Inv, Inv', DiskInv, UNCHANGED <<file, disk, wal, sums, role, ck>>, wdisk' \subseteq wdisk,
         wal.salt = 0, pc \in {"idle", "import"}, pc' = "apply", New'.salt = 0, role # "down",
         \A p \in 1..New'.n \ New'.pages : /\ disk[p] = {New'.post[p]} /\ sums[p] = New'.post[p]
                                           /\ \A u \in disk[1] : p <= u.n
  PROVE  DiskInv'
<1>1. ~Active' /\ ck = NoCkpt
  <2>1. ~Active'
    BY DEF Active, Logging
  <2>2. ck' = NoCkpt
    BY DEF Inv, Roles, Logging
  <2>3. QED
    BY <2>1, <2>2
<1>2. \A w : LogEnd(New', w) = 0 /\ ~Continues(New', w)
  BY DEF LogEnd, Continues
<1>3. \A w, p : Val(New', w, disk, p) = disk[p]
  BY <1>2, ValNone
<1>4. \A w : Leads(New', w, disk)
  BY <1>3 DEF Leads
<1>5. Visible' /\ AllLead'
  BY <1>2, <1>4 DEF DiskInv, Visible, Reaches, AllLead
<1>6. OpenSucceeds' /\ Opening' /\ Alone' /\ Durable' /\ Linked'
  BY <1>1 DEF DiskInv, OpenSucceeds, Opening, Alone, Durable, Linked
<1>7. Checked'
  BY DEF Checked, Same
<1>8. QED
  BY <1>5, <1>6, <1>7 DEF DiskInv

\* A replica receives a file.
LEMMA DiskReceiveLTX ==
  ASSUME Clients = {}, Inv, Inv', DiskInv, NEW n \in Pgno, NEW w \in SUBSET Pgno, ReceiveLTX(n, w)
  PROVE  DiskInv'
<1> DEFINE v == [q \in Pgno |-> [tx |-> NextTx, n |-> n]]
           g == Trim(Overlay(pos.sum, w, v), n)
           l == [n |-> n, pages |-> w, data |-> g, post |-> g, salt |-> 0, off |-> 0, size |-> 0]
<1>0. /\ Typed /\ role = "replica" /\ pc = "idle" /\ pc' = "apply" /\ ltx' = Append(ltx, l)
      /\ wdisk' = Settled /\ UNCHANGED <<file, disk, wal, index, pos, pageN, sums, role, ck>>
  BY DEF Inv, ReceiveLTX, dbfile, memory
<1>1. l.salt = 0
  OBVIOUS
<1> HIDE DEF l
<1>2. New'.salt = 0 /\ wdisk' \subseteq wdisk
  BY <1>0, <1>1, NewAppended, SettledTyped
<1>3. /\ wal.salt = 0 /\ Whole(pos.sum, pageN)
      /\ Same(file, pos.sum, 1..pageN) /\ Same(sums, pos.sum, 1..pageN)
  BY <1>0, ReplicaAtRest
<1>4. Same(New'.post, pos.sum, 1..New'.n \ New'.pages) /\ 1..New'.n \ New'.pages \subseteq 1..pageN
  BY <1>0 DEF Inv, Position, Running, Based
<1>5. \A p \in 1..pageN : disk[p] = {file[p]}
  <2>1. index.mx = 0 /\ index.bf \in Nat /\ index.bf <= index.mx
    BY <1>0 DEF Inv, Roles, Typed, TypeOK
  <2>2. Active /\ index.bf = index.mx
    BY <1>0, <2>1 DEF Active, Running, Logging
  <2>3. QED
    BY <2>2 DEF DiskInv, Durable
<1>6. 1 \in 1..pageN /\ pos.sum[1].n = pageN /\ pageN \in Nat
  BY <1>3, PageFacts DEF Whole, Pgno
<1>7. ASSUME NEW p \in 1..New'.n \ New'.pages
      PROVE  /\ disk[p] = {New'.post[p]} /\ sums[p] = New'.post[p] /\ \A u \in disk[1] : p <= u.n
  <2>1. p \in 1..pageN /\ New'.post[p] = pos.sum[p] /\ file[p] = pos.sum[p] /\ sums[p] = pos.sum[p]
    BY <1>3, <1>4 DEF Same
  <2>2. disk[1] = {pos.sum[1]}
    BY <1>3, <1>5, <1>6 DEF Same
  <2>3. p <= pageN
    BY <1>6, <2>1
  <2>4. QED
    BY <1>5, <1>6, <2>1, <2>2, <2>3
<1>8. QED
  BY <1>0, <1>2, <1>3, <1>7, DiskForeign

\* Import truncates the log.
LEMMA DiskImportStart ==
  ASSUME Clients = {}, Inv, DiskInv, ImportStart
  PROVE  DiskInv'
<1>0. /\ Typed /\ pc = "idle" /\ pc' = "import" /\ ck = NoCkpt /\ role = "primary"
      /\ UNCHANGED <<file, disk, ltx, role, ck>>
      /\ wal.salt = 0 => UNCHANGED <<wal, wdisk>>
      /\ wal.salt # 0 => ClearLog
  BY DEF Inv, ImportStart, dbfile, log
<1>1. New' = New /\ ~Active'
  BY <1>0 DEF New, Active, Logging
<1>2. wal'.salt = 0 /\ \A w \in wdisk' : Reaches(New, w)
  <2>1. CASE wal.salt = 0
    BY <1>0, <2>1 DEF DiskInv, Visible
  <2>2. CASE wal.salt # 0
    <3>1. wdisk' = wdisk \cup {wal'} /\ wal'.salt = 0 /\ Len(wal'.fr) = 0 /\ wal'.size = 0
      BY <1>0, <2>2, ClearLogTyped
    <3>2. Reaches(New, wal')
      BY <3>1 DEF Reaches, Continues
    <3>3. QED
      BY <3>1, <3>2 DEF DiskInv, Visible
  <2>3. QED
    BY <2>1, <2>2
<1>3. OpenSucceeds' /\ Opening' /\ Checked' /\ Alone' /\ AllLead' /\ Durable' /\ Linked'
  BY <1>0, <1>1, <1>2 DEF OpenSucceeds, Opening, Checked, Alone, AllLead, Durable, Linked
<1>4. Visible'
  BY <1>0, <1>1, <1>2 DEF DiskInv, Visible
<1>5. QED
  BY <1>3, <1>4 DEF DiskInv

\* Import makes an LTX file of the upload: it has all pages.
LEMMA DiskImportToLTX ==
  ASSUME Clients = {}, Inv, Inv', DiskInv, NEW n \in Pgno, ImportToLTX(n, TRUE)
  PROVE  DiskInv'
<1> DEFINE g == [p \in Pgno |-> IF p <= n THEN [tx |-> NextTx, n |-> n] ELSE Absent]
           l == [n |-> n, pages |-> 1..n, data |-> g, post |-> g, salt |-> 0, off |-> 0, size |-> 0]
<1>0. /\ Typed /\ pc = "import" /\ pc' = "apply" /\ ltx' = Append(ltx, l)
      /\ wdisk' = Settled /\ UNCHANGED <<file, disk, wal, sums, role, ck>>
  BY DEF Inv, ImportToLTX, dbfile, memory
<1>1. l.salt = 0 /\ l.n = n /\ l.pages = 1..n
  OBVIOUS
<1> HIDE DEF l
<1>2. New'.salt = 0 /\ 1..New'.n \ New'.pages = {} /\ wdisk' \subseteq wdisk
  BY <1>0, <1>1, NewAppended, SettledTyped
<1>3. wal.salt = 0 /\ role # "down"
  BY <1>0, WriterRuns DEF Inv, Roles
<1>4. QED
  BY <1>0, <1>2, <1>3, DiskForeign

\* ApplyLTXNoLock writes the pages: what else may be on the disk is covered by the file.
LEMMA DiskApplyPages ==
  ASSUME Clients = {}, Inv, DiskInv, ApplyPages
  PROVE  DiskInv'
<1>0. /\ Typed /\ Chained /\ Visible /\ pc = "apply" /\ pc' = "verify"
      /\ WritePages(New.pages, New.data) /\ UNCHANGED <<wal, wdisk, ltx, role, ck>>
  BY NewFacts DEF Inv, DiskInv, ApplyPages, log
<1>1. /\ New.n \in Pgno /\ New.pages \subseteq 1..New.n /\ Whole(New.post, New.n)
      /\ Same(New.post, New.data, New.pages) /\ \A p \in 1..New.n : p \in Pgno
  BY <1>0, NewFacts, PageFacts DEF Pgno
<1>2. /\ New' = New /\ ~Active' /\ ck = NoCkpt /\ wal.salt = 0 /\ role # "down"
  BY <1>0 DEF Inv, Roles, Logging, Active, New
<1>3. \A p \in Pgno : /\ file'[p] = Overlay(file, New.pages, New.data)[p]
                      /\ sums'[p] = Overlay(sums, New.pages, New.data)[p]
                      /\ disk'[p] = disk[p] \cup {file'[p]}
  BY <1>0 DEF WritePages, Write
<1>4. \A p \in 1..New.n : IF p \in New.pages THEN file'[p] = New.post[p] /\ sums'[p] = New.post[p]
                          ELSE file'[p] = file[p] /\ sums'[p] = sums[p]
  BY <1>1, <1>3 DEF Overlay, Same
<1>5. OpenSucceeds' /\ Opening' /\ Alone' /\ Durable' /\ Linked'
  BY <1>0, <1>2 DEF DiskInv, OpenSucceeds, Opening, Alone, Durable, Linked
<1>6. Visible'
  BY <1>0, <1>2, <1>3 DEF Visible
<1>7. ASSUME NEW w \in wdisk PROVE Leads(New, w, disk')
  <2>1. Leads(New, w, disk)
    BY <1>0 DEF DiskInv, AllLead
  <2>2. ASSUME NEW p \in 1..New.n, NEW v \in Val(New, w, disk', p)
        PROVE  v \in Val(New, w, disk, p) \/ v = New.post[p]
    <3>1. CASE p \in PagesIn(w.fr, 1, LogEnd(New, w))
      BY <2>2, <3>1 DEF Val
    <3>2. CASE p \notin PagesIn(w.fr, 1, LogEnd(New, w))
      <4>1. v \in disk[p] \/ v = file'[p]
        BY <1>1, <1>3, <2>2, <3>2 DEF Val
      <4>2. v \in disk[p] \/ v = New.post[p]
        BY <1>0, <1>1, <1>4, <4>1 DEF Visible
      <4>3. QED
        BY <3>2, <4>2 DEF Val
    <3>3. QED
      BY <3>1, <3>2
  <2>3. QED
    BY <1>1, <2>1, <2>2, LeadsFrom
<1>8. AllLead'
  BY <1>0, <1>2, <1>7 DEF AllLead
<1>9. Checked'
  <2>1. \A p \in 1..New.n \ New.pages : sums[p] = New.post[p]
    BY <1>0 DEF DiskInv, Checked, Same
  <2>2. \A p \in 1..New.n : sums'[p] = New.post[p]
    BY <1>4, <2>1
  <2>3. QED
    BY <1>0, <1>2, <2>2 DEF Checked, Same
<1>10. QED
  BY <1>5, <1>6, <1>8, <1>9 DEF DiskInv

\* ApplyLTXNoLock finds the checksum that the file names.
LEMMA DiskApplyVerify ==
  ASSUME Clients = {}, Inv, Inv', DiskInv, ApplyVerify
  PROVE  DiskInv'
<1> DEFINE kept == Resized(sums, New.n, pageN)
           sum(p) == IF p > New.n THEN Absent
                     ELSE IF dbw.chksums[p] # NoSum THEN dbw.chksums[p] ELSE kept[p]
           s == [p \in Pgno |-> sum(p)]
<1>0. /\ Typed /\ Visible /\ pc = "verify" /\ pc' = "idle" /\ Sync(Trim(file, New.n))
      /\ pageN' = New.n /\ wdisk' = Settled /\ UNCHANGED <<wal, ltx, dbw, ck>>
      /\ s = New.post => /\ role' = IF role = "opening" THEN "replica" ELSE role
                         /\ index' = UpdatedSHM(New.n)
  <2>1. Typed /\ Visible /\ Last(ltx) = New
    BY NewFacts DEF Inv, DiskInv
  <2>2. QED
    BY <2>1 DEF ApplyVerify
<1>1. /\ New.n \in Pgno /\ New.n \in Nat /\ Whole(New.post, New.n)
      /\ New.post \in File /\ \A p \in 1..New.n : p \in Pgno /\ p <= New.n
      /\ \A p \in Pgno : p > New.n <=> ~(p <= New.n)
      /\ \A p \in Pgno : p <= New.n => p \in 1..New.n
  BY <1>0, NewFacts, PageFacts DEF Inv, Pgno
<1>2. s = New.post
  <2>1. \A p \in Pgno : p <= New.n => kept[p] = sums[p] /\ dbw.chksums[p] = NoSum
    BY <1>0, VerifiedSum
  <2>2. \A p \in Pgno : s[p] = IF p <= New.n THEN sums[p] ELSE Absent
    BY <1>1, <2>1
  <2>3. Same(sums, New.post, 1..New.n)
    BY <1>0 DEF DiskInv, Checked
  <2>4. \A p \in Pgno : s[p] = New.post[p]
    BY <1>1, <2>2, <2>3 DEF Same, Whole
  <2>5. s = [p \in Pgno |-> s[p]] /\ New.post = [p \in Pgno |-> New.post[p]]
    BY <1>1 DEF File
  <2>6. QED
    BY <2>4, <2>5
<1> HIDE DEF s, sum, kept
<1>3. /\ role' = IF role = "opening" THEN "replica" ELSE role
      /\ index'.bf = 0
  BY <1>0, <1>2 DEF UpdatedSHM
<1>4. /\ role \in {"primary", "leaving", "replica", "opening"} /\ ck = NoCkpt /\ wal.salt = 0
  BY <1>0 DEF Inv, Roles, Typed, TypeOK, Logging
<1>5. role' \in {"primary", "leaving", "replica"} /\ New' = New /\ End' = 0 /\ wdisk' \subseteq wdisk
  BY <1>0, <1>3, <1>4, SettledTyped DEF New, End
<1>6. file' = Trim(file, New.n) /\ \A p \in Pgno : disk'[p] = {file'[p]}
  BY <1>0 DEF Sync
<1>7. \A p \in 1..New.n : disk'[p] = {file'[p]} /\ file'[p] = file[p]
  BY <1>1, <1>6 DEF Trim
<1>8. OpenSucceeds' /\ Opening' /\ Checked' /\ Alone' /\ Linked'
  BY <1>0, <1>3, <1>4, <1>5 DEF OpenSucceeds, Opening, Checked, Alone, Linked
<1>9. Durable'
  BY <1>0, <1>5, <1>7 DEF Durable
<1>10. Visible'
  BY <1>0, <1>5, <1>6 DEF Visible
<1>11. ASSUME NEW w \in wdisk PROVE Leads(New, w, disk')
  <2>1. Leads(New, w, disk)
    BY <1>0 DEF DiskInv, AllLead
  <2>2. \A p \in 1..New.n : \A v \in Val(New, w, disk', p) : v \in Val(New, w, disk, p)
    BY <1>0, <1>1, <1>7 DEF Val, Visible
  <2>3. QED
    BY <1>1, <2>1, <2>2, LeadsFrom
<1>12. AllLead'
  BY <1>5, <1>11 DEF AllLead
<1>13. QED
  BY <1>8, <1>9, <1>10, <1>12 DEF DiskInv

-----------------------------------------------------------------------------
(* Every step keeps it, and DB.Open succeeds. *)

\* It holds at first: everything is synced and there is no log.
LEMMA DiskInit == Init => DiskInv
<1>1. SUFFICES ASSUME Init PROVE DiskInv
  OBVIOUS
<1>2. PICK n \in Pgno :
        LET f == [p \in Pgno |-> IF p <= n THEN [tx |-> 1, n |-> n] ELSE Absent]
        IN  /\ file = f /\ disk = [p \in Pgno |-> {f[p]}] /\ wal = NoLog /\ wdisk = {NoLog}
            /\ ltx = <<[n |-> n, pages |-> 1..n, data |-> f, post |-> f,
                        salt |-> 0, off |-> 0, size |-> 0]>>
            /\ index = [mx |-> 0, bf |-> 0, n |-> n, salt |-> 0] /\ pageN = n
            /\ role = "primary" /\ pc = "idle" /\ ck = NoCkpt
  BY <1>1 DEF Init
<1> DEFINE f == [p \in Pgno |-> IF p <= n THEN [tx |-> 1, n |-> n] ELSE Absent]
           l == [n |-> n, pages |-> 1..n, data |-> f, post |-> f, salt |-> 0, off |-> 0, size |-> 0]
<1>3. /\ file = f /\ disk = [p \in Pgno |-> {f[p]}] /\ wal = NoLog /\ wdisk = {NoLog} /\ ltx = <<l>>
      /\ index = [mx |-> 0, bf |-> 0, n |-> n, salt |-> 0] /\ pageN = n
      /\ role = "primary" /\ pc = "idle" /\ ck = NoCkpt
  BY <1>2
<1> HIDE DEF f
<1>4. l.n = n /\ l.pages = 1..n
  OBVIOUS
<1> HIDE DEF l
<1>5. New.n = n /\ New.pages = 1..n
  BY <1>3, <1>4 DEF New
<1>6. wal.salt = 0 /\ Len(wal.fr) = 0 /\ wal.size = 0 /\ End = 0 /\ index.bf = 0
  BY <1>3, EmptySeq DEF NoLog, End
<1>7. \A p \in Pgno : disk[p] = {file[p]}
  BY <1>3
<1>8. Visible /\ AllLead
  <2>1. Reaches(New, wal)
    BY <1>6 DEF Reaches, Continues
  <2>2. Leads(New, wal, disk)
    BY <1>5 DEF Leads
  <2>3. QED
    BY <1>3, <1>7, <2>1, <2>2 DEF Visible, AllLead
<1>9. OpenSucceeds /\ Alone /\ Linked /\ Opening /\ Checked
  BY <1>3, <1>6 DEF OpenSucceeds, Alone, Linked, Opening, Checked
<1>10. Durable
  <2>1. \A p \in 1..n : p \in Pgno
    BY PageFacts DEF Pgno
  <2>2. QED
    BY <1>3, <1>7, <2>1 DEF Durable
<1>11. QED
  BY <1>8, <1>9, <1>10 DEF DiskInv

\* A step that changes nothing keeps it.
LEMMA DiskStutter ==
  ASSUME DiskInv, UNCHANGED vars
  PROVE  DiskInv'
<1>1. UNCHANGED <<file, disk, wal, wdisk, ltx, index, pageN, sums, dbw, role, pc, ck>>
  BY DEF vars, dbfile, log, memory, locks
<1>2. New' = New /\ End' = End /\ Active' = Active
  BY <1>1 DEF New, End, Active, Running
<1>3. OpenSucceeds' /\ Alone' /\ Checked' /\ Opening'
  BY <1>1, <1>2 DEF DiskInv, OpenSucceeds, Alone, Checked, Opening, Same
<1>4. Visible' /\ AllLead' /\ Durable' /\ Linked'
  BY <1>1, <1>2 DEF DiskInv, Visible, AllLead, Durable, Linked
<1>5. QED
  BY <1>3, <1>4 DEF DiskInv

\* Every step keeps it.
LEMMA DiskNext ==
  ASSUME Clients = {}, Inv, Inv', DiskInv, [Next]_vars
  PROVE  DiskInv'
<1>1. CASE WriterStep
  <2>1. CASE \E s \in Salts : WriteWALHeader(s)
    BY <2>1, DiskHeader
  <2>2. CASE WriteWALFrame
    BY <2>2, DiskFrame
  <2>3. CASE (\E n \in Pgno : \E w \in SUBSET Pgno : BeginWrite(n, w)) \/ WriteSHM \/ ClientEnds
    BY <2>3, DiskClient
  <2>4. CASE CommitSync
    BY <2>4, DiskCommitSync
  <2>5. CASE \E room \in Room : CommitWAL(room)
    BY <2>5, DiskCommitWAL
  <2>6. QED
    BY <1>1, <2>1, <2>2, <2>3, <2>4, <2>5 DEF WriterStep
<1>2. CASE CheckpointStep
  <2>1. CASE LockCkpt \/ AbortCheckpoint
    BY <2>1, DiskLockCkpt
  <2>2. CASE \E m \in 1..index.mx : BeginCheckpoint(m)
    BY <2>2, DiskBeginCheckpoint
  <2>3. CASE \E p \in Pgno : CopyPage(p)
    BY <2>3, DiskCopyPage
  <2>4. CASE EndCheckpoint
    BY <2>4, DiskEndCheckpoint
  <2>5. CASE TruncateWAL
    BY <2>5, DiskTruncateWAL
  <2>6. QED
    BY <1>2, <2>1, <2>2, <2>3, <2>4, <2>5 DEF CheckpointStep
<1>3. CASE RecoverStep
  <2>1. CASE CheckpointNothing
    BY <2>1, DiskCheckpointNothing
  <2>2. CASE CheckpointPages
    BY <2>2, DiskCheckpointPages
  <2>3. CASE CheckpointResize
    BY <2>3, DiskCheckpointResize
  <2>4. CASE CheckpointReset
    BY <2>4, DiskCheckpointReset
  <2>5. CASE Open
    BY <2>5, DiskOpen
  <2>6. CASE InitDatabaseFile
    BY <2>6, DiskInitDatabaseFile
  <2>7. QED
    BY <1>3, <2>1, <2>2, <2>3, <2>4, <2>5, <2>6 DEF RecoverStep
<1>4. CASE ApplyStep
  <2>1. CASE \E n \in Pgno : \E w \in SUBSET Pgno : ReceiveLTX(n, w)
    BY <2>1, DiskReceiveLTX
  <2>2. CASE ImportStart
    BY <2>2, DiskImportStart
  <2>3. CASE \E n \in Pgno : \E whole \in Uploads : ImportToLTX(n, whole)
    <3>1. PICK n \in Pgno, whole \in Uploads : ImportToLTX(n, whole)
      BY <2>3
    <3>2. whole = TRUE
      BY DEF Uploads
    <3>3. QED
      BY <3>1, <3>2, DiskImportToLTX
  <2>4. CASE ApplyPages
    BY <2>4, DiskApplyPages
  <2>5. CASE ApplyVerify
    BY <2>5, DiskApplyVerify
  <2>6. QED
    BY <1>4, <2>1, <2>2, <2>3, <2>4, <2>5 DEF ApplyStep
<1>5. CASE Demote \/ Promote \/ PowerLoss
  BY <1>5, DiskRole, DiskPowerLoss
<1>6. CASE UNCHANGED vars
  BY <1>6, DiskStutter
<1>7. QED
  BY <1>1, <1>2, <1>3, <1>4, <1>5, <1>6 DEF Next

\* What clients that work one by one keep.
KeptDisk == Clients = {} => Inv /\ DiskInv

\* It holds in every behaviour.
LEMMA KeptDiskAlways == Spec => []KeptDisk
<1>1. Init => KeptDisk
  BY InvInit, DiskInit DEF KeptDisk
<1>2. KeptDisk /\ [Next]_vars => KeptDisk'
  <2>1. SUFFICES ASSUME Clients = {}, Inv, DiskInv, [Next]_vars PROVE Inv' /\ DiskInv'
    BY DEF KeptDisk
  <2>2. Inv'
    BY <2>1, InvNext DEF Regular
  <2>3. QED
    BY <2>1, <2>2, DiskNext
<1>3. QED
  BY <1>1, <1>2, PTL DEF Spec

\* Whatever a power loss leaves, at any step of a transaction, a checkpoint or the
\* recovery of an earlier loss, DB.Open brings the database to the one that the newest
\* LTX file names, and no file that is received or imported fails its checksum; as long
\* as SQLite's connections do nothing but work one by one.
THEOREM WALOpenSucceeds == Spec => [](Clients = {} => OpenSucceeds)
<1>1. KeptDisk => (Clients = {} => OpenSucceeds)
  BY DEF KeptDisk, DiskInv
<1>2. QED
  BY <1>1, KeptDiskAlways, PTL
=============================================================================
