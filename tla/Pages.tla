------------------------------- MODULE Pages --------------------------------
(***************************************************************************)
(* A SQLite database as a file of pages.  A page holds the number of the   *)
(* transaction that wrote it and the database size that transaction chose; *)
(* the header of page 1 is what the program reads of it.  The checksum of  *)
(* a set of pages is modelled by the pages it covers.                      *)
(***************************************************************************)
EXTENDS Integers

CONSTANT MaxPage   \* pages of the largest database: a bound

ASSUME PageAssumption == MaxPage \in Nat \ {0}

Pgno   == 1 .. MaxPage
Absent == [tx |-> 0, n |-> 0]     \* past the end of the file, no checksum

\* The database in file f: the pages its header counts.
Size(f) == f[1].n
Trim(f, n) == [p \in Pgno |-> IF p <= n THEN f[p] ELSE Absent]
Content(f) == Trim(f, Size(f))

\* File f with the pages in S overwritten by those of g.
Overlay(f, S, g) == [p \in Pgno |-> IF p \in S THEN g[p] ELSE f[p]]

\* The file of checksums s after truncateDatabase: those between the new page
\* count and the one before are dropped.
Resized(s, n, pageN) == [p \in Pgno |-> IF p \in n + 1 .. pageN THEN Absent ELSE s[p]]

\* What LTX file l makes of the database f.
ApplyTo(f, l) == Trim(Overlay(f, l.pages, l.data), l.n)
=============================================================================
