------------------------ MODULE ProjectionInvariant ------------------------
(***************************************************************************)
(* Why a projection at rest is the fold of the events in effective order,  *)
(* and a flush is answered with every row there was: an invariant of the   *)
(* states in between, strong enough to be inductive.                       *)
(***************************************************************************)
EXTENDS Projection

-----------------------------------------------------------------------------
(* A snapshot and its cursor *)

\* A rebuild is due that will put the rows in order.
Pardoned ==
  \/ ahead \/ poll = "rebase" \/ rebuild
  \/ \E l \in Loops : At(l, "reset")

\* Snapshot s and cursor c belong together: what was folded is what counts as read,
\* each row once, and unless a rebuild is due it is in effective order and the rows
\* to come follow it.
Fits(s, c) ==
  /\ Folded(s, c)
  /\ Range(s) \cap skipped = {}
  /\ \A i, j \in DOMAIN s : s[i] = s[j] => i = j
  /\ \/ Pardoned
     \/ Ascending(s) /\ \A i \in DOMAIN s, k \in Unread(c) : Before(s[i], k)

\* The processor is at work on the snapshot it keeps.
Loaded == cache = mem /\ Fits(mem, cursor)
\* The disk is as a page before left it; the memory of the page is empty.
DiskFits == Fits(cache, meta)
Virgin == mem = <<>> /\ cursor = Zero /\ DiskFits

-----------------------------------------------------------------------------
(* Where a loop is *)

\* The rows of a batch are unread, and a number that was read with one is still its
\* number.  An unread row that is not among the first i of the batch follows row i.
BatchFits(l) ==
  LET b == loop[l].batch IN
  /\ \A i \in DOMAIN b : b[i].k \in Unread(cursor) /\ (b[i].g # 0 => rows[b[i].k] = b[i].g)
  /\ \A i, j \in DOMAIN b : b[i].k = b[j].k => i = j
  /\ \A i \in DOMAIN b, k \in Unread(cursor) :
       (\A j \in 1..i : b[j].k # k)
       => /\ IF b[i].g # 0 THEN rows[k] = 0 \/ rows[k] > b[i].g ELSE k > b[i].k
          /\ Pardoned \/ Before(b[i].k, k)

\* What applyEvent will write belongs to what there is.
PutFits(l) ==
  /\ loop[l].prev = mem
  /\ loop[l].next = AdvanceEffectiveCursor(cursor, Head(loop[l].batch))

LoopFits(l) ==
  /\ loop[l].pc \in {"load", "boot"} => l = "start"
  /\ At(l, "load") => Loaded \/ Virgin
  /\ At(l, "boot") => cursor = meta /\ mem \in {<<>>, cache} /\ DiskFits
  /\ At(l, "enter") => rebuild \/ Loaded
  /\ At(l, "clear") => mem = <<>> /\ cursor = Zero /\ skipped = {}
  /\ loop[l].pc \in {"save", "read", "apply", "put", "finish"} => Loaded
  /\ loop[l].pc \in {"apply", "put"} => BatchFits(l)
  /\ At(l, "put") => PutFits(l)

AtRest == \A l \in Loops : ~Busy(l)

-----------------------------------------------------------------------------
(* The invariant *)

\* A loop is busy alone.
AloneInv == Busy("start") /\ Busy("run") => overlapped

\* Before start() has read the cache nobody asks for a pass but to rebuild.
LifeInv ==
  /\ ready \/ subscribed \/ notified => started
  /\ loop["start"].pc \in {"load", "boot"} => ~ready /\ ~subscribed /\ ~notified
  /\ Busy("start") => started

FoldInv ==
  Sound => /\ AtRest => Loaded \/ (~started /\ Virgin)
           /\ \A l \in Loops : LoopFits(l)

\* What reader c waits for is still to be read, or is in the last batch.
Served(c) ==
  LET w == loop["run"] IN
  \/ again
  \/ w.pc \in {"enter", "reset", "clear", "save", "read"}
  \/ /\ w.pc \in {"apply", "put"}
     /\ \/ w.full
        \/ \A k \in Unread(cursor) : k <= flush[c].need => \E i \in DOMAIN w.batch : w.batch[i].k = k
  \/ w.pc = "finish" /\ \A k \in Unread(cursor) : k > flush[c].need

FlushInv ==
  /\ faults = 0 => skipped = {}
  /\ Sound => \A c \in Readers : flush[c].st \in {"owner", "joined"} => Served(c)

ProjectionInv == ProjectionTypeOK /\ AloneInv /\ LifeInv /\ FoldInv /\ FlushInv
=============================================================================
