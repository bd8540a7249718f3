----------------------------- MODULE MessageTree -----------------------------
(***************************************************************************)
(* The messages of a trace as a tree (state/message_tree.py): rows with a  *)
(* number and the number of their parent, and trace_head with the tip of   *)
(* the main path and the next number. One writer at a time, as the module  *)
(* says; the statements of a compaction are in no transaction, and it may  *)
(* be broken off after any of them.                                        *)
(***************************************************************************)
EXTENDS Naturals, Sequences, FiniteSets

CONSTANT MaxRows  \* bound on the rows

VARIABLES
  rows,  \* chat_messages of the trace, in the order of their ids
  head,  \* trace_head: head_seq and next_seq
  torn   \* history: a compaction was broken off

vars == <<rows, head, torn>>

Row(seq, parent, branch) == [seq |-> seq, parent |-> parent, branch |-> branch]

\* No trace_head: ensure_trace_head inserts this one.
Init == rows = <<>> /\ head = [head |-> 0, next |-> 1] /\ torn = FALSE

Seqs == {rows[i].seq : i \in 1..Len(rows)}

\* by_seq: of several rows with one number the last.
BySeq(s) == rows[CHOOSE i \in 1..Len(rows) :
                   rows[i].seq = s /\ \A j \in (i + 1)..Len(rows) : rows[j].seq # s]

\* The k-th number met on the way from the tip to the root, 0 beyond.
Walk ==
  LET step[k \in 0..(Len(rows) + 1)] ==
        IF k = 0 THEN head.head
        ELSE IF step[k - 1] \in Seqs THEN BySeq(step[k - 1]).parent ELSE 0
  IN  step

\* get_main_path, from the tip down; a number met again ends it.
MainPath ==
  LET met == {k \in DOMAIN Walk : Walk[k] \in Seqs /\ \A j \in 0..(k - 1) : Walk[j] # Walk[k]}
      n   == CHOOSE m \in 0..Len(rows) : (m \notin met) /\ \A j \in 0..(m - 1) : j \in met
  IN  [k \in 1..n |-> Walk[k - 1]]

-----------------------------------------------------------------------------

\* A message: allocate_seq, the row, advance_head, in one transaction.
AppendMessage ==
  /\ Len(rows) < MaxRows
  /\ rows' = Append(rows, Row(head.next, head.head, "main"))
  /\ head' = [head |-> head.next, next |-> head.next + 1]
  /\ UNCHANGED torn

\* Mutant of Anchor: the first kept message itself.
AnchorFirst(keep) == MainPath[keep]

\* The parent of the first of the kept messages.
Anchor(keep) == BySeq(MainPath[keep]).parent

Reparented(s, parent) ==
  [i \in 1..Len(rows) |-> IF rows[i].seq = s THEN [rows[i] EXCEPT !.parent = parent]
                          ELSE rows[i]]

\* compact_main_path, broken off after the first n of its three writes: the
\* summary, the parent of the first kept message, the head.
Compact(keep, n) ==
  /\ Len(rows) < MaxRows /\ head.head # 0 /\ Len(MainPath) > keep
  /\ rows' = Append(IF n >= 2 THEN Reparented(MainPath[keep], head.next) ELSE rows,
                    Row(head.next, Anchor(keep), "compression"))
  /\ head' = IF n = 3 THEN [head |-> head.next, next |-> head.next + 1] ELSE head
  /\ torn' = (torn \/ n < 3)

\* backtrack_head: to any message of the trace.
Backtrack(s) ==
  /\ head.next <= MaxRows + 1
  /\ head' = [head |-> s, next |-> 1 + IF s > head.next THEN s ELSE head.next]
  /\ UNCHANGED <<rows, torn>>

Next ==
  \/ AppendMessage
  \/ \E keep \in 1..MaxRows, n \in 1..3 : Compact(keep, n)
  \/ \E s \in Seqs : Backtrack(s)

Spec == Init /\ [][Next]_vars

-----------------------------------------------------------------------------
(* Properties.                                                             *)

TypeOK ==
  /\ \A i \in 1..Len(rows) : rows[i].seq \in Nat \ {0} /\ rows[i].parent \in Nat
  /\ head.head \in Nat /\ head.next \in Nat \ {0} /\ torn \in BOOLEAN

\* However often the trace is compacted and taken back, numbers are given once
\* and the way from every message leads to the root, so that a path read after
\* any backtrack is a whole one (get_main_path). Compactions that are broken off
\* are another matter.
TreeIsSound ==
  ~torn =>
    /\ Cardinality(Seqs) = Len(rows)
    /\ \A S \in (SUBSET Seqs) \ {{}} : \E s \in S : BySeq(s).parent \notin S

\* compact_main_path: the last messages are kept. The message at the tip is on
\* the main path of the compacted trace.
TipIsKept ==
  [][(Len(rows') > Len(rows) /\ rows'[Len(rows')].branch = "compression" /\ head.head # 0)
       => \E k \in DOMAIN MainPath' : MainPath'[k] = head.head]_vars

\* The same when compactions are broken off: no path turns in a circle.
AlwaysEnds == \A S \in (SUBSET Seqs) \ {{}} : \E s \in S : BySeq(s).parent \notin S
=============================================================================
