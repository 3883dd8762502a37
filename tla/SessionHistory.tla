--------------------------- MODULE SessionHistory ---------------------------
(***************************************************************************)
(* What back/forward navigation promises, whoever implements it: a list of *)
(* visited documents with a cursor, as a browser tab                       *)
(* (mocha_desktop/src/tab.rs) and the navigation controller                *)
(* (mocha_nav/src/lib.rs) keep it.  Cursor 0 means that no entry is        *)
(* current.                                                                *)
(***************************************************************************)
EXTENDS Integers, Sequences

CONSTANT Docs

VARIABLES entries, cursor

history == <<entries, cursor>>

Init == entries \in Seq(Docs) /\ cursor \in 0..Len(entries)

\* Going somewhere new drops what was ahead of the cursor and nothing else.
Visit(d) ==
  /\ entries' = Append(SubSeq(entries, 1, cursor), d)
  /\ cursor' = cursor + 1

\* Back and forward move by one entry and may replace the entry they reach by
\* the document its load ended at.
Traverse(d) ==
  /\ cursor' \in {cursor - 1, cursor + 1} \cap DOMAIN entries
  /\ entries' = [entries EXCEPT ![cursor'] = d]

\* A reload may replace the current entry in the same way.
Refresh(d) ==
  /\ cursor # 0
  /\ entries' = [entries EXCEPT ![cursor] = d]
  /\ UNCHANGED cursor

Forget == entries' = <<>> /\ cursor' = 0

Next == Forget \/ \E d \in Docs : Visit(d) \/ Traverse(d) \/ Refresh(d)

Spec == Init /\ [][Next]_history

-----------------------------------------------------------------------------

TypeOK == entries \in Seq(Docs) /\ cursor \in 0..Len(entries)

\* Until everything is forgotten, the entries behind the cursor are never
\* rewritten: what Back will reach is what was visited.
PastIsKept ==
  [][\/ entries' = <<>>
     \/ \A k \in 1..(cursor - 1) :
          k < cursor' => k \in DOMAIN entries' /\ entries'[k] = entries[k]]_history
=============================================================================
