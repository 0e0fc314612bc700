------------------------------- MODULE FactsLog -------------------------------
(***************************************************************************)
(* What the facts store promises about one host's documents, without the   *)
(* way it keeps the promise: a document is replaced in one step, and the   *)
(* history entry recorded with it says what that very step changed.        *)
(***************************************************************************)
EXTENDS Naturals, Sequences

CONSTANTS
    Cells,    \* <<host, source>>: one document each
    Docs,     \* documents, told apart by their hash
    Empty,    \* the document {}
    None,     \* no document
    Content,  \* what a document parses to; two spellings may parse alike
    Keep      \* KEEP_HISTORY

VARIABLES
    doc,  \* the document of each cell
    log   \* its history, oldest first

\* The entry recorded when to replaces from (history_entry), if any: a first
\* document with nothing in it, or one that parses as the last did, is no event.
Entry(from, to) ==
    IF from = None
    THEN IF to = Empty THEN <<>> ELSE << [from |-> None, to |-> to] >>
    ELSE IF Content[from] = Content[to] THEN <<>> ELSE << [from |-> from, to |-> to] >>

\* The history after entry was added: the latest Keep are kept.
Record(old, entry) ==
    LET all == old \o entry
    IN  IF Len(all) > Keep THEN SubSeq(all, Len(all) - Keep + 1, Len(all)) ELSE all

Init ==
    /\ doc \in [Cells -> Docs \cup {None}]
    /\ log = [c \in Cells |-> IF doc[c] = None THEN <<>> ELSE Entry(None, doc[c])]

Replace(c, d) ==
    /\ doc[c] # d
    /\ doc' = [doc EXCEPT ![c] = d]
    /\ log' = [log EXCEPT ![c] = Record(@, Entry(doc[c], d))]

\* Documents go with their histories.
Remove(cs) ==
    /\ doc' = [c \in Cells |-> IF c \in cs THEN None ELSE doc[c]]
    /\ log' = [c \in Cells |-> IF c \in cs THEN <<>> ELSE log[c]]

Next ==
    \/ \E c \in Cells, d \in Docs : Replace(c, d)
    \/ \E cs \in SUBSET Cells : Remove(cs)

Spec == Init /\ [][Next]_<<doc, log>>
===============================================================================
