---------------------------- MODULE CatalogDetail -----------------------------
(***************************************************************************)
(* catalog_detail and catalog_definition of the data-catalog tool.  A      *)
(* detail joins the columns of a listing with metadata that is fetched in  *)
(* chunks, several chunks at a time; a definition joins a term with its    *)
(* glossary.  What cannot be fetched is reported, and the rest answered.   *)
(***************************************************************************)
EXTENDS Naturals, FiniteSets

CONSTANTS
  MaxColumns,     \* bound: columns of a table
  ChunkSize,      \* BGAM_CHUNK_SIZE, 5
  MaxConcurrent   \* BGAM_MAX_CONCURRENT, 4

VARIABLES
  subject,      \* what is asked for, as DataZone has it: the kind, the number of
                \* columns, and the parts that have something of their own to fetch
  step,         \* "get", "fetch", "glossary", "done" or "failed"
  fetched,      \* chunks that have been asked for
  shown,        \* parts whose own data are in the answer
  unavailable   \* parts that are reported

detailVars == <<subject, step, fetched, shown, unavailable>>

Subjects ==
  (UNION {[kind : {"glue"}, columns : {n}, parts : SUBSET (1 .. n)] : n \in 0 .. MaxColumns})
  \cup [kind : {"s3", "form"}, columns : {0}, parts : {{}}]
  \cup [kind : {"term"}, columns : {0}, parts : {{}, {0}}]   \* 0: its glossary

\* Mutant: a last chunk that is not full is left out.
FullChunks(n) == n \div ChunkSize

\* chunkArray
Chunks(n) == (n + ChunkSize - 1) \div ChunkSize
Chunk(c) == {i \in 1 .. subject.columns : (i - 1) \div ChunkSize = c - 1}

Init ==
  /\ subject \in Subjects
  /\ step = "get" /\ fetched = 0 /\ shown = {} /\ unavailable = {}

\* GetListing, GetGlossaryTerm or GetFormType; without it the tool fails.
Get ==
  /\ step = "get"
  /\ step' \in {"failed",
                IF subject.kind = "glue" /\ Chunks(subject.columns) > 0 THEN "fetch"
                ELSE IF subject.kind = "term" /\ subject.parts # {} THEN "glossary" ELSE "done"}
  /\ UNCHANGED <<subject, fetched, shown, unavailable>>

\* The next chunks, all at once.  Each may be rejected, or come back with errors
\* of single columns; a column that has no metadata is a 404 and not reported.
FetchColumns ==
  LET batch == {c \in 1 .. Chunks(subject.columns) : fetched < c /\ c <= fetched + MaxConcurrent}
  IN  /\ step = "fetch"
      /\ \E rejected \in SUBSET batch :
           LET asked == UNION {Chunk(c) : c \in batch}
               lost == UNION {Chunk(c) : c \in rejected}
           IN  \E failed \in SUBSET (asked \ lost) :
                 /\ shown' = shown \cup ((asked \ (lost \cup failed)) \cap subject.parts)
                 /\ unavailable' = unavailable \cup lost \cup failed
      /\ fetched' = fetched + Cardinality(batch)
      /\ step' = IF fetched' = Chunks(subject.columns) THEN "done" ELSE "fetch"
      /\ UNCHANGED subject

GetGlossary ==
  /\ step = "glossary" /\ step' = "done"
  /\ \/ shown' = subject.parts /\ UNCHANGED unavailable
     \/ unavailable' = subject.parts /\ UNCHANGED shown
  /\ UNCHANGED <<subject, fetched>>

Next == Get \/ FetchColumns \/ GetGlossary

Spec == Init /\ [][Next]_detailVars

\* Whatever is rejected, an answer has what DataZone has about each column (or the
\* glossary of a term), or says that it could not be fetched, and never both.
DetailAccountsForAll ==
  step = "done" =>
    /\ subject.parts \subseteq shown \cup unavailable
    /\ shown \cap unavailable = {}
=============================================================================
