------------------------------ MODULE Importer ------------------------------
(***************************************************************************)
(* dontlie import: read the export of another tool and append a receipt    *)
(* for each of its records, while others append too.                       *)
(*                                                                         *)
(* A file is its shape and its records.  A record is good; or noise, a     *)
(* line that is not JSON; or odd, JSON of another type, at which the       *)
(* converter raises.                                                       *)
(***************************************************************************)
EXTENDS Written, FiniteSets

CONSTANTS
  NoId,         \* None
  MaxRecords,   \* bound: records of a file
  MaxImports    \* bound: runs of the importer

ASSUME ImporterAssumption == NoId \notin Nat /\ MaxRecords \in Nat

VARIABLES
  export,       \* the file
  importer,     \* the run under way, and what it has counted
  imports       \* runs so far

importerVars == <<export, importer, imports>>

-----------------------------------------------------------------------------
Kind == {"good", "noise", "odd"}

\* Shapes of a file: a JSON object with a list, a list, or lines of JSON.
Export == [mentions : {"obsigna", "halo-record", "aulite", "none"},
           shape : {"object", "list", "lines"},
           records : UNION {[1..n -> Kind] : n \in 1..MaxRecords}]

\* Noise inside a document would make all of it unreadable.
Exports == {e \in Export : e.shape = "lines" \/ \A j \in DOMAIN e.records : e.records[j] # "noise"}

\* --format, or detect_format: by words anywhere in the first 2000 characters,
\* also in a prompt; what is not recognized is taken for lines.
DetectFormat(e) == IF e.mentions = "none" THEN "generic-jsonl" ELSE e.mentions

Documents == {"obsigna", "aulite"}
OneLine(e) == e.shape # "lines" \/ Len(e.records) = 1

\* What the converter yields, one by one, until it raises ("odd").  The
\* document converters ask a list for .get before they ask whether it is one,
\* and cannot read several lines; the line converters take a document (on one
\* line) for a record.
Yields(e) ==
  LET asDocument == DetectFormat(e) \in Documents
  IN  CASE asDocument /\ e.shape = "object" -> e.records
        [] asDocument /\ e.shape = "list"   -> <<"odd">>
        [] asDocument /\ e.shape = "lines"  ->
             IF OneLine(e) /\ e.records[1] = "good" THEN <<>> ELSE <<"odd">>
        [] ~asDocument /\ e.shape = "object" -> <<"good">>
        [] ~asDocument /\ e.shape = "list"   -> <<"odd">>
        [] ~asDocument /\ e.shape = "lines"  -> e.records

NoImport == [pc |-> "idle", todo |-> <<>>, imported |-> 0, skipped |-> 0,
             first |-> NoId, last |-> NoId]

ImporterInit ==
  /\ export \in Exports
  /\ importer = NoImport
  /\ imports = 0

Importing(pc) == importer.pc = pc

\* import_file: detect the format, start the converter.
BeginImport ==
  /\ importer.pc \in {"idle", "done", "raised"} /\ imports < MaxImports
  /\ imports' = imports + 1
  /\ importer' = [NoImport EXCEPT !.pc = "reading", !.todo = Yields(export)]
  /\ UNCHANGED <<export, written>>

\* The converter raises: the exception leaves import_file, and with it the
\* summary; what was appended stays.
ConverterRaises ==
  /\ Importing("reading") /\ importer.todo # <<>> /\ Head(importer.todo) = "odd"
  /\ importer' = [importer EXCEPT !.pc = "raised"]
  /\ UNCHANGED <<export, imports, written>>

\* A line that is not JSON is passed over and counted nowhere.
PassOver ==
  /\ Importing("reading") /\ importer.todo # <<>> /\ Head(importer.todo) = "noise"
  /\ importer' = [importer EXCEPT !.todo = Tail(@)]
  /\ UNCHANGED <<export, imports, written>>

\* Fault variant: the first id is that of the latest receipt.
CountedLatest(id) ==
  [importer EXCEPT !.todo = Tail(@), !.imported = @ + 1,
                   !.first = id, !.last = id]

Counted(id) ==
  [importer EXCEPT !.todo = Tail(@), !.imported = @ + 1,
                   !.first = IF @ = NoId THEN id ELSE @, !.last = id]

\* append, or an error that is counted.
ImportRecord ==
  /\ Importing("reading") /\ importer.todo # <<>> /\ Head(importer.todo) = "good"
  /\ \/ /\ AppendWritten(Receipt("importer", imports))
        /\ importer' = Counted(Len(written'))
     \/ /\ importer' = [importer EXCEPT !.todo = Tail(@), !.skipped = @ + 1]
        /\ UNCHANGED written
  /\ UNCHANGED <<export, imports>>

EndImport ==
  /\ Importing("reading") /\ importer.todo = <<>>
  /\ importer' = [importer EXCEPT !.pc = "done"]
  /\ UNCHANGED <<export, imports, written>>

\* main: exit status 0 unless a record was refused.
ExitStatus == IF importer.skipped = 0 THEN 0 ELSE 2

ImporterNext ==
  \/ BeginImport \/ ConverterRaises \/ PassOver \/ ImportRecord \/ EndImport
  \/ /\ Importing("reading") /\ SomebodyAppends
     /\ UNCHANGED importerVars

-----------------------------------------------------------------------------
Good(records) == {j \in DOMAIN records : records[j] = "good"}
OfThisRun == {i \in WrittenBy("importer") : written[i].says = imports}

\* The summary is true of the vault, whoever appended in between: as many
\* receipts of this run as it says, the first and the last of them where it
\* says, and none for a record it counts as skipped.  A run whose converter
\* raised leaves the records before the odd one imported; run again it imports
\* them again.
ImportReport ==
  /\ importer.imported = Cardinality(OfThisRun)
  /\ OfThisRun # {} =>
       /\ importer.first \in OfThisRun /\ importer.last \in OfThisRun
       /\ \A i \in OfThisRun : importer.first <= i /\ i <= importer.last
  /\ Importing("done") => importer.imported + importer.skipped
                            = Cardinality(Good(Yields(export)))
=============================================================================
