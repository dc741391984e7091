------------------------------ MODULE AuditFile ------------------------------
(***************************************************************************)
(* The audit log on disk and its compaction (audit/audit_log.cpp, and      *)
(* RunAuditCompactCommand in main.cpp).  Commands append lines.  The       *)
(* compaction replaces the oldest by one line of counts in the summary     *)
(* file; the fold replaces the summary's lines by one.  Nothing locks the  *)
(* files: other commands append while the log is compacted, every file     *)
(* operation may fail, and the command can be killed between any two.  Of  *)
(* compactions there is one at a time.                                     *)
(***************************************************************************)
EXTENDS Naturals, Sequences, FiniteSetsExt

CONSTANTS
    Entries,       \* the kinds of entry that commands append: an operation and its result
    Junk,          \* a line that does not parse
    MaxLines,      \* CompactOptions, and the log's read limit
    MaxBytes,
    KeepTailLines,
    SummaryMaxLines,   \* summaryMaxBytes, in lines of the summary
    MaxAuditReadBytes,
    LineBytes,     \* the length of a line
    MaxAppends,    \* bound on the lines that commands append
    MaxRuns        \* bound on how often the compaction is run

ASSUME AuditAssumption ==
    /\ {MaxLines, MaxBytes, KeepTailLines, SummaryMaxLines, MaxAuditReadBytes, MaxAppends,
        MaxRuns} \subseteq Nat
    /\ LineBytes \in Nat \ {0}

VARIABLES
    log,        \* audit.log: entries, and lines that do not parse
    summary,    \* audit-summary.log: lines of counts, and lines that do not parse
    torn,       \* the last line of the summary was cut short
    compactor,  \* the command: where it is, the text and the counts it is to write, and
                \* the length of the summary before
    appended,   \* history: how many lines of each kind were appended, early and late
    runs,       \* how often the compaction was run
    mishap      \* history: what happened that the files do not survive

auditVars == <<log, summary, torn, compactor, appended, runs, mishap>>

SelfRecords == {"audit.compact", "audit.fold"}
Parsable == Entries \cup SelfRecords
NoCounts == [e \in Parsable |-> 0]
Off == [at |-> "off", text |-> <<>>, counts |-> NoCounts, before |-> 0]

AuditInit ==
    /\ log = <<>>
    /\ summary = <<>>
    /\ torn = FALSE
    /\ compactor = Off
    /\ appended = [e \in Parsable \cup {Junk}, late \in BOOLEAN |-> 0]
    /\ runs = 0
    /\ mishap = {}

----------------------------------------------------------------------------
(* Counting lines.                                                         *)

Occurrences(lines, e) == Cardinality({i \in DOMAIN lines : lines[i] = e})

\* The counts of the first lines, by operation and result.
SummarizeAuditLines(lines, head) == [e \in Parsable |-> Occurrences(SubSeq(lines, 1, head), e)]

CountedLines(lines) == {i \in DOMAIN lines : lines[i] # Junk}

\* The sum of the counts of a summary's lines.
Merged(lines) == [e \in Parsable |-> MapThenSumSet(LAMBDA i : lines[i][e], CountedLines(lines))]

ShouldCompactAuditFile(lines) ==
    \/ MaxBytes > 0 /\ LineBytes * Len(lines) >= MaxBytes
    \/ MaxLines > 0 /\ Len(lines) >= MaxLines

----------------------------------------------------------------------------
(* Appending (AppendAuditLine).                                            *)

OfCommands ==
    MapThenSumSet(LAMBDA x : appended[x], (Entries \cup {Junk}) \X BOOLEAN)

Compacting == compactor.at \in {"temp", "summary", "replace"}

\* A command appends an entry, or another program a line that does not parse.  A line
\* appended after the compaction has read the log is late: it does not survive the
\* replacement.
AppendAuditLine ==
    /\ OfCommands < MaxAppends
    /\ \E e \in Entries \cup {Junk} :
          /\ log' = Append(log, e)
          /\ appended' = [appended EXCEPT ![e, Compacting] = @ + 1]
    /\ UNCHANGED <<summary, torn, compactor, mishap, runs>>

----------------------------------------------------------------------------
(* CompactAuditFile.                                                       *)

Keep(lines) == IF Len(lines) < KeepTailLines THEN Len(lines) ELSE KeepTailLines

\* What stays in the log: unparsable lines, and the tail.
Retained(lines) ==
    LET head == Len(lines) - Keep(lines) IN
    SelectSeq(SubSeq(lines, 1, head), LAMBDA l : l = Junk) \o SubSeq(lines, head + 1, Len(lines))

\* A log above the read limit is refused, and the command ends.
CompactRefuses ==
    /\ compactor.at = "off" /\ runs < MaxRuns
    /\ runs' = runs + 1
    /\ LineBytes * Len(log) > MaxAuditReadBytes
    /\ compactor' = [Off EXCEPT !.at = "refused"]
    /\ UNCHANGED <<log, summary, torn, appended, mishap>>

\* The log does not exist, or cannot be read.
CompactCannotRead == compactor.at = "off" /\ UNCHANGED auditVars

RefusedEnds ==
    /\ compactor.at = "refused"
    /\ compactor' = Off
    /\ UNCHANGED <<log, summary, torn, appended, mishap, runs>>

\* The log is read.  Below the thresholds, or if nothing can be left out, the command
\* goes on to the fold.
CompactReads ==
    /\ compactor.at = "off" /\ runs < MaxRuns
    /\ runs' = runs + 1
    /\ LineBytes * Len(log) <= MaxAuditReadBytes
    /\ compactor' = IF ShouldCompactAuditFile(log) /\ Retained(log) # log
                    THEN [Off EXCEPT !.at = "temp",
                                     !.text = Append(Retained(log), "audit.compact"),
                                     !.counts = SummarizeAuditLines(log, Len(log) - Keep(log))]
                    ELSE [Off EXCEPT !.at = "fold"]
    /\ UNCHANGED <<log, summary, torn, appended, mishap>>

\* Mutant of CompactWritesTemp: the log is replaced before the summary has the counts.
CompactReplacesFirst ==
    /\ compactor.at = "temp"
    /\ log' = compactor.text
    /\ appended' = [appended EXCEPT !["audit.compact", FALSE] = @ + 1]
    /\ compactor' = [compactor EXCEPT !.at = "summary", !.before = Len(summary)]
    /\ UNCHANGED <<summary, torn, mishap, runs>>

\* The temporary file is written, and the summary's size looked up; a size that cannot
\* be read is taken to be 0.
CompactWritesTemp ==
    /\ compactor.at = "temp"
    /\ \/ \E size \in {Len(summary), 0} :
             compactor' = [compactor EXCEPT !.at = "summary", !.before = size]
       \/ compactor' = Off
    /\ UNCHANGED <<log, summary, torn, appended, mishap, runs>>

\* A line after one that was cut short becomes part of it.
WithLine(line) == IF torn THEN summary ELSE Append(summary, line)

\* The counts are appended to the summary.  A write that fails may leave part of a line.
CompactAppendsSummary ==
    /\ compactor.at = "summary"
    /\ \/ /\ summary' = WithLine(compactor.counts)
          /\ torn' = FALSE
          /\ compactor' = [compactor EXCEPT !.at = "replace"]
          /\ UNCHANGED mishap
       \/ /\ summary' = WithLine(Junk)
          /\ torn' = TRUE
          /\ compactor' = Off
          /\ mishap' = mishap \cup {"torn"}
       \/ compactor' = Off /\ UNCHANGED <<summary, torn, mishap>>
    /\ UNCHANGED <<log, appended, runs>>

\* The temporary file, which ends with the compaction's own record, replaces the log.
CompactReplaces ==
    /\ compactor.at = "replace"
    /\ log' = compactor.text
    /\ appended' = [appended EXCEPT !["audit.compact", FALSE] = @ + 1]
    /\ compactor' = [Off EXCEPT !.at = "fold"]
    /\ UNCHANGED <<summary, torn, mishap, runs>>

\* The replacement fails: the summary is cut back to the size it had, which may end with a
\* line cut short.  If that fails too, unnoticed, the next compaction counts again.
CompactRollsBack ==
    /\ compactor.at = "replace"
    /\ \/ /\ summary' = SubSeq(summary, 1, compactor.before)
          /\ mishap' = IF compactor.before < Len(summary) - 1 THEN mishap \cup {"blind"} ELSE mishap
          /\ torn' = (compactor.before = Len(summary))
       \/ mishap' = mishap \cup {"counted"} /\ UNCHANGED <<summary, torn>>
    /\ compactor' = Off
    /\ UNCHANGED <<log, appended, runs>>

----------------------------------------------------------------------------
(* FoldAuditSummaryFile, which the command calls next.                     *)

Folded(lines) == <<Merged(lines)>> \o SelectSeq(lines, LAMBDA l : l = Junk)

\* The summary is read, if it has reached its limit; it is rewritten if that saves lines.
FoldReads ==
    /\ compactor.at = "fold"
    /\ compactor' = IF /\ SummaryMaxLines > 0 /\ Len(summary) >= SummaryMaxLines
                       /\ CountedLines(summary) # {}
                       /\ Len(Folded(summary)) < Len(summary)
                    THEN [Off EXCEPT !.at = "refold", !.text = Folded(summary)]
                    ELSE Off
    /\ UNCHANGED <<log, summary, torn, appended, mishap, runs>>

\* The temporary file replaces the summary, or a file operation fails.
FoldReplaces ==
    /\ compactor.at = "refold"
    /\ \/ /\ summary' = compactor.text
          /\ torn' = FALSE
          /\ compactor' = [Off EXCEPT !.at = "note"]
       \/ compactor' = Off /\ UNCHANGED <<summary, torn>>
    /\ UNCHANGED <<log, appended, mishap, runs>>

\* The fold is noted in the log, if that succeeds.
FoldNotes ==
    /\ compactor.at = "note"
    /\ \/ /\ log' = Append(log, "audit.fold")
          /\ appended' = [appended EXCEPT !["audit.fold", FALSE] = @ + 1]
       \/ UNCHANGED <<log, appended>>
    /\ compactor' = Off
    /\ UNCHANGED <<summary, torn, mishap, runs>>

----------------------------------------------------------------------------

\* The command ends between two steps; once the summary has the counts, they are counted
\* again by the next one.
KillCompactor ==
    /\ compactor.at # "off"
    /\ mishap' = IF compactor.at = "replace" THEN mishap \cup {"counted"} ELSE mishap
    /\ compactor' = Off
    /\ UNCHANGED <<log, summary, torn, appended, runs>>

CompactFile ==
    \/ CompactCannotRead \/ CompactRefuses \/ RefusedEnds \/ CompactReads
    \/ CompactWritesTemp \/ CompactAppendsSummary \/ CompactReplaces \/ CompactRollsBack

FoldFile == FoldReads \/ FoldReplaces \/ FoldNotes

AuditNext == AppendAuditLine \/ CompactFile \/ FoldFile \/ KillCompactor

AuditSpec == AuditInit /\ [][AuditNext]_auditVars

----------------------------------------------------------------------------
(* Properties.                                                             *)

Line == Parsable \cup {Junk}

\* Types of the files and of the command.
AuditTypeOK ==
    /\ log \in Seq(Line)
    /\ \A i \in DOMAIN summary : summary[i] = Junk \/ summary[i] \in [Parsable -> Nat]
    /\ torn \in BOOLEAN
    /\ compactor.at \in {"off", "refused", "temp", "summary", "replace", "fold", "refold", "note"}
    /\ appended \in [Line \X BOOLEAN -> Nat]
    /\ runs \in 0..MaxRuns
    /\ mishap \subseteq {"torn", "blind", "counted"}

\* The counts that the summary has at rest: not those of a replacement under way.
Settled == IF compactor.at = "replace" THEN SubSeq(summary, 1, Len(summary) - 1) ELSE summary

Accounted(e) == Occurrences(log, e) + Merged(Settled)[e]

AllOf(e) == appended[e, FALSE] + appended[e, TRUE]

\* Every entry ever appended is in the log or in the summary's counts, once, and no line
\* that does not parse is lost, through compactions, folds and failed file operations; only
\* lines appended while the log is being compacted may go, and those before them do not go
\* with them.  The exceptions: a write of the summary that leaves part of a line, a roll-back
\* to a size that could not be read, and counts that stay in the summary of a log that was
\* not replaced, as the command was killed there or the roll-back failed as well.  That last
\* one may count entries twice, but never loses one: the summary is written before the log
\* is replaced.
EntriesConserved ==
    /\ mishap = {} =>
          /\ \A e \in Parsable : Accounted(e) \in appended[e, FALSE]..AllOf(e)
          /\ Occurrences(log, Junk) \in appended[Junk, FALSE]..AllOf(Junk)
    /\ mishap \subseteq {"counted"} =>
          \A e \in Parsable : Occurrences(log, e) + Merged(summary)[e] >= appended[e, FALSE]

\* A log that has reached a threshold is not refused by the compaction that the
\* threshold calls for.
ReachedIsCompacted ==
    [][compactor.at = "off" /\ compactor'.at = "refused" => ~ShouldCompactAuditFile(log)]_auditVars
=============================================================================
