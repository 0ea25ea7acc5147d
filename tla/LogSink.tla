------------------------------- MODULE LogSink -------------------------------
(***************************************************************************)
(* The scan log: scans put lines into a bounded channel that never blocks  *)
(* them, one goroutine stores the lines in batches, Close flushes, and the *)
(* page of a scan polls its lines with a cursor                            *)
(* (pipeline/log_sink_sqlite.go, storage/scan_logs.go).  A line is the     *)
(* scan it belongs to and its number; its id is its place in the table,    *)
(* which AUTOINCREMENT never gives out twice.                              *)
(***************************************************************************)
EXTENDS Naturals, Sequences, FiniteSets, SequencesExt, FiniteSetsExt

CONSTANTS Writers, Lines, Capacity, BatchSize, PageLimit, Watched

ASSUME LogAssumption ==
  /\ Lines \in Nat /\ Capacity \in Nat \ {0} /\ BatchSize \in Nat \ {0} /\ PageLimit \in Nat \ {0}
  /\ Watched \in Writers /\ IsFiniteSet(Writers)

VARIABLES sent,      \* lines whose enqueue has returned, per scan
          full,      \* scans whose send found the channel full
          ch, batch,
          drain,     \* the goroutine: run, drain (stop seen), last (channel empty), done
          flushing,  \* it is in InsertScanLogs
          table,     \* scan_logs
          failed,    \* lines of batches that were not stored
          dropped,   \* droppedTotal
          closed,    \* Close: no, waiting, returned
          before,    \* sent when Close was called
          cursor, shown

logVars == <<sent, full, ch, batch, drain, flushing, table, failed, dropped, closed, before, cursor, shown>>

Line == Writers \X (1..Lines)

LogTypeOK ==
  /\ sent \in [Writers -> 0..Lines] /\ full \subseteq Writers
  /\ ch \in Seq(Line) /\ Len(ch) <= Capacity
  /\ batch \in Seq(Line) /\ Len(batch) <= BatchSize
  /\ drain \in {"run", "drain", "last", "done"} /\ flushing \in BOOLEAN
  /\ table \in Seq(Line) /\ shown \in Seq(Line) /\ cursor \in 0..Len(table)
  /\ failed \in Nat /\ dropped \in Nat
  /\ closed \in {"no", "waiting", "returned"} /\ before \in [Writers -> 0..Lines]

LogInit ==
  /\ sent = [s \in Writers |-> 0] /\ full = {}
  /\ ch = <<>> /\ batch = <<>> /\ drain = "run" /\ flushing = FALSE
  /\ table = <<>> /\ failed = 0 /\ dropped = 0
  /\ closed = "no" /\ before = [s \in Writers |-> 0]
  /\ cursor = 0 /\ shown = <<>>

\* enqueue: a send that does not wait ...
Send(s) ==
  /\ sent[s] < Lines /\ s \notin full
  /\ IF Len(ch) < Capacity
     THEN ch' = Append(ch, <<s, sent[s] + 1>>) /\ sent' = [sent EXCEPT ![s] = @ + 1] /\ UNCHANGED full
     ELSE full' = full \cup {s} /\ UNCHANGED <<ch, sent>>
  /\ UNCHANGED <<batch, drain, flushing, table, failed, dropped, closed, before, cursor, shown>>

\* ... or else the oldest line goes, if the goroutine has not taken it meanwhile, and the send is retried.
DropOldest(s) ==
  /\ s \in full /\ full' = full \ {s}
  /\ IF ch # <<>> THEN ch' = Tail(ch) /\ dropped' = dropped + 1 ELSE UNCHANGED <<ch, dropped>>
  /\ UNCHANGED <<sent, batch, drain, flushing, table, failed, closed, before, cursor, shown>>

Receive ==
  /\ drain \in {"run", "drain"} /\ ~flushing /\ ch # <<>>
  /\ batch' = Append(batch, Head(ch)) /\ ch' = Tail(ch)
  /\ flushing' = (Len(batch') >= BatchSize)
  /\ UNCHANGED <<sent, full, drain, table, failed, dropped, closed, before, cursor, shown>>

FlushTick ==
  /\ drain = "run" /\ ~flushing /\ batch # <<>>
  /\ flushing' = TRUE
  /\ UNCHANGED <<sent, full, ch, batch, drain, table, failed, dropped, closed, before, cursor, shown>>

\* (Mutant: the goroutine leaves when it sees stop.)
SeeStopLeaves ==
  /\ drain = "run" /\ ~flushing /\ closed # "no"
  /\ drain' = "last" /\ flushing' = TRUE
  /\ UNCHANGED <<sent, full, ch, batch, table, failed, dropped, closed, before, cursor, shown>>

SeeStop ==
  /\ drain = "run" /\ ~flushing /\ closed # "no"
  /\ drain' = "drain"
  /\ UNCHANGED <<sent, full, ch, batch, flushing, table, failed, dropped, closed, before, cursor, shown>>

Drained ==
  /\ drain = "drain" /\ ~flushing /\ ch = <<>>
  /\ drain' = "last" /\ flushing' = TRUE
  /\ UNCHANGED <<sent, full, ch, batch, table, failed, dropped, closed, before, cursor, shown>>

\* InsertScanLogs stores all lines of the batch or none; the batch is emptied in both cases.
Insert ==
  /\ flushing /\ flushing' = FALSE
  /\ \/ table' = table \o batch /\ UNCHANGED failed
     \/ failed' = failed + Len(batch) /\ UNCHANGED table
  /\ batch' = <<>>
  /\ drain' = IF drain = "last" THEN "done" ELSE drain
  /\ UNCHANGED <<sent, full, ch, dropped, closed, before, cursor, shown>>

Close ==
  /\ closed = "no" /\ closed' = "waiting" /\ before' = sent
  /\ UNCHANGED <<sent, full, ch, batch, drain, flushing, table, failed, dropped, cursor, shown>>

CloseReturns ==
  /\ closed = "waiting" /\ drain = "done" /\ closed' = "returned"
  /\ UNCHANGED <<sent, full, ch, batch, drain, flushing, table, failed, dropped, before, cursor, shown>>

\* ListScanLogs: the ids beyond the cursor that are the scan's, in order, no more than the limit.
Page ==
  LET ids == {i \in (cursor + 1)..Len(table) : table[i][1] = Watched}
  IN {i \in ids : Cardinality({j \in ids : j < i}) < PageLimit}

\* ORDER BY id ASC
InOrder(ids) == CHOOSE f \in [1..Cardinality(ids) -> ids] : \A i, j \in DOMAIN f : i < j => f[i] < f[j]

Shown(ids) == [i \in 1..Cardinality(ids) |-> table[InOrder(ids)[i]]]

\* (Mutant: next is the end of the table, not the last line of the page.)
NextCursorEnd(ids) == Len(table)

NextCursor(ids) == IF ids = {} THEN cursor ELSE Max(ids)

\* handleScanLogs answers a poll, and the page asks again from next.
Poll ==
  /\ cursor' = NextCursor(Page)
  /\ shown' = shown \o Shown(Page)
  /\ UNCHANGED <<sent, full, ch, batch, drain, flushing, table, failed, dropped, closed, before>>

LogNext ==
  \/ \E s \in Writers : Send(s) \/ DropOldest(s)
  \/ Receive \/ FlushTick \/ SeeStop \/ Drained \/ Insert \/ Close \/ CloseReturns \/ Poll

LogSpec == LogInit /\ [][LogNext]_logVars

-----------------------------------------------------------------------------
(* Properties *)

\* The lines that are neither stored nor on their way are counted, as dropped or in a failed batch, and
\* when Close has returned none of the lines enqueued before it was called is left behind, although
\* scans go on writing while it drains (the comment of Close in pipeline/log_sink_sqlite.go).
CloseFlushes ==
  /\ MapThenSumSet(LAMBDA s : sent[s], Writers) = Len(ch) + Len(batch) + Len(table) + failed + dropped
  /\ closed = "returned" => batch = <<>> /\ \A i \in 1..Len(ch) : ch[i][2] > before[ch[i][1]]

\* The lines of each scan are in the order in which it wrote them, none of them twice.
Rising(lines) ==
  \A i, j \in 1..Len(lines) : i < j /\ lines[i][1] = lines[j][1] => lines[i][2] < lines[j][2]

\* The page of a scan has been shown each of its stored lines up to the cursor, once and in the order in
\* which the scan wrote them, whatever other scans, dropped lines and failed batches came between.
ReaderSeesAll ==
  /\ ToSet(shown) = {table[i] : i \in {j \in 1..cursor : table[j][1] = Watched}}
  /\ Rising(shown) /\ Rising(table)
=============================================================================
