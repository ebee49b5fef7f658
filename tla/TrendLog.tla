------------------------------ MODULE TrendLog ------------------------------
(***************************************************************************)
(* One BACnet Trend Log: its row and records in SQLite (db/database.py),   *)
(* the counts its live object shows on the wire (simulation/engine.py) and *)
(* the routes that edit it (api/routers/trend_logs.py).  Two writers take  *)
(* samples, the tick and the trigger route.  Every database call opens a   *)
(* connection of its own and runs on a worker thread: add_trend_record     *)
(* reads the row before its first INSERT or DELETE opens the transaction,  *)
(* so another call may commit in between.                                  *)
(***************************************************************************)
EXTENDS Integers, Sequences, FiniteSetsExt, SequencesExt

CONSTANTS
  LogWriters,  \* callers of _sample_trend_log
  BufferSizes, \* buffer_size an operator chooses
  NoLog,       \* nothing read; no row
  MaxTotal,    \* bound on total_record_count
  MaxLogEdits  \* bound on updates, clears and reloads

ASSUME TrendAssumption ==
  /\ BufferSizes \subseteq Nat \ {0} /\ MaxTotal \in Nat /\ MaxLogEdits \in Nat

VARIABLES
  log,        \* trend_logs: size, stop, count, total
  records,    \* trend_log_records: sequence numbers, oldest row first
  taking,     \* by writer: the row add_trend_record has read
  refreshing, \* by writer: where _sample_trend_log is after the insert, and what it read back
  inserting,  \* recordCount and totalRecordCount of the live object
  clearing,   \* the clear route is between the database and the object
  logEdits,
  overlapped  \* history: a call committed while another held the row it read

tlVars == <<log, records, taking, refreshing, inserting, clearing, logEdits, overlapped>>

Lowest == Min(ToSet(records))
WithoutLowest == IF records = <<>> THEN records ELSE RemoveFirst(records, Lowest)

Resting == [step |-> "idle", count |-> 0, total |-> 0]

TrendInit ==
  /\ \E size \in BufferSizes, stop \in BOOLEAN :
       log = [size |-> size, stop |-> stop, count |-> 0, total |-> 0]
  /\ records = <<>>
  /\ taking = [w \in LogWriters |-> NoLog]
  /\ refreshing = [w \in LogWriters |-> Resting]
  /\ inserting = [count |-> 0, total |-> 0]
  /\ clearing = FALSE
  /\ logEdits = 0
  /\ overlapped = FALSE

IdleWriter(w) == taking[w] = NoLog /\ refreshing[w].step = "idle"
SomeoneReads == \E w \in LogWriters : taking[w] # NoLog

\* add_trend_record, up to the first statement that writes: full and
\* stop_when_full ends it with nothing stored.
TakeSample(w) ==
  /\ IdleWriter(w) /\ log.total < MaxTotal
  /\ ~(log.stop /\ log.count >= log.size)
  /\ taking' = [taking EXCEPT ![w] = log]
  /\ UNCHANGED <<log, records, refreshing, inserting, clearing, logEdits, overlapped>>

\* Mutant: a sequence number is one more than the records there are.
StoreByCount(w) ==
  LET cfg == taking[w]
      full == cfg.count >= cfg.size
      count == IF full THEN cfg.count ELSE cfg.count + 1
  IN /\ cfg # NoLog
     /\ records' = Append(IF full THEN WithoutLowest ELSE records, count)
     /\ log' = [log EXCEPT !.count = count, !.total = cfg.total + 1]
     /\ taking' = [taking EXCEPT ![w] = NoLog]
     /\ refreshing' = [refreshing EXCEPT ![w].step = "stored"]
     /\ overlapped' = (overlapped \/ \E v \in LogWriters \ {w} : taking[v] # NoLog)
     /\ UNCHANGED <<inserting, clearing, logEdits>>

\* Its transaction: everything is computed from the row that was read.
StoreRecord(w) ==
  LET cfg == taking[w]
      full == cfg.count >= cfg.size
  IN /\ cfg # NoLog
     /\ records' = Append(IF full THEN WithoutLowest ELSE records, cfg.total + 1)
     /\ log' = [log EXCEPT !.count = IF full THEN cfg.count ELSE cfg.count + 1,
                           !.total = cfg.total + 1]
     /\ taking' = [taking EXCEPT ![w] = NoLog]
     /\ refreshing' = [refreshing EXCEPT ![w].step = "stored"]
     /\ overlapped' = (overlapped \/ \E v \in LogWriters \ {w} : taking[v] # NoLog)
     /\ UNCHANGED <<inserting, clearing, logEdits>>

\* _sample_trend_log reads the row back on a worker thread ...
ReadBack(w) ==
  /\ refreshing[w].step = "stored"
  /\ refreshing' = [refreshing EXCEPT ![w] = [step |-> "read", count |-> log.count, total |-> log.total]]
  /\ UNCHANGED <<log, records, taking, inserting, clearing, logEdits, overlapped>>

\* ... and shows it on the wire, on the event loop.
ShowCounts(w) ==
  /\ refreshing[w].step = "read"
  /\ inserting' = [count |-> refreshing[w].count, total |-> refreshing[w].total]
  /\ refreshing' = [refreshing EXCEPT ![w] = Resting]
  /\ UNCHANGED <<log, records, taking, clearing, logEdits, overlapped>>

\* POST .../clear: clear_trend_log_records ...
ClearRecords ==
  /\ ~clearing /\ logEdits < MaxLogEdits
  /\ records' = <<>> /\ log' = [log EXCEPT !.count = 0]
  /\ clearing' = TRUE
  /\ logEdits' = logEdits + 1
  /\ overlapped' = (overlapped \/ SomeoneReads)
  /\ UNCHANGED <<taking, refreshing, inserting>>

\* ... then refresh_trend_log_buffer_empty.
ShowEmpty ==
  /\ clearing
  /\ inserting' = [inserting EXCEPT !.count = 0]
  /\ clearing' = FALSE
  /\ UNCHANGED <<log, records, taking, refreshing, logEdits, overlapped>>

\* PUT /trend-logs/{id}: the records stay, and so does their count.  The
\* reload it schedules is Rebuild.
UpdateLog(size, stop) ==
  /\ logEdits < MaxLogEdits
  /\ log' = [log EXCEPT !.size = size, !.stop = stop]
  /\ logEdits' = logEdits + 1
  /\ UNCHANGED <<records, taking, refreshing, inserting, clearing, overlapped>>

\* start() builds the live object from the row.
Rebuild ==
  /\ logEdits < MaxLogEdits
  /\ inserting' = [count |-> log.count, total |-> log.total]
  /\ logEdits' = logEdits + 1
  /\ UNCHANGED <<log, records, taking, refreshing, clearing, overlapped>>

TrendNext ==
  \/ \E w \in LogWriters : TakeSample(w) \/ StoreRecord(w) \/ ReadBack(w) \/ ShowCounts(w)
  \/ ClearRecords \/ ShowEmpty \/ Rebuild
  \/ \E size \in BufferSizes, stop \in BOOLEAN : UpdateLog(size, stop)

TrendSpec == TrendInit /\ [][TrendNext]_tlVars

---------------------------------------------------------------------------
Increasing(s) == \A i \in 1..Len(s) - 1 : s[i] < s[i + 1]

\* "sequence numbers never reuse, even across a clear" (clear_trend_log_records),
\* and record_count, which add_trend_record trusts to tell whether the buffer
\* is full, is the number of records: as long as no two calls overlapped.  The
\* history variable is not a restriction of the model: overlapping calls are
\* explored, and they do break both.
SequenceNeverReused ==
  ~overlapped => /\ Increasing(records)
                 /\ log.count = Len(records)
                 /\ \A i \in 1..Len(records) : records[i] <= log.total
=============================================================================
