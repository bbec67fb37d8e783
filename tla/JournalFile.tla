----------------------------- MODULE JournalFile -----------------------------
(***************************************************************************)
(* adapters/logging/journal.py and cli/report.py: one JSONL file, and what *)
(* append, read and summarize do with it.                                  *)
(*                                                                         *)
(* append writes a line and its newline to a buffered file opened for      *)
(* appending, and flushes.  The line reaches the file in one piece, at its *)
(* end, whoever else writes to it; a crash, or an OSError from a full      *)
(* disk, leaves any prefix.  redact_mapping, which append applies first,   *)
(* leaves a trade's fields as they are: none holds a credential.           *)
(***************************************************************************)
EXTENDS Integers, Sequences, SequencesExt

\* A file that does not exist reads as an empty one.
EmptyFile == [lines |-> << >>, terminated |-> TRUE]

\* The part of a record that a torn write leaves.
Torn == [session |-> 0, order_id |-> 0, outcome |-> "torn", pnl |-> 0, date |-> 0]

\* Mutant: the file is opened for writing, not for appending.
Truncates(file, fragment, newline) ==
    [lines |-> << <<fragment>> >>, terminated |-> newline]

\* The file after a fragment is written at its end.  A line is the sequence
\* of its fragments; the last line may lack its newline.
Extended(file, fragment, newline) ==
    [lines      |-> IF file.terminated THEN Append(file.lines, <<fragment>>)
                    ELSE [file.lines EXCEPT ![Len(file.lines)] = Append(@, fragment)],
     terminated |-> newline]

\* append returns.
Appended(file, record) == Extended(file, record, TRUE)

\* append does not return: nothing was written, a part of the line, the line
\* without its newline, or all of it.
Interrupted(file, record) ==
    {file, Extended(file, Torn, FALSE), Extended(file, record, FALSE), Appended(file, record)}

\* Mutant: reading stops at the first line that is not JSON.
StopsAtTorn(file, wanted) ==
    LET bad  == {i \in DOMAIN file.lines : Len(file.lines[i]) # 1 \/ file.lines[i][1] = Torn}
        good == IF bad = {} THEN file.lines ELSE SubSeq(file.lines, 1, Min(bad) - 1)
    IN [i \in DOMAIN good |-> good[i][1]]

\* Mutant: `until' is taken as exclusive.
ExcludesUntil(file, wanted) ==
    LET kept  == IF wanted = {} THEN {} ELSE wanted \ {Max(wanted)}
        lines == SelectSeq(file.lines, LAMBDA line : Len(line) = 1 /\ line[1].date \in kept)
    IN [i \in DOMAIN lines |-> lines[i][1]]

\* A line is JSON when it is one whole record, with or without its newline;
\* `wanted' are the days from `since' to `until'.
IsRead(line, wanted) == Len(line) = 1 /\ line[1] # Torn /\ line[1].date \in wanted

\* read's loop over the lines: those that are JSON, in order, if their date is
\* wanted; the others are skipped.
read(file, wanted) ==
    LET records[n \in 0..Len(file.lines)] ==
          IF n = 0 THEN << >>
          ELSE IF IsRead(file.lines[n], wanted) THEN Append(records[n - 1], file.lines[n][1])
          ELSE records[n - 1]
    IN records[Len(file.lines)]

\* One turn of summarize's loop.
Tally(total, record) ==
    [trade_count |-> total.trade_count + 1,
     win_count   |-> total.win_count + (IF record.outcome = "WIN" THEN 1 ELSE 0),
     loss_count  |-> total.loss_count + (IF record.outcome = "LOSS" THEN 1 ELSE 0),
     tie_count   |-> total.tie_count + (IF record.outcome = "TIE" THEN 1 ELSE 0),
     net_pnl     |-> total.net_pnl + record.pnl]

NoTrades == [trade_count |-> 0, win_count |-> 0, loss_count |-> 0, tie_count |-> 0, net_pnl |-> 0]

summarize(records) ==
    LET total[n \in 0..Len(records)] ==
          IF n = 0 THEN NoTrades ELSE Tally(total[n - 1], records[n])
    IN total[Len(records)]
=============================================================================
