------------------------------ MODULE PathLog ------------------------------
(***************************************************************************)
(* The rolling log of path outcomes (src/src/path_stats.rs).  A run        *)
(* appends one line to path-stats.jsonl and then trims the file: it reads  *)
(* it, writes the newest MAX_LINES to a file of a fixed second name and    *)
(* renames that over the log.  Names and the files behind them are kept    *)
(* apart, as a run that has a file open goes on writing to it.             *)
(*                                                                         *)
(* Neither file is buffered: a file is the sequence of what single writes  *)
(* left in it, a piece of a run's line or the end of a line.               *)
(***************************************************************************)
EXTENDS Naturals, Sequences, FiniteSets

CONSTANTS Writer,      \* runs that record one sample each
          Chunks,      \* Chunks[w]: in how many writes the text of w's line goes out
          MaxLines,    \* MAX_LINES
          MaxOverlap,  \* bound on runs at work at the same time
          MaxCrash     \* bound on runs that die or give up on an error

VARIABLES logName, tmpName,   \* file each name stands for, 0 when it does not exist
          content,            \* contents of each file, in the order they were created
          writer,             \* where each run is, its open file, its writes to it
          kept,               \* what each run means to keep
          by,                 \* the run that last opened the log, when no other was at
                              \* work then and none opened it since
          base,               \* what that run found in the log
          crashed             \* number of runs that died or gave up

logVars == <<logName, tmpName, content, writer, kept, by, base, crashed>>

Nobody == "nobody"
NL     == "end of line"
Hole   == "zeros"            \* what a write beyond the end of a file leaves before it

Line(w) == Append([i \in 1..Chunks[w] |-> w], NL)
Text(n) == IF n = 0 THEN <<>> ELSE content[n]
Active(w) == writer[w].at \notin {"off", "done", "dead"}
NewFile == Len(content) + 1

Init ==
    /\ logName = 0 /\ tmpName = 0 /\ content = <<>>
    /\ writer = [w \in Writer |-> [at |-> "off", file |-> 0, n |-> 0]]
    /\ kept = [w \in Writer |-> <<>>]
    /\ by = Nobody /\ base = <<>> /\ crashed = 0

Goto(w, s, f) == writer' = [writer EXCEPT ![w] = [at |-> s, file |-> f, n |-> 0]]
Wrote(w) == writer' = [writer EXCEPT ![w].n = @ + 1]

(* `record_sample`: open for appending, creating it when it is missing.    *)
Open(w) ==
    /\ writer[w].at = "off" /\ Cardinality({v \in Writer : Active(v)}) < MaxOverlap
    /\ IF logName = 0 THEN logName' = NewFile /\ content' = Append(content, <<>>)
                      ELSE UNCHANGED <<logName, content>>
    /\ IF \A v \in Writer : ~Active(v) THEN by' = w /\ base' = Text(logName)
                                       ELSE by' = Nobody /\ base' = <<>>
    /\ Goto(w, "append", logName')
    /\ UNCHANGED <<tmpName, kept, crashed>>

(* The serializer's writes, then the one that ends the line, each to the   *)
(* end of the file as it is then.                                          *)
AppendWrite(w) ==
    /\ writer[w].at = "append" /\ writer[w].n < Len(Line(w))
    /\ content' = [content EXCEPT ![writer[w].file] = Append(@, Line(w)[writer[w].n + 1])]
    /\ Wrote(w)
    /\ UNCHANGED <<logName, tmpName, kept, by, base, crashed>>

(* `read_lines`: the last line counts without its end, too.                *)
LineEnds(s) == {i \in 1..Len(s) : s[i] = NL}
LineCount(s) ==
    Cardinality(LineEnds(s)) + (IF s = <<>> \/ Len(s) \in LineEnds(s) THEN 0 ELSE 1)

(* `trim_file`: what it keeps starts where at most MAX_LINES are left, and *)
(* ends with the end of a line.                                            *)
From(s, i) == SubSeq(s, i + 1, Len(s))
Cuts(s)    == {i \in {0} \union LineEnds(s) : LineCount(From(s, i)) <= MaxLines}
Cut(s)     == CHOOSE i \in Cuts(s) : \A j \in Cuts(s) : i <= j
Ended(s)   == IF s = <<>> \/ Len(s) \in LineEnds(s) THEN s ELSE Append(s, NL)
Newest(s)  == IF LineCount(s) <= MaxLines THEN s ELSE Ended(From(s, Cut(s)))

TrimRead(w) ==
    /\ writer[w].at = "append" /\ writer[w].n = Len(Line(w))
    /\ IF LineCount(Text(logName)) <= MaxLines
         THEN Goto(w, "done", 0) /\ UNCHANGED kept
         ELSE Goto(w, "create", 0) /\ kept' = [kept EXCEPT ![w] = Newest(Text(logName))]
    /\ UNCHANGED <<logName, tmpName, content, by, base, crashed>>

(* The file of the second name is emptied if it exists.                    *)
TrimCreate(w) ==
    /\ writer[w].at = "create"
    /\ IF tmpName = 0 THEN tmpName' = NewFile /\ content' = Append(content, <<>>)
                      ELSE tmpName' = tmpName /\ content' = [content EXCEPT ![tmpName] = <<>>]
    /\ Goto(w, "fill", tmpName')
    /\ UNCHANGED <<logName, kept, by, base, crashed>>

(* A write at the run's own place in the file: what others have put beyond *)
(* that place stays.                                                       *)
Overwritten(s, i, c) ==
    [j \in 1..(IF i <= Len(s) THEN Len(s) ELSE i) |->
       IF j = i THEN c ELSE IF j <= Len(s) THEN s[j] ELSE Hole]

TrimWrite(w) ==
    /\ writer[w].at = "fill" /\ writer[w].n < Len(kept[w])
    /\ LET i == writer[w].n + 1 IN
       content' = [content EXCEPT ![writer[w].file] = Overwritten(@, i, kept[w][i])]
    /\ Wrote(w)
    /\ UNCHANGED <<logName, tmpName, kept, by, base, crashed>>

(* The rename fails, and the run is done, when another run renamed first.  *)
TrimRename(w) ==
    /\ writer[w].at = "fill" /\ writer[w].n = Len(kept[w])
    /\ IF tmpName = 0 THEN UNCHANGED <<logName, tmpName>>
                      ELSE logName' = tmpName /\ tmpName' = 0
    /\ Goto(w, "done", 0) /\ kept' = [kept EXCEPT ![w] = <<>>]
    /\ UNCHANGED <<content, by, base, crashed>>

(* Killed, or given up on an error of any of the calls.                    *)
Crash(w) ==
    /\ Active(w) /\ crashed < MaxCrash
    /\ crashed' = crashed + 1 /\ Goto(w, "dead", 0) /\ kept' = [kept EXCEPT ![w] = <<>>]
    /\ UNCHANGED <<logName, tmpName, content, by, base>>

Next ==
    \E w \in Writer :
      \/ Open(w) \/ AppendWrite(w) \/ TrimRead(w) \/ TrimCreate(w) \/ TrimWrite(w)
      \/ TrimRename(w) \/ Crash(w)

-----------------------------------------------------------------------------
(* A run nobody overlaps adds its line to what it found, in whatever state *)
(* other runs left that, and loses nothing but the oldest lines: wherever  *)
(* it dies, the log is what it was with a part of the line, or trimmed to  *)
(* its newest lines.                                                       *)
NewestKept ==
    by # Nobody =>
      \/ Text(logName) = Newest(base \o Line(by))
      \/ /\ writer[by].at # "done"
         /\ \E i \in 0..Len(Line(by)) : Text(logName) = base \o SubSeq(Line(by), 1, i)

(* However long overlapping runs have made the log, a run nobody overlaps  *)
(* leaves no more than MAX_LINES lines in it.                              *)
LogBounded ==
    by # Nobody /\ writer[by].at = "done" => LineCount(Text(logName)) <= MaxLines
=============================================================================
