----------------------------- MODULE ReportFile -----------------------------
(***************************************************************************)
(* How a native crash report gets into its file: StartDaemon makes the     *)
(* MmapGuard over native_log.temp, DaemonCreateReport writes the report    *)
(* into it piece by piece, flushes it and deletes the guard, and the       *)
(* process may be killed in between and be started again.                  *)
(***************************************************************************)
EXTENDS MmapGuard

CONSTANTS
    Char,           \* the characters of a report
    Device,         \* the devices and processes a report may be about
    Contents(_),    \* the contents that are handed to Write for a device
    MaxStart        \* how often the monitor process is started

\* A content is a line of RecordNewline or RecordLine: snprintf ends it, so a
\* null is nowhere but in its last place.
ASSUME ReportAssumption ==
    /\ Capacity \in Nat /\ Nul \in Char
    /\ \A d \in Device :
          LET contents == Contents(d)
          IN /\ contents \in Seq(Seq(Char))
             /\ \A i \in 1..Len(contents) :
                   \A j \in 1..(Len(contents[i]) - 1) : contents[i][j] # Nul

VARIABLES
    dev,        \* what there is to report
    buffer,     \* native_log.temp
    pc,         \* "down", "ready", "record", "flushed", "undefined"
    done,       \* how many contents have been written
    file,       \* the report file: each report has its own
    starts

vars == <<dev, buffer, pc, done, file, starts>>

Init ==
    /\ dev \in Device
    /\ buffer = [i \in Index |-> Nul]
    /\ pc = "down" /\ done = 0 /\ file = <<>> /\ starts = 0

StartDaemon ==
    /\ pc = "down" /\ starts < MaxStart
    /\ starts' = starts + 1
    /\ pc' = "ready"
    /\ buffer' = NewBuffer(buffer)
    /\ file' = <<>>
    /\ UNCHANGED <<dev, done>>

\* A message has come and the crashed thread is attached.
Begin ==
    /\ pc = "ready"
    /\ pc' = "record" /\ done' = 0
    /\ UNCHANGED <<dev, buffer, file, starts>>

\* One call of RecordNewline or RecordLine.
Record ==
    /\ pc = "record" /\ done < Len(Contents(dev))
    /\ LET content == Contents(dev)[done + 1]
       IN IF Fits(buffer, content)
            THEN buffer' = Write(buffer, content) /\ done' = done + 1 /\ UNCHANGED pc
            ELSE pc' = "undefined" /\ UNCHANGED <<buffer, done>>
    /\ UNCHANGED <<dev, file, starts>>

\* Flush, delete mmap_guard.
FlushReport ==
    /\ pc = "record" /\ done = Len(Contents(dev))
    /\ IF Terminated(buffer)
         THEN file' = Flush(buffer, file) /\ pc' = "flushed"
         ELSE pc' = "undefined" /\ UNCHANGED file
    /\ UNCHANGED <<dev, buffer, done, starts>>

\* The monitor process is killed; the mapped file keeps what was written.
Kill ==
    /\ pc # "down"
    /\ pc' = "down" /\ done' = 0 /\ file' = <<>>
    /\ UNCHANGED <<dev, buffer, starts>>

Next == StartDaemon \/ Begin \/ Record \/ FlushReport \/ Kill

Spec == Init /\ [][Next]_vars
-----------------------------------------------------------------------------
\* What a content adds to the string: the characters before its null.
Shown(content) ==
    IF content # <<>> /\ content[Len(content)] = Nul
      THEN SubSeq(content, 1, Len(content) - 1) ELSE content

\* The text of the first k contents, for every k.
Text(contents) ==
    LET upto[k \in 0..Len(contents)] ==
          IF k = 0 THEN <<>> ELSE upto[k - 1] \o Shown(contents[k])
    IN upto

\* While a report is written the string in the mapped file is the text written
\* so far, no null of RecordLine cuts it and no write overlaps another; and a
\* report file holds one whole report and nothing else, also when an earlier
\* process was killed while it wrote one (RecordLine, hawkeye_private.cpp:176;
\* MmapGuard, mmap_guard.cpp:28, :65).
FileIsWholeReport ==
    LET text == Text(Contents(dev))
    IN /\ pc = "record" => CString(buffer) = text[done]
       /\ pc = "flushed" => file = text[Len(Contents(dev))]

=============================================================================
