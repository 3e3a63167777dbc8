------------------------------ MODULE ReportText ------------------------------
(***************************************************************************)
(* What the daemon writes into a native crash report: the dumper           *)
(* (hawkeye_dumper_utils.cpp), the unwinder (hawkeye_unwinder.cpp), the    *)
(* signal tables (hawkeye_signal_utils.cpp) and the collectors of          *)
(* hawkeye_private.cpp.                                                    *)
(*                                                                         *)
(* A text is a sequence of tokens <<kind, number>>, each of which stands   *)
(* for a piece of the wording and counts as one character.  Every operator *)
(* returns the sequence of the contents handed to MmapGuard::Write.  What  *)
(* the code reads (/proc, properties, logcat, ptrace) is a parameter.      *)
(***************************************************************************)
EXTENDS Integers, Sequences, FiniteSets, SequencesExt, FiniteSetsExt, TLC

CONSTANTS
    LogSize,            \* HAWKEYE_LOG_BUFFER_SIZE (1024)
    PropSize,           \* PROP_VALUE_MAX (92)
    NameSize,           \* process_name_buffer of another thread (64)
    CommSize,           \* proc_comm_content (16)
    MaxFrames,          \* HAWKEYE_MAX_FRAMES (128)
    MaxFds,             \* the descriptors listed (1024)
    TcpLimit,           \* the lines listed of tcp, tcp6, udp, udp6 (1024)
    IcmpLimit,          \* the lines listed of icmp, icmp6, unix (256)
    IntMax, LongMax     \* INT_MAX and LONG_MAX

T(kind) == <<kind, 0>>
NL == T("\n")
SP == T(" ")
NUL == T("NUL")

Cut(text, n) == SubSeq(text, 1, Min({Len(text), n}))

\* The concatenation of a sequence of sequences, by halves.
RECURSIVE Concat(_)
Concat(ss) ==
    IF Len(ss) <= 1 THEN (IF ss = <<>> THEN <<>> ELSE ss[1])
    ELSE LET h == Len(ss) \div 2
         IN Concat(SubSeq(ss, 1, h)) \o Concat(SubSeq(ss, h + 1, Len(ss)))

Each(s, Op(_)) == Concat([i \in 1..Len(s) |-> Op(s[i])])

\* Nothing is written for an empty text; the last character gives way to \n.
RecordNewline(text) ==
    IF text = <<>> THEN <<>> ELSE <<Append(Cut(text, LogSize - 1), NL)>>

\* The same with the terminating null in place of \n.
RecordLine(text) ==
    IF text = <<>> THEN <<>> ELSE <<Append(Cut(text, LogSize - 1), NUL)>>

Newlines(texts) == Each(texts, RecordNewline)
-----------------------------------------------------------------------------
(* Signals, by their numbers on Linux; the names of a signal's own codes   *)
(* are in the order of their numbers, from 1.                              *)

SIGILL == 4
SIGTRAP == 5
SIGABRT == 6
SIGBUS == 7
SIGFPE == 8
SIGSEGV == 11
SIGSTKFLT == 16
SIGSTOP == 19
SIGSYS == 31

SIGNALS_TO_CATCH ==
    {SIGABRT, SIGBUS, SIGFPE, SIGSEGV, SIGILL, SIGSTKFLT, SIGTRAP}

SigNames ==
    (SIGABRT :> "SIGABRT") @@ (SIGBUS :> "SIGBUS") @@ (SIGFPE :> "SIGFPE")
    @@ (SIGILL :> "SIGILL") @@ (SIGSEGV :> "SIGSEGV")
    @@ (SIGSTKFLT :> "SIGSTKFLT") @@ (SIGSTOP :> "SIGSTOP")
    @@ (SIGSYS :> "SIGSYS") @@ (SIGTRAP :> "SIGTRAP")

OwnCodes ==
    (SIGILL :> <<"ILL_ILLOPC", "ILL_ILLOPN", "ILL_ILLADR", "ILL_ILLTRP",
                 "ILL_PRVOPC", "ILL_PRVREG", "ILL_COPROC", "ILL_BADSTK">>)
    @@ (SIGBUS :> <<"BUS_ADRALN", "BUS_ADRERR", "BUS_OBJERR">>)
    @@ (SIGFPE :> <<"FPE_INTDIV", "FPE_INTOVF", "FPE_FLTDIV", "FPE_FLTOVF",
                    "FPE_FLTUND", "FPE_FLTRES", "FPE_FLTINV", "FPE_FLTSUB">>)
    @@ (SIGSEGV :> <<"SEGV_MAPERR", "SEGV_ACCERR", "SEGV_BNDERR", "SEGV_PKUERR",
                     "SEGV_ACCADI", "SEGV_ADIDERR", "SEGV_ADIPERR">>)
    @@ (SIGSYS :> <<"SYS_SECCOMP">>)
    @@ (SIGTRAP :> <<"TRAP_BRKPT", "TRAP_TRACE">>)

SICodes ==
    (0 :> "SI_USER") @@ (128 :> "SI_KERNEL") @@ (-1 :> "SI_QUEUE")
    @@ (-2 :> "SI_TIMER") @@ (-3 :> "SI_MESGQ") @@ (-4 :> "SI_ASYNCIO")
    @@ (-5 :> "SI_SIGIO") @@ (-6 :> "SI_TKILL") @@ (-7 :> "SI_DETHREAD")

HasSiAddr(signo, code) ==
    /\ code \notin {0, -1, -6}
    /\ signo \in {SIGBUS, SIGFPE, SIGILL, SIGSEGV, SIGTRAP}

GetSigName(signo) ==
    IF signo \in DOMAIN SigNames THEN SigNames[signo] ELSE "?"

GetSigCode(signo, code) ==
    IF signo \in DOMAIN OwnCodes /\ code \in DOMAIN OwnCodes[signo]
      THEN OwnCodes[signo][code]
    ELSE IF code \in DOMAIN SICodes THEN SICodes[code] ELSE "?"

DumpSignalInfo(signo, code) ==
    RecordNewline(<< <<"signal", signo>>, T(GetSigName(signo)),
                     T(GetSigCode(signo, code)),
                     T(IF HasSiAddr(signo, code) THEN "addr" ELSE "--------") >>)
-----------------------------------------------------------------------------
(* The registers: which of their lines end with \n, in the header of the   *)
(* crashed thread and in those of the others.                              *)

HeaderRegisters ==
    [arm    |-> <<FALSE, FALSE, FALSE, TRUE>>,
     arm64  |-> <<FALSE, FALSE, FALSE, FALSE, FALSE, FALSE, FALSE, TRUE, FALSE>>,
     x86    |-> <<TRUE, TRUE, TRUE, TRUE>>,
     x86_64 |-> <<FALSE, TRUE, FALSE, FALSE, FALSE, FALSE>>]

OtherRegisters ==
    [arm    |-> <<TRUE, FALSE, FALSE, FALSE>>,
     arm64  |-> <<TRUE, TRUE, TRUE, TRUE, TRUE, TRUE, TRUE, FALSE, FALSE>>,
     x86    |-> <<TRUE, TRUE, TRUE, TRUE>>,
     x86_64 |-> <<FALSE, FALSE, FALSE, TRUE, FALSE, FALSE>>]

RecordRegister(newline) ==
    IF newline THEN RecordNewline(<<T("registers")>>) ELSE RecordLine(<<T("registers")>>)

\* r: whether ptrace gave the registers.
DumpOtherThreadRegistersByPtrace(abi, r) ==
    IF r THEN Each(OtherRegisters[abi], RecordRegister) ELSE <<>>

\* A file of /proc: readable or not, and its content.
ReadFile(f, size) == [f EXCEPT !.text = IF f.ok THEN Cut(f.text, size - 1) ELSE f.text]

\* The name of the thread without its newline.  When comm cannot be read
\* proc_comm_content is what the stack held: text stands for that.
WriteProcessAndThreadInfo(tid, comm, cmdline, size) ==
    LET c == ReadFile(comm, CommSize)
        p == ReadFile(cmdline, size)
        name == IF c.ok /\ c.text # <<>> /\ Last(c.text) = NL THEN Front(c.text) ELSE c.text
    IN RecordNewline(<< <<"pid", tid>> >> \o name
                     \o (IF p.ok THEN p.text ELSE <<>>) \o <<T("<<<")>>)

\* Before API level 21 the list is put together from two others.
GetABIs(dev) ==
    IF dev.api >= 21 THEN dev.abilist
    ELSE Cut(IF dev.abi64 = <<>> THEN dev.abi32 ELSE dev.abi64 \o <<T(",")>> \o dev.abi32,
             PropSize - 1)

GetKernelVersion(dev) == <<T(IF dev.uname THEN "version" ELSE "unknown")>>

Backtrace == RecordNewline(<<SP>>) \o RecordNewline(<<T("backtrace:")>>)

DumpHeader(dev, th) ==
    Newlines(<< <<T("SEP_HEAD")>>, <<T("monitor")>>, <<T("scene")>>, <<T("start")>>,
                <<T("crash")>>, <<T("api")>>, <<T("os")>>,
                <<T("kernel")>> \o GetKernelVersion(dev), <<T("abis")>> \o GetABIs(dev),
                <<T("manufacturer")>>, <<T("brand")>>, <<T("model")>>,
                <<T("fingerprint")>>, <<T("revision")>>, <<T(dev.abi)>> >>)
    \o WriteProcessAndThreadInfo(th.tid, th.comm, dev.cmdline, PropSize)
    \o DumpSignalInfo(th.signo, th.code)
    \o Each(HeaderRegisters[dev.abi], RecordRegister)
    \o Backtrace

\* Mutation: no line ends the registers.
OtherThreadHeaderGlued(dev, th) ==
    RecordNewline(<<NL, T("SEP_OTHER_INFO")>>)
    \o WriteProcessAndThreadInfo(th.tid, th.comm, dev.cmdline, NameSize)
    \o (IF th.siginfo
          THEN DumpSignalInfo(th.signo, th.code)
               \o DumpOtherThreadRegistersByPtrace(dev.abi, th.regs)
               \o RecordNewline(<<T("backtrace:")>>)
          ELSE <<>>)

\* Without the signal of the thread the header ends after its first line.
DumpOtherThreadHeader(dev, th) ==
    RecordNewline(<<NL, T("SEP_OTHER_INFO")>>)
    \o WriteProcessAndThreadInfo(th.tid, th.comm, dev.cmdline, NameSize)
    \o (IF th.siginfo
          THEN DumpSignalInfo(th.signo, th.code)
               \o DumpOtherThreadRegistersByPtrace(dev.abi, th.regs)
               \o Backtrace
          ELSE <<>>)
-----------------------------------------------------------------------------
(* The unwinder.  A stack is what libunwindstack finds step by step: the   *)
(* name of the map or "null", whether there is an ELF, the name of the     *)
(* function or "null", and whether there is a next frame.                  *)

DumpBacktraceLine(counter, map, func) ==
    RecordNewline(<< <<"frame", counter>>,
                     T(CASE map = "null" -> "<unknown>"
                         [] map = "" -> "<anonymous>"
                         [] OTHER -> map) >>
                  \o (IF func = "null" THEN <<>> ELSE <<T(func)>>))

\* A frame after which the loop breaks.
Breaks(f) == f.map = "null" \/ ~f.elf \/ ~f.step

Unwind(stack) ==
    LET stop == {i \in 1..Len(stack) : Breaks(stack[i]) \/ i = MaxFrames}
        line(i) == DumpBacktraceLine(i - 1, stack[i].map,
                                     IF stack[i].elf THEN stack[i].func ELSE "null")
    IN Concat([i \in 1..Min(stop) |-> line(i)])

\* Without a context the registers come from ptrace, or there is no trace.
DoUnwind(th) == IF th.context \/ th.regs THEN Unwind(th.stack) ELSE <<>>
-----------------------------------------------------------------------------
(* logcat, descriptors and network.                                        *)

\* A chunk that fgets returns is filtered on its own before API level 24.  It
\* is also the format: a directive in it prints an argument nobody passed, so
\* the text of a chunk stands for whatever was printed; that printing it ends
\* the daemon is the Kill of ReportFile.
GetLogcatInfo(dev, log, n) ==
    LET mine == SelectSeq(log.lines, LAMBDA c : dev.api >= 24 \/ c.mine)
        record(c) == RecordLine(c.text)
    IN RecordNewline(<< <<"tail", n>> >>)
       \o (IF log.ok THEN Each(mine, record) ELSE <<>>)

DumpLogcatInfo(dev) ==
    RecordNewline(<<NL, T("SEP_OTHER_INFO")>>) \o RecordNewline(<<T("logcat:")>>)
    \o GetLogcatInfo(dev, dev.log[1], 1)
    \o GetLogcatInfo(dev, dev.log[2], 2)
    \o GetLogcatInfo(dev, dev.log[3], 3)

Digit == [c \in {"0", "1", "2", "3", "4", "5", "6", "7", "8", "9"} |->
            CASE c = "0" -> 0 [] c = "1" -> 1 [] c = "2" -> 2 [] c = "3" -> 3
              [] c = "4" -> 4 [] c = "5" -> 5 [] c = "6" -> 6 [] c = "7" -> 7
              [] c = "8" -> 8 [] c = "9" -> 9]

\* strtol without its clamping: Atoi rejects what would be clamped.
Value(str) ==
    LET digits == SelectSeq(str, LAMBDA c : c # "-")
        v == FoldLeft(LAMBDA acc, c : 10 * acc + Digit[c], 0, digits)
    IN IF Head(str) = "-" THEN -v ELSE v

\* {v} when Atoi stores v and returns 0, {} when it returns -1.
Atoi(str) ==
    IF \/ str = <<>>
       \/ Head(str) \notin DOMAIN Digit \cup {"-"}
       \/ \E i \in 2..Len(str) : str[i] \notin DOMAIN Digit
       \/ str = <<"-">>
       \/ Value(str) > LongMax \/ Value(str) < -LongMax - 1
       \/ Value(str) > IntMax \/ Value(str) < -IntMax - 1
      THEN {} ELSE {Value(str)}

IsFd(e) == /\ e.name # <<>> /\ Head(e.name) # "."
           /\ \E v \in Atoi(e.name) : v >= 0

\* Mutation: the descriptor at the limit counts as one too many.
GetFdsShort(dir) ==
    LET fds == IF dir.ok THEN SelectSeq(dir.entries, IsFd) ELSE <<>>
        line(e) == RecordNewline(<< <<"fd", Value(e.name)>>, T(e.link) >>)
    IN Each(Cut(fds, MaxFds), line)
       \o (IF Len(fds) >= MaxFds THEN RecordNewline(<<T("......")>>) ELSE <<>>)
       \o RecordNewline(<< <<"number of FDs", Len(fds)>> >>)

GetFds(dir) ==
    LET fds == IF dir.ok THEN SelectSeq(dir.entries, IsFd) ELSE <<>>
        line(e) == RecordNewline(<< <<"fd", Value(e.name)>>, T(e.link) >>)
    IN Each(Cut(fds, MaxFds), line)
       \o (IF Len(fds) > MaxFds THEN RecordNewline(<<T("......")>>) ELSE <<>>)
       \o RecordNewline(<< <<"number of FDs", Len(fds)>> >>)

\* Mutation: no section for a directory that does not open.
DumpFdsIfOpen(dev) ==
    IF ~dev.fds.ok THEN <<>>
    ELSE RecordNewline(<<NL, T("SEP_OTHER_INFO")>>) \o RecordNewline(<<T("open files:")>>)
         \o GetFds(dev.fds)

DumpFds(dev) ==
    RecordNewline(<<NL, T("SEP_OTHER_INFO")>>) \o RecordNewline(<<T("open files:")>>)
    \o GetFds(dev.fds)

Trim(line) ==
    LET ink == {i \in 1..Len(line) : line[i] \notin {SP, NL}}
    IN IF ink = {} THEN <<>> ELSE SubSeq(line, Min(ink), Max(ink))

\* Mutation: blank lines count as records.
GetSubSectionBlank(f, title, limit) ==
    LET trimmed == [i \in 1..Len(f.lines) |-> Trim(f.lines[i])]
        n == Len(trimmed)
        shown == SelectSeq(IF limit = 0 THEN trimmed ELSE Cut(trimmed, limit),
                           LAMBDA p : p # <<>>)
        line(p) == RecordNewline(<<SP>> \o p)
    IN IF ~f.ok THEN <<>>
       ELSE RecordNewline(title) \o Each(shown, line)
            \o (IF limit > 0 /\ n > limit
                  THEN RecordNewline(<<T("......")>>)
                       \o RecordNewline(<< <<"number of records", n>> >>)
                  ELSE <<>>)
            \o RecordNewline(<<T("-")>>)

\* A file that does not open leaves no trace in the report.
GetSubSection(f, title, limit) ==
    LET trimmed == [i \in 1..Len(f.lines) |-> Trim(f.lines[i])]
        records == SelectSeq(trimmed, LAMBDA p : p # <<>>)
        n == Len(records)
        line(p) == RecordNewline(<<SP>> \o p)
    IN IF ~f.ok THEN <<>>
       ELSE RecordNewline(title)
            \o Each(IF limit = 0 THEN records ELSE Cut(records, limit), line)
            \o (IF limit > 0 /\ n > limit
                  THEN RecordNewline(<<T("......")>>)
                       \o RecordNewline(<< <<"number of records", n>> >>)
                  ELSE <<>>)
            \o RecordNewline(<<T("-")>>)

NetLimit(i) == IF i <= 4 THEN TcpLimit ELSE IcmpLimit
NetTitle(i) == << <<"net", i>> >> \o (IF i >= 4 THEN <<NL>> ELSE <<>>)

\* tcp, tcp6, udp, udp6, icmp, icmp6, unix.
GetNetworkInfo(dev) ==
    IF dev.api >= 29 THEN RecordNewline(<<T("not supported")>>)
    ELSE Concat([i \in 1..7 |-> GetSubSection(dev.net[i], NetTitle(i), NetLimit(i))])

DumpNetworkInfo(dev) ==
    RecordNewline(<<NL, T("SEP_OTHER_INFO")>>) \o RecordNewline(<<T("network info:")>>)
    \o GetNetworkInfo(dev)
-----------------------------------------------------------------------------
\* What DaemonCreateReport writes: the crashed thread, the other threads that
\* could be attached, the collectors and a last line.
DaemonCreateReport(dev) ==
    LET other(th) == DumpOtherThreadHeader(dev, th) \o DoUnwind(th)
    IN DumpHeader(dev, dev.crashed) \o DoUnwind(dev.crashed)
       \o Each(dev.others, other)
       \o DumpLogcatInfo(dev) \o DumpFds(dev) \o DumpNetworkInfo(dev)
       \o RecordNewline(<<SP>>)

=============================================================================
