----------------------------- MODULE CrashReport -----------------------------
(***************************************************************************)
(* The native crash report as a whole: ReportFile writes what ReportText   *)
(* composes.                                                               *)
(***************************************************************************)
EXTENDS ReportText, ReportFile

(* The properties of a whole report look at it when its file is complete.  *)

Kind(k) == {i \in DOMAIN file : file[i][1] = k}
Numbers(k) == LET s == SelectSeq(file, LAMBDA c : c[1] = k)
              IN [i \in 1..Len(s) |-> s[i][2]]

Markers ==
    {"SEP_HEAD", "SEP_OTHER_INFO", "pid", "signal", "backtrace:", "frame",
     "logcat:", "open files:", "fd", "number of FDs", "network info:", "net",
     "number of records", "-"}

\* Every heading and every record of a report starts its line, on every ABI and
\* whatever ptrace or /proc refused, although the lines before it may have been
\* written without \n.  Only the second and third heading of the logcat section
\* may follow a chunk of logcat that was cut (hawkeye_dumper_utils.cpp:228).
HeadingsStartLines ==
    \A i \in DOMAIN file :
        i > 1 /\ (file[i][1] \in Markers \/ file[i] = <<"tail", 1>>) => file[i - 1] = NL

\* The crashed thread comes first, then every other thread that was attached,
\* and the three collectors, each after its separator: no failure in one part
\* drops or reorders another (DaemonCreateReport, hawkeye_daemon.cpp:72-109).
PartsInOrder ==
    LET part(th) == << <<"SEP_OTHER_INFO", 0>>, <<"pid", th.tid>> >>
        kinds == {"SEP_OTHER_INFO", "pid", "logcat:", "open files:", "network info:"}
    IN pc = "flushed" =>
         SelectSeq(file, LAMBDA c : c[1] \in kinds) =
           << <<"pid", dev.crashed.tid>> >> \o Each(dev.others, part)
           \o << T("SEP_OTHER_INFO"), T("logcat:"), T("SEP_OTHER_INFO"),
                 T("open files:"), T("SEP_OTHER_INFO"), T("network info:") >>

\* The list of descriptors says that it is cut if it is, and gives the number
\* of all; one that is exactly as long as its limit is not cut
\* (hawkeye_private.cpp:313, :334).
CutListsSaySo ==
    LET fds == {e \in Range(dev.fds.entries) : e.name \notin {<<".">>, <<".", ".">>}}
        total == IF dev.fds.ok THEN Cardinality(fds) ELSE 0
        shown == Len(Numbers("fd"))
        end == Kind("number of FDs")
    IN pc = "flushed" =>
         /\ Numbers("number of FDs") = <<total>>
         /\ shown = Min({total, MaxFds})
         /\ \A i \in end : total > MaxFds <=> file[i - 2] = T("......")

\* Every socket list that can be opened has a section of its own, in the order
\* of the files, with as many of its records as its own limit allows.  A section
\* says that it is cut, and how many records there are, when a record is missing
\* and only then, whatever blank lines the file has
\* (GetSubSection, hawkeye_private.cpp:89-96; GetNetworkInfo, :343-369).
SocketListsSaySo ==
    LET in(h) == {k \in DOMAIN file : h < k /\ \A e \in Kind("-") : h < e => k < e}
        shown(h) == {k \in in(h) : file[k] = SP /\ file[k - 1] = NL}
        counts(h) == {file[k][2] : k \in in(h) \cap Kind("number of records")}
        records(i) == {j \in DOMAIN dev.net[i].lines :
                         ~(Range(dev.net[i].lines[j]) \subseteq {SP, NL})}
        limit == <<TcpLimit, TcpLimit, TcpLimit, TcpLimit, IcmpLimit, IcmpLimit, IcmpLimit>>
    IN pc = "flushed" /\ dev.api < 29 =>
         /\ Numbers("net") = SelectSeq(<<1, 2, 3, 4, 5, 6, 7>>, LAMBDA i : dev.net[i].ok)
         /\ \A h \in Kind("net") :
              LET i == file[h][2]
                  n == Cardinality(records(i))
              IN /\ Cardinality(shown(h)) = Min({n, limit[i]})
                 /\ n > limit[i] <=> in(h) \cap Kind("......") # {}
                 /\ counts(h) = IF n > limit[i] THEN {n} ELSE {}

=============================================================================
